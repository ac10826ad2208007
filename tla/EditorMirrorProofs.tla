---------------------------- MODULE EditorMirrorProofs -------------------------
(***************************************************************************)
(* The two copies of a document, the Editor in the program's state and the *)
(* canonical document of the host, in every behaviour of EditorSession.    *)
(*                                                                         *)
(* VersionsAgree holds whatever the program does.  It needs to know of     *)
(* every repair and transfer under way what text it carries (VInv): each   *)
(* names the version it was asked for, and the host, which only commits    *)
(* what the guest then takes over, is never behind the guest.              *)
(*                                                                         *)
(* MirrorInStep is about a program that stores no older clone back.  Then  *)
(* no repair is ever asked for, a request finds the Editor as it was asked *)
(* about, and each commit fits (Together).                                 *)
(*                                                                         *)
(* BarrierIsHeld needs more of the ends of a decision (Barring): a request *)
(* or gesture on its way is the one the lane waits on, a decided one has   *)
(* reached the guest before the host lets go of it, and one that adopt     *)
(* gives up is cancelled.                                                  *)
(***************************************************************************)
EXTENDS EditorProofs

-----------------------------------------------------------------------------
(***************************************************************************)
(* What both sides send each other.                                        *)
(***************************************************************************)

\* The elements of a sequence, and the messages adopt left for the end of the
\* frame.
Members(s) == {s[i] : i \in DOMAIN s}
Notes == Members(notes)

LEMMA MembersConcat ==
  ASSUME NEW S, NEW s \in Seq(S), NEW t \in Seq(S)
  PROVE  Members(s \o t) = Members(s) \cup Members(t)
<1> DEFINE u == s \o t
<1>1. /\ Len(u) = Len(s) + Len(t) /\ DOMAIN u = 1..Len(u)
      /\ DOMAIN s = 1..Len(s) /\ DOMAIN t = 1..Len(t) /\ Len(s) \in Nat /\ Len(t) \in Nat
      /\ \A i \in 1..Len(s) : u[i] = s[i]
      /\ \A i \in 1..Len(t) : u[i + Len(s)] = t[i]
  BY ConcatIn, SeqParts
<1> HIDE DEF u
<1>2. ASSUME NEW x \in Members(u) PROVE x \in Members(s) \cup Members(t)
  <2>1. PICK i \in 1..(Len(s) + Len(t)) : x = u[i]
    BY <1>1, <1>2 DEF Members
  <2>2. CASE i <= Len(s)
    BY <1>1, <2>1, <2>2 DEF Members
  <2>3. CASE i > Len(s)
    <3>1. i - Len(s) \in 1..Len(t) /\ x = t[i - Len(s)]
      BY <1>1, <2>1, <2>3
    <3> QED BY <1>1, <3>1 DEF Members
  <2> QED BY <1>1, <2>1, <2>2, <2>3
<1>3. ASSUME NEW x \in Members(s) PROVE x \in Members(u)
  <2>1. PICK i \in 1..Len(s) : x = s[i]
    BY <1>1, <1>3 DEF Members
  <2>2. i \in 1..Len(u) /\ u[i] = x
    BY <1>1, <2>1
  <2> QED BY <1>1, <2>2 DEF Members
<1>4. ASSUME NEW x \in Members(t) PROVE x \in Members(u)
  <2>1. PICK i \in 1..Len(t) : x = t[i]
    BY <1>1, <1>4 DEF Members
  <2>2. i + Len(s) \in 1..Len(u) /\ u[i + Len(s)] = x
    BY <1>1, <2>1
  <2> QED BY <1>1, <2>2 DEF Members
<1> QED BY <1>2, <1>3, <1>4 DEF u

LEMMA MembersOne == \A x : Members(<<x>>) = {x}
BY DEF Members
LEMMA MembersNone == Members(<<>>) = {}
BY DEF Members

LEMMA MembersAppend ==
  ASSUME NEW S, NEW s \in Seq(S), NEW x \in S
  PROVE  Members(Append(s, x)) = Members(s) \cup {x}
<1> DEFINE t == <<x>>
<1>1. Append(s, x) = s \o t /\ t \in Seq(S)
  OBVIOUS
<1>2. Members(t) = {x}
  BY MembersOne
<1> HIDE DEF t
<1>3. Members(s \o t) = Members(s) \cup Members(t)
  BY <1>1, MembersConcat
<1> QED BY <1>1, <1>2, <1>3

LEMMA EventsMembers == Events = Members(events) /\ Events' = Members(events')
BY DEF Events, Members

\* What Progress sends: the next part of a mirror or its failure, the
\* messages of adopt, and the request for a document.
LEMMA ProgressEvents ==
  ASSUME Typed, Typed', Turns, Progress
  PROVE  /\ Events \subseteq Events' /\ Notes \subseteq Events'
         /\ \A e \in Events' :
              \/ e \in Events \/ e \in Notes \/ e.type = "Failed"
              \/ /\ outgoing # None /\ MirrorActive
                 /\ e = Part(outgoing.id, MirrorPart, doc.text)
              \/ /\ e = Ask(Fetch.id, Fetch.target)
                 /\ incoming' = Fetch /\ serial' = serial + 1
         /\ (\A i \in DOMAIN events : events[i].type # "Part") =>
              \A i, j \in DOMAIN events' :
                events'[i].type = "Part" /\ events'[j].type = "Part" => i = j
<1> DEFINE m == MirrorSent
           ask == Ask(Fetch.id, Fetch.target)
           p == Part(outgoing.id, MirrorPart, doc.text)
           f == Failed(outgoing.id)
<1>1. LaneTypes /\ RestTypes /\ events \in Seq(Event) /\ notes \in Seq(Event)
      /\ UNCHANGED <<doc, tree>>
  BY TypedParts, Fields DEF Progress, document
<1>2. \/ m = <<>>
      \/ /\ outgoing # None /\ MirrorActive /\ m = <<p>> /\ p \in Event
      \/ /\ outgoing # None /\ m = <<f>> /\ f \in Event
  <2>1. CASE outgoing = None \/ MirrorEnded
    BY <2>1 DEF MirrorSent
  <2>2. CASE outgoing # None /\ ~MirrorEnded
    <3>1. outgoing.id \in TransferId /\ doc.text \in Nat \X Nat
      BY <1>1, <2>2 DEF RestTypes, LaneTypes, Doc
    <3>2. MirrorPart \in {"more", "last", "abort"}
      BY DEF MirrorPart
    <3>3. p \in Event /\ f \in Event
      BY <3>1, <3>2, DocumentTypes
    <3>4. (MirrorActive /\ m = <<p>>) \/ m = <<f>>
      BY <2>2 DEF MirrorSent
    <3> QED BY <2>2, <3>3, <3>4
  <2> QED BY <2>1, <2>2
<1>3. ask \in Event /\ ask.type = "Ask" /\ f.type = "Failed"
  <2>1. /\ [serial |-> serial + 1, attempt |-> 0, reset |-> tree'.ref.reset] \in TransferId
        /\ tree'.ref \in DocRef
    BY <1>1 DEF TransferId, RestTypes, Tree, DocRef
  <2> QED BY <2>1, DocumentTypes DEF Fetch, Ask, Failed
<1>4. \/ events' = events \o m \o notes
      \/ /\ incoming' = Fetch /\ serial' = serial + 1
         /\ events' = events \o m \o notes \o <<ask>>
  BY DEF Progress
<1> HIDE DEF m, ask, p, f
<1>5. m \in Seq(Event) /\ Len(m) \in {0, 1} /\ <<ask>> \in Seq(Event)
  <2>1. CASE m = <<>>
    BY <1>3, <2>1, OneIn
  <2>2. CASE m = <<p>> /\ p \in Event
    BY <1>3, <2>2, OneIn
  <2>3. CASE m = <<f>> /\ f \in Event
    BY <1>3, <2>3, OneIn
  <2> QED BY <1>2, <2>1, <2>2, <2>3
<1> DEFINE em == events \o m
           s == em \o notes
<1>6. em \in Seq(Event) /\ s \in Seq(Event)
  BY <1>1, <1>5, ConcatIn
<1>7. Members(s) = Events \cup Members(m) \cup Notes
  <2>1. Members(em) = Members(events) \cup Members(m)
    BY <1>1, <1>5, MembersConcat
  <2> HIDE DEF em
  <2>2. Members(s) = Members(em) \cup Members(notes)
    BY <1>1, <1>6, MembersConcat
  <2> QED BY <2>1, <2>2, EventsMembers DEF Notes
<1>8. \A i \in 1..Len(s) :
        \/ i <= Len(events) /\ s[i] = events[i]
        \/ i = Len(events) + 1
        \/ s[i].type \in {"Cancelled", "Failed", "Ask"}
  <2>1. /\ Len(em) = Len(events) + Len(m) /\ Len(s) = Len(em) + Len(notes)
        /\ Len(events) \in Nat /\ Len(m) \in {0, 1} /\ Len(notes) \in Nat
        /\ \A i \in 1..Len(events) : em[i] = events[i]
        /\ \A i \in 1..Len(em) : s[i] = em[i]
        /\ \A i \in 1..Len(notes) : s[i + Len(em)] = notes[i]
    BY <1>1, <1>5, <1>6, ConcatIn, SeqParts
  <2>2. \A i \in 1..Len(notes) : notes[i].type \in {"Cancelled", "Failed", "Ask"}
    BY <1>1, SeqParts DEF Turns
  <2> HIDE DEF em, s
  <2> SUFFICES ASSUME NEW i \in 1..Len(s)
               PROVE  \/ i <= Len(events) /\ s[i] = events[i]
                      \/ i = Len(events) + 1
                      \/ s[i].type \in {"Cancelled", "Failed", "Ask"}
    OBVIOUS
  <2>3. CASE i <= Len(em)
    <3>1. i \in 1..Len(em) /\ s[i] = em[i]
      BY <2>1, <2>3
    <3>2. i <= Len(events) => i \in 1..Len(events)
      BY <2>1
    <3>3. i > Len(events) => i = Len(events) + 1
      <4> DEFINE a == Len(em)
                 b == Len(events)
                 c == Len(m)
      <4>1. a = b + c /\ c \in {0, 1} /\ b \in Nat /\ i \in Nat /\ i <= a
        BY <2>1, <2>3
      <4> HIDE DEF a, b, c
      <4>2. i > b => i = b + 1
        BY <4>1
      <4> QED BY <4>2 DEF b
    <3> QED BY <2>1, <3>1, <3>2, <3>3
  <2>4. CASE i > Len(em)
    <3>1. i - Len(em) \in 1..Len(notes) /\ s[i] = notes[i - Len(em)]
      BY <2>1, <2>4
    <3> QED BY <2>2, <3>1
  <2> QED BY <2>1, <2>3, <2>4
<1> HIDE DEF s, em
<1>9. events' = s \/ (incoming' = Fetch /\ serial' = serial + 1 /\ events' = Append(s, ask))
  <2>1. s \o <<ask>> = Append(s, ask)
    BY <1>3, <1>6
  <2> QED BY <1>4, <2>1 DEF s, em
<1>10. /\ Members(s) \subseteq Events'
       /\ \A e \in Events' : e \in Members(s) \/ (e = ask /\ incoming' = Fetch /\ serial' = serial + 1)
  <2>1. Events' = Members(events')
    BY EventsMembers
  <2>2. Members(Append(s, ask)) = Members(s) \cup {ask}
    BY <1>3, <1>6, MembersAppend
  <2>3. CASE events' = s
    BY <2>1, <2>3
  <2>4. CASE incoming' = Fetch /\ serial' = serial + 1 /\ events' = Append(s, ask)
    BY <2>1, <2>2, <2>4
  <2> QED BY <1>9, <2>3, <2>4
<1>11. \A i \in DOMAIN events' :
         \/ i \in 1..Len(s) /\ events'[i] = s[i]
         \/ events'[i].type = "Ask"
  BY <1>3, <1>6, <1>9, SeqAppend, SeqParts
<1>12. (\A i \in DOMAIN events : events[i].type # "Part") =>
         \A i \in DOMAIN events' : events'[i].type = "Part" => i = Len(events) + 1
  BY <1>1, <1>8, <1>11, SeqParts
<1>13. \A e \in Events' :
              \/ e \in Events \/ e \in Notes \/ e.type = "Failed"
              \/ /\ outgoing # None /\ MirrorActive
                 /\ e = p
              \/ /\ e = ask
                 /\ incoming' = Fetch /\ serial' = serial + 1
  BY <1>2, <1>3, <1>5, <1>7, <1>10, MembersOne, MembersNone
<1> QED BY <1>7, <1>10, <1>12, <1>13 DEF p, ask

-----------------------------------------------------------------------------
\* Every event a step of the host adds to the tick.
LEMMA HostFlight ==
  ASSUME Typed, Typed', Turns, IInv, Opened, HostNext
  PROVE  /\ Events \subseteq Events'
         /\ \A e \in Events' :
              \/ e \in Events \/ e.type \in {"Fault", "Failed"}
              \/ e.type = "Acknowledged"
              \/ /\ Requests(Head(queue)) \/ Retries
                 /\ e = [type |-> "Request", req |-> pending']
              \/ \E r \in Results : Commits(r) /\ e = CommitEvent(r)
              \/ /\ Gestures
                 /\ e = [type |-> "Interaction", id |-> pending.id, state |-> pending.state]
              \/ /\ Progress /\ e \in Notes
              \/ /\ Progress /\ outgoing # None /\ MirrorActive
                 /\ e = Part(outgoing.id, MirrorPart, doc.text)
              \/ /\ Progress /\ e = Ask(Fetch.id, Fetch.target)
                 /\ incoming' = Fetch /\ serial' = serial + 1
<1>1. events \in Seq(Event) /\ events' \in Seq(Event)
  BY Fields, FieldsNext
<1>2. ASSUME NEW e \in Event, events' = Append(events, e)
      PROVE  Events' = Events \cup {e}
  BY <1>1, <1>2, MembersAppend, EventsMembers
<1>3. CASE events' = events
  BY <1>3, EventsMembers
<1>4. CASE Adopt
  BY <1>3, <1>4 DEF Adopt
<1>5. CASE Progress
  BY <1>5, ProgressEvents
<1>6. CASE Stays
  <2>1. Adds(Quiet)
    BY <1>6 DEF Stays
  <2>2. /\ DOMAIN events = 1..Len(events) /\ DOMAIN events' = 1..Len(events')
        /\ Len(events) \in Nat /\ Len(events') \in Nat
    BY <1>1, SeqParts
  <2>3. \A i \in DOMAIN events' :
          (i \in DOMAIN events /\ events'[i] = events[i]) \/ events'[i].type \in {"Fault", "Failed"}
    BY <2>1, <2>2 DEF Adds, Quiet
  <2>4. \A i \in DOMAIN events : i \in DOMAIN events' /\ events'[i] = events[i]
    BY <2>1, <2>2 DEF Adds
  <2> QED BY <2>3, <2>4 DEF Events
<1>7. CASE Retries \/ Requests(Head(queue))
  <2> DEFINE req == [id |-> Txn(Head(queue).seq, 1, Ref(doc)), kind |-> Head(queue).kind,
                     state |-> Ref(doc)]
             again == [id |-> Txn(pending.id.seq, phase.attempt + 1, Ref(doc)),
                       kind |-> pending.kind, state |-> Ref(doc)]
  <2>1. \/ pending' = req /\ events' = Append(events, [type |-> "Request", req |-> req])
        \/ pending' = again /\ events' = Append(events, [type |-> "Request", req |-> again])
    BY <1>7 DEF Retries, Retry, Requests, Requested
  <2> HIDE DEF req, again
  <2> DEFINE e == [type |-> "Request", req |-> pending']
  <2>2. events' = Append(events, e)
    BY <2>1
  <2>3. e \in Event
    <3>1. Len(events') = Len(events) + 1 /\ Len(events) \in Nat /\ events'[Len(events) + 1] = e
      BY <1>1, <2>2
    <3>2. Len(events) + 1 \in 1..Len(events')
      BY <3>1
    <3> HIDE DEF e
    <3> QED BY <1>1, <3>1, <3>2, SeqParts
  <2> HIDE DEF e
  <2>4. Events' = Events \cup {e}
    BY <1>2, <2>2, <2>3
  <2> QED BY <1>7, <2>4 DEF e
<1>8. ASSUME NEW r \in Results, Commits(r)
      PROVE  Events' = Events \cup {CommitEvent(r)}
  BY <1>2, <1>8, CommitIsEvent, TypedParts DEF Commits
<1>9. CASE Gestures
  <2> DEFINE e == [type |-> "Interaction", id |-> pending.id, state |-> pending.state]
  <2>1. events' = Append(events, e) /\ pending # None
    BY <1>9 DEF Gestures
  <2>2. e \in Event
    BY <2>1, Fields, ReportEvent
  <2> HIDE DEF e
  <2>3. Events' = Events \cup {e}
    BY <1>2, <2>1, <2>2
  <2> QED BY <1>9, <2>3 DEF e
<1>10. CASE Installs
  <2> DEFINE e == Acknowledged(incoming.id)
  <2>1. events' = Append(events, e) /\ e.type = "Acknowledged" /\ incoming # None
    BY <1>10 DEF Installs, Install, Acknowledged, Incoming
  <2>2. e \in Event
    BY <2>1, TypedParts, DocumentTypes DEF RestTypes
  <2> HIDE DEF e
  <2>3. Events' = Events \cup {e}
    BY <1>2, <2>1, <2>2
  <2> QED BY <2>1, <2>3
<1>11. CASE Drops \/ Defaults \/ \E in \in Input : Enters(in)
  BY <1>3, <1>11 DEF Drops, Defaults, Enters
<1>12. queue # <<>> => available
  BY DEF IInv, Epochs
<1> QED BY <1>4, <1>5, <1>6, <1>7, <1>8, <1>9, <1>10, <1>11, <1>12, TypedParts, HostCases

Cancel == [type |-> "Cancelled", id |-> pending.id, state |-> pending.state]

\* Every message adopt leaves for the end of the frame.
LEMMA AdoptSends ==
  ASSUME Typed, Typed', Turns, Adopt
  PROVE  /\ \A e \in Notes' :
              \/ e = Cancel /\ Releases /\ pending # None
              \/ e.type = "Failed"
              \/ /\ e = Ask(Fetch.id, Fetch.target)
                 /\ incoming' = Fetch /\ serial' = serial + 1
         /\ Releases /\ Cancellation = <<Cancel>> => Cancel \in Notes'
<1> DEFINE c == IF Releases THEN Cancellation ELSE <<>>
           aborted == incoming # None /\ Stale(incoming.target)
           failed == Failed(incoming.id)
           f == IF aborted THEN <<failed>> ELSE <<>>
           ask == Ask(Fetch.id, Fetch.target)
           S == {Cancel, failed, ask}
<1>1. failed.type = "Failed"
  BY DEF Failed
<1>2. Cancel \in S /\ failed \in S /\ ask \in S
  OBVIOUS
<1>3. \/ c = <<>>
      \/ Releases /\ pending # None /\ c = <<Cancel>>
  BY DEF Cancellation, Cancel
<1>4. Releases => c = Cancellation
  OBVIOUS
<1>5. f = <<>> \/ f = <<failed>>
  OBVIOUS
<1>6. \/ notes' = notes \o c \o f
      \/ /\ notes' = Append(notes \o c \o f, ask)
         /\ incoming' = Fetch /\ serial' = serial + 1
  BY DEF Adopt
<1>7. notes = <<>>
  BY DEF Adopt, Turns
<1> HIDE DEF S, c, f, ask, failed
<1>8. c \in Seq(S) /\ f \in Seq(S)
  BY <1>2, <1>3, <1>5, OneIn, NoneIn
<1>9. notes \o c = c
  BY <1>7, <1>8, NoneIn
<1> DEFINE s == c \o f
<1>10. s \in Seq(S) /\ Members(s) = Members(c) \cup Members(f)
  BY <1>8, ConcatIn, MembersConcat
<1>11. \/ notes' = s
       \/ notes' = Append(s, ask) /\ incoming' = Fetch /\ serial' = serial + 1
  BY <1>6, <1>9
<1> HIDE DEF s
<1>12. Members(Append(s, ask)) = Members(s) \cup {ask}
  BY <1>2, <1>10, MembersAppend
<1>13. /\ Members(s) \subseteq Notes'
       /\ \A e \in Notes' :
            \/ e \in Members(s)
            \/ e = ask /\ incoming' = Fetch /\ serial' = serial + 1
  BY <1>11, <1>12 DEF Notes
<1>14. \A e \in Members(s) : (e = Cancel /\ Releases /\ pending # None) \/ e = failed
  BY <1>3, <1>5, <1>10, MembersOne, MembersNone
<1>15. Releases /\ Cancellation = <<Cancel>> => Cancel \in Members(s)
  BY <1>4, <1>10, MembersOne
<1> QED BY <1>1, <1>13, <1>14, <1>15 DEF ask

\* What a step of the host does to the transfer it asked for.
LEMMA HostTransfers ==
  ASSUME Typed, Typed', Turns, IInv, Opened, HostNext
  PROVE  /\ serial \in Nat /\ serial' \in Nat /\ serial <= serial'
         /\ \/ incoming' = incoming \/ incoming' = None
            \/ incoming' = Fetch /\ serial' = serial + 1
         /\ frame'.message = frame.message
         /\ turn' \in {"adopt", "documents"} => Adopt
         /\ Adopt \/ Notes' \subseteq Notes
<1>1. serial \in Nat /\ serial' \in Nat
  BY Fields, FieldsNext
<1>2. /\ serial <= serial'
      /\ \/ incoming' = incoming \/ incoming' = None
         \/ incoming' = Fetch /\ serial' = serial + 1
  <2>1. CASE Adopt
    <3>1. \/ incoming' = Fetch /\ serial' = serial + 1
          \/ /\ incoming' = IF incoming # None /\ Stale(incoming.target) THEN None ELSE incoming
             /\ serial' = serial
      BY <2>1 DEF Adopt, Wanted
    <3> QED BY <1>1, <3>1
  <2>2. CASE Progress
    BY <1>1, <2>2 DEF Progress
  <2>3. CASE HostKept
    BY <2>3 DEF HostKept
  <2>4. CASE Installs
    BY <1>1, <2>4 DEF Installs, Install
  <2>5. ASSUME NEW in \in Input, Enters(in) PROVE <1>2
    BY <1>1, <2>5 DEF Enters
  <2>6. queue # <<>> => available
    BY DEF IInv, Epochs
  <2> QED BY <2>1, <2>2, <2>3, <2>4, <2>5, <2>6, TypedParts, HostCases DEF Stays, Retries,
             Drops, Defaults, Gestures, Requests, Commits
<1>3. frame'.message = frame.message
  <2>1. CASE Answer
    <3>1. frame' = [frame EXCEPT !.answers = Tail(@)] /\ frame \in Frame
      BY <2>1, TypedParts DEF Answer, RestTypes
    <3> QED BY <3>1 DEF Frame
  <2>2. CASE UNCHANGED frame
    BY <2>2
  <2>3. CASE ~Answer
    BY <2>2, <2>3 DEF HostNext, Admit, Replay, Deadline, Widget, BeginTick, Adopt, Documents,
      Progress, EndTick
  <2> QED BY <2>1, <2>3
<1>4. /\ turn' \in {"adopt", "documents"} => Adopt
      /\ Adopt \/ Notes' \subseteq Notes
  <2>1. CASE Documents
    BY <2>1 DEF Documents, Notes, Members
  <2>2. CASE Progress
    BY <2>2, MembersNone DEF Progress, Notes
  <2> QED BY <2>1, <2>2, TurnCases DEF Notes, Members
<1> QED BY <1>1, <1>2, <1>3, <1>4

\* The guest takes events only.
LEMMA GuestFlight ==
  ASSUME Typed, Typed', GuestNext, UNCHANGED host
  PROVE  /\ Events' \subseteq Events /\ Notes' = Notes
         /\ Takes => Head(events) \in Events /\ Head(events) \in Event
                     /\ Events \subseteq Events' \cup {Head(events)}
         /\ ~Takes => UNCHANGED <<events, gpending, mirror, heard>>
         /\ ~Takes /\ ~View => UNCHANGED <<wire, slots>>
<1>1. Notes' = Notes
  BY DEF host, Notes, Members
<1>2. events \in Seq(Event)
  BY Fields
<1>3. CASE Takes
  <2>1. /\ Events' \subseteq Events /\ Head(events) \in Events /\ Head(events) \in Event
        /\ Events \subseteq Events' \cup {Head(events)}
    BY <1>2, <1>3, TakesOne DEF Takes
  <2> QED BY <1>1, <1>3, <2>1
<1>4. CASE ~Takes
  <2>1. /\ UNCHANGED <<events, gpending, mirror, heard>>
        /\ ~View => UNCHANGED <<wire, slots>>
    BY <1>4, GuestCases DEF View, wire, slots
  <2>2. Events' = Events
    BY <2>1 DEF Events
  <2> QED BY <1>1, <1>4, <2>1, <2>2
<1> QED BY <1>3, <1>4

-----------------------------------------------------------------------------
(***************************************************************************)
(* The document on its way to the host.                                    *)
(***************************************************************************)
\* A transfer is known by its serial number: of the transfers the guest was
\* asked for, only the last can still be the one the host waits for.
Names(id, target) ==
  /\ id.serial <= serial
  /\ incoming # None /\ incoming.id = id => incoming.target = target

\* What the host installs is the Editor, whole, as it stands.
Arriving ==
  turn \in {"adopt", "documents"} /\ Message # None /\ Message.type = "Part" =>
    /\ Message.id.serial <= serial
    /\ incoming # None /\ incoming.id = Message.id /\ Message.part = "last" =>
         incoming.target = Ref(editor) /\ Message.text = editor.text
Uploads ==
  /\ \A e \in Events \cup Notes : e.type = "Ask" => Names(e.id, e.target)
  /\ sender # None => Names(sender.id, sender.target)
  /\ message # None => message.type # "Part"
  /\ Arriving

LEMMA NamesKept ==
  ASSUME NEW id \in TransferId, NEW target, serial \in Nat, serial' \in Nat,
         Names(id, target), serial <= serial',
         \/ incoming' = incoming \/ incoming' = None
         \/ incoming' = Fetch /\ serial' = serial + 1
  PROVE  Names(id, target)'
<1>1. id.serial \in Nat
  BY DEF TransferId
<1>2. Fetch.id.serial = serial + 1
  BY DEF Fetch
<1>3. ASSUME incoming' # None, incoming'.id = id PROVE incoming' = incoming
  BY <1>1, <1>2, <1>3 DEF Names
<1> QED BY <1>1, <1>3 DEF Names

LEMMA NamesFetch ==
  ASSUME NEW id, NEW target, incoming' = Fetch, serial \in Nat, serial' = serial + 1,
         id = Fetch.id, target = Fetch.target
  PROVE  Names(id, target)'
<1>1. Fetch.id.serial = serial + 1
  BY DEF Fetch
<1> QED BY <1>1 DEF Names

LEMMA HostUploads ==
  ASSUME Typed, Typed', Turns, IInv, Opened, Uploads, HostNext, UNCHANGED guest
  PROVE  Uploads'
<1>1. /\ serial \in Nat /\ serial' \in Nat /\ serial <= serial'
      /\ \/ incoming' = incoming \/ incoming' = None
         \/ incoming' = Fetch /\ serial' = serial + 1
      /\ frame'.message = frame.message
      /\ turn' \in {"adopt", "documents"} => Adopt
      /\ Adopt \/ Notes' \subseteq Notes
  BY HostTransfers
<1>2. ASSUME NEW id \in TransferId, NEW target, Names(id, target)
      PROVE  Names(id, target)'
  BY <1>1, <1>2, NamesKept
<1>3. UNCHANGED <<editor, sender, message>>
  BY DEF guest, slots
<1>4. sender # None => Names(sender.id, sender.target)'
  <2> SUFFICES ASSUME NEW s, s = sender, s # None PROVE Names(s.id, s.target)'
    BY <1>3
  <2>1. s.id \in TransferId
    BY TypedParts DEF GuestTypeOK
  <2> QED BY <1>2, <2>1 DEF Uploads
<1>5. \A e \in Events \cup Notes : e \in Event
  BY Fields, SeqParts DEF Events, Notes, Members
<1>6. ASSUME NEW e \in Events' \cup Notes', e.type = "Ask"
      PROVE  Names(e.id, e.target)'
  <2>1. CASE e \in Events \cup Notes
    BY <1>2, <1>5, <1>6, <2>1, EventParts DEF Uploads
  <2>2. CASE e = Ask(Fetch.id, Fetch.target) /\ incoming' = Fetch /\ serial' = serial + 1
    <3>1. e.id = Fetch.id /\ e.target = Fetch.target
      BY <2>2 DEF Ask
    <3> QED BY <1>1, <2>2, <3>1, NamesFetch
  <2>3. CASE e \in Events'
    <3>1. \A r \in Results : CommitEvent(r).type = "Commit"
      BY DEF CommitEvent
    <3>2. \A id, p, x : Part(id, p, x).type = "Part"
      BY DEF Part
    <3> QED BY <1>6, <2>1, <2>2, <2>3, <3>1, <3>2, HostFlight
  <2>4. CASE e \in Notes' /\ Adopt
    BY <1>6, <2>2, <2>4, AdoptSends DEF Cancel
  <2> QED BY <1>1, <2>1, <2>3, <2>4
<1>7. Arriving'
  <2> SUFFICES ASSUME turn' \in {"adopt", "documents"}, Message' # None, Message'.type = "Part"
               PROVE  /\ Message'.id.serial <= serial'
                      /\ incoming' # None /\ incoming'.id = Message'.id /\ Message'.part = "last" =>
                           incoming'.target = Ref(editor)' /\ Message'.text = editor'.text
    BY DEF Arriving
  <2>1. turn \in {"adopt", "documents"} /\ Message' = Message
    BY <1>1 DEF Adopt, Message
  <2>2. Message.id.serial \in Nat
    <3>1. Message \in Document
      BY <2>1, TypedParts DEF RestTypes, Message, Frame
    <3> QED BY <2>1, <3>1 DEF Document, TransferId
  <2>3. Fetch.id.serial = serial + 1
    BY DEF Fetch
  <2>4. Ref(editor)' = Ref(editor)
    BY <1>3 DEF Ref
  <2> DEFINE f == Fetch
             m == Message
  <2>5. /\ m.id.serial <= serial /\ m.id.serial \in Nat /\ f.id.serial = serial + 1
        /\ incoming # None /\ incoming.id = m.id /\ m.part = "last" =>
                           incoming.target = Ref(editor) /\ m.text = editor.text
        /\ Message' = m
        /\ \/ incoming' = incoming \/ incoming' = None
           \/ incoming' = f /\ serial' = serial + 1
    BY <1>1, <2>1, <2>2, <2>3 DEF Uploads, Arriving
  <2> HIDE DEF f, m
  <2> QED BY <1>1, <1>3, <2>4, <2>5
<1> QED BY <1>3, <1>4, <1>6, <1>7 DEF Uploads

\* The transfer the guest serves is one it was asked for, and it sends the
\* document only when it renders it.
LEMMA GuestTransfers ==
  ASSUME Typed, Typed', GuestNext, UNCHANGED host
  PROVE  /\ \/ sender' = sender \/ sender' = None
            \/ /\ sender # None /\ sender' # None
               /\ sender'.id = sender.id /\ sender'.target = sender.target
            \/ \E e \in Events :
                 e.type = "Ask" /\ sender'.id = e.id /\ sender'.target = e.target
         /\ message' = message \/ message' = None \/ message'.type # "Part"
<1>1. Takes => Head(events) \in Events
  BY GuestFlight
<1>2. \A id, target : /\ Failed(id).type # "Part" /\ Acknowledged(id).type # "Part"
                      /\ Ask(id, target).type # "Part"
  BY DEF Failed, Acknowledged, Ask
<1>3. \A m : Say(m) => message' = message \/ message' = m
  BY DEF Say
<1>4. ASSUME NEW id, Finish(id) PROVE sender' = sender \/ sender' = None
  BY <1>4 DEF Finish
<1>5. CASE View
  <2>1. sender' = sender \/ (sender # None /\ \E n : sender' = [sender EXCEPT !.stage = n])
    BY <1>5 DEF View, Sending
  <2>2. sender # None => sender \in [id: TransferId, target: DocRef, stage: 0 .. TransferFrames]
    BY TypedParts DEF GuestTypeOK
  <2>3. ASSUME sender # None, NEW n, sender' = [sender EXCEPT !.stage = n]
        PROVE  sender'.id = sender.id /\ sender'.target = sender.target
    BY <2>2, <2>3
  <2>4. sender' = None \/ sender' # None
    OBVIOUS
  <2> QED BY <1>5, <2>1, <2>3, <2>4 DEF View
<1>6. CASE AcceptRequest
  <2>1. UNCHANGED sender
    BY <1>6 DEF AcceptRequest
  <2>2. message' = message \/ message'.type # "Part"
    <3>1. AskMirror(Head(events).req) \/ UNCHANGED message
      BY <1>6 DEF AcceptRequest
    <3> QED BY <3>1, <1>2, <1>3 DEF AskMirror
  <2> QED BY <2>1, <2>2
<1>7. CASE AcceptCommit \/ AcceptInteraction
  BY <1>7 DEF AcceptCommit, AcceptInteraction
<1>8. CASE AcceptFault \/ AcceptCancelled \/ EndTransfer
  <2>1. UNCHANGED message /\ \E id : Finish(id)
    BY <1>8 DEF AcceptFault, AcceptCancelled, EndTransfer
  <2> QED BY <2>1, <1>4
<1>9. CASE StartTransfer
  <2> DEFINE e == Head(events)
             s == [id |-> e.id, target |-> e.target, stage |-> 0]
  <2>1. Takes /\ e.type = "Ask"
    BY <1>9 DEF StartTransfer, Consume, Takes
  <2>2. \/ Say(Failed(e.id)) /\ UNCHANGED sender
        \/ UNCHANGED message /\ (sender' = sender \/ sender' = s)
    BY <1>9 DEF StartTransfer
  <2>3. s.id = e.id /\ s.target = e.target
    OBVIOUS
  <2> HIDE DEF e, s
  <2>4. e \in Events
    BY <1>1, <2>1 DEF e
  <2> QED BY <1>2, <1>3, <2>1, <2>2, <2>3, <2>4
<1>10. CASE ReceiveMirror
  <2>1. UNCHANGED sender
    BY <1>10 DEF ReceiveMirror
  <2>2. \/ UNCHANGED message
        \/ \E id : Say(Failed(id)) \/ Say(Acknowledged(id))
    BY <1>10 DEF ReceiveMirror
  <2> QED BY <2>1, <2>2, <1>2, <1>3
<1>11. CASE UNCHANGED <<wire, slots, heard>>
  BY <1>11 DEF slots
<1> QED BY <1>5, <1>6, <1>7, <1>8, <1>9, <1>10, <1>11, GuestCases

LEMMA GuestUploads ==
  ASSUME Typed, Typed', Uploads, GuestNext, UNCHANGED host
  PROVE  Uploads'
<1>1. UNCHANGED <<serial, incoming>>
  BY DEF host, transfers
<1>2. ASSUME NEW id, NEW target, Names(id, target) PROVE Names(id, target)'
  BY <1>1, <1>2 DEF Names
<1>3. \A e \in Events' \cup Notes' : e.type = "Ask" => Names(e.id, e.target)'
  BY <1>2, GuestFlight DEF Uploads
<1>4. (sender # None => Names(sender.id, sender.target))'
  <2> SUFFICES ASSUME NEW s, s = sender', s # None PROVE Names(s.id, s.target)'
    BY DEF Names
  <2>1. Names(s.id, s.target)
    BY GuestTransfers DEF Uploads
  <2> QED BY <1>2, <2>1
<1>5. message' # None => message'.type # "Part"
  BY GuestTransfers DEF Uploads
<1>6. Arriving'
  <2>1. CASE View
    <3>1. /\ UNCHANGED editor
          /\ Message' = IF Sending THEN NextPart ELSE message
      <4>1. PICK a, b, c, d : frame' = [tree |-> a, answers |-> b,
                      message |-> IF Sending THEN NextPart ELSE message, busy |-> d]
        BY <2>1 DEF View
      <4> QED BY <2>1, <4>1 DEF View, Message
    <3>2. CASE ~Sending
      BY <3>1, <3>2 DEF Uploads, Arriving
    <3>3. CASE Sending
      <4>1. /\ sender # None /\ Message'.id = sender.id /\ Message'.text = editor.text
            /\ Message'.part = "last" => Ref(editor) = sender.target
        BY <3>1, <3>3 DEF Sending, NextPart, Part
      <4>2. Names(sender.id, sender.target)
        BY <4>1 DEF Uploads
      <4>3. Ref(editor)' = Ref(editor)
        BY <3>1 DEF Ref
      <4> QED BY <1>1, <3>1, <4>1, <4>2, <4>3 DEF Arriving, Names
    <3> QED BY <3>2, <3>3
  <2>2. CASE ~View
    <3>1. turn' = "guest"
      <4>1. CASE Takes
        BY <4>1 DEF Takes
      <4>2. CASE UNCHANGED <<wire, slots, heard>> /\ ~Takes
        BY <2>2, <4>2 DEF GuestNext, GuestEvent, Program, Replace, MoveTo, Rollback, Remount,
          FlipEditable, wire, AcceptRequest, AcceptCommit, AcceptInteraction, AcceptFault,
          AcceptCancelled, StartTransfer, EndTransfer, ReceiveMirror, Consume
      <4> QED BY <2>2, <4>1, <4>2, GuestCases
    <3> QED BY <3>1 DEF Arriving
  <2> QED BY <2>1, <2>2
<1> QED BY <1>3, <1>4, <1>5, <1>6 DEF Uploads

\* The host installs the document the Editor stands at.
LEMMA InstallsEditor ==
  ASSUME Typed, Uploads, Installs PROVE doc' = editor
<1>1. /\ turn = "documents" /\ Message # None /\ Message.type = "Part"
      /\ Message.part = "last" /\ incoming # None /\ incoming.id = Message.id
      /\ doc' = [reset |-> incoming.target.reset, trev |-> incoming.target.trev,
                 rev |-> incoming.target.rev, text |-> Message.text]
  BY DEF Installs, Install, Incoming
<1>2. incoming.target = Ref(editor) /\ Message.text = editor.text
  BY <1>1 DEF Uploads, Arriving
<1>3. doc' = [reset |-> editor.reset, trev |-> editor.trev, rev |-> editor.rev,
              text |-> editor.text]
  BY <1>1, <1>2 DEF Ref
<1>4. editor \in Doc
  BY Fields
<1> QED BY <1>3, <1>4 DEF Doc

-----------------------------------------------------------------------------
(***************************************************************************)
(* The requests both sides know of.                                        *)
(***************************************************************************)
\* Of an input that can still be decided, nobody knows a later attempt than
\* the lane, and nobody knows of an input that is still to be asked about.
Asks(n, a) ==
  /\ n <= serial
  /\ queue # <<>> =>
       /\ n <= Head(queue).seq
       /\ phase.at \in Moving /\ n = Head(queue).seq => pending # None /\ pending.id.seq = n
  /\ pending # None /\ n = pending.id.seq => a <= pending.id.attempt

\* The requests the guest answers for, those on their way to it, and the
\* repairs it asked for.
Known ==
  {TransferOf(p) : p \in gpending}
    \cup {TransferOf(e.req.id) : e \in InFlight("Request")}
    \cup {e.id : e \in InFlight("Part")}
    \cup {m.id : m \in {mirror} \ {None}}
Asked == \A k \in Known : Asks(k.serial, k.attempt)

LEMMA KnownIn ==
  ASSUME Typed, NEW k \in Known
  PROVE  k \in TransferId /\ k.serial \in Nat /\ k.attempt \in Nat
<1>1. \A e \in Events : e \in Event
  BY Fields, SeqParts DEF Events
<1>2. k \in TransferId
  <2>1. gpending \subseteq TxnId /\ (mirror # None => mirror.id \in TransferId)
    BY TypedParts DEF GuestTypeOK
  <2> QED BY <1>1, <2>1, TransferOfType, EventParts DEF Known, InFlight
<1> QED BY <1>2 DEF TransferId

\* What the lane asks itself.
LEMMA AsksPending ==
  ASSUME Typed', Posed', pending' # None, NEW n \in Nat, NEW a \in Nat,
         n = pending'.id.seq, a = pending'.id.attempt
  PROVE  Asks(n, a)'
BY DEF Posed, Asks

LEMMA SomeRequest ==
  ASSUME Typed, Requests(Head(queue)) \/ Retries
  PROVE  pending' # None /\ pending' \in Request
<1> DEFINE req == [id |-> Txn(Head(queue).seq, 1, Ref(doc)), kind |-> Head(queue).kind,
                   state |-> Ref(doc)]
           again == [id |-> Txn(pending.id.seq, phase.attempt + 1, Ref(doc)),
                     kind |-> pending.kind, state |-> Ref(doc)]
<1>1. queue \in Seq(Input) /\ Ref(doc) \in DocRef
  BY Fields
<1>2. CASE Requests(Head(queue))
  <2>1. pending' = req /\ queue # <<>>
    BY <1>2 DEF Requests, Requested
  <2>2. Head(queue).seq \in Nat /\ Head(queue).kind \in Kinds
    BY <1>1, <2>1, SeqParts, InputNumber
  <2>3. req \in Request
    BY <1>1, <2>2, TxnType DEF Request
  <2> QED BY <2>1, <2>3, NoneAssumption
<1>3. CASE Retries
  <2>1. pending' = again /\ pending # None
    BY <1>3 DEF Retries, Retry
  <2>2. pending.id.seq \in Nat /\ pending.kind \in Kinds /\ phase.attempt + 1 \in Nat
    <3>1. pending.id.seq \in Nat /\ pending.kind \in Kinds
      BY <2>1, Fields
    <3>2. phase \in Phases
      BY TypedParts DEF LaneTypes
    <3>3. phase.attempt \in Nat
      BY <3>2, WireAssumption DEF Phases
    <3> QED BY <3>1, <3>3
  <2>3. again \in Request
    BY <1>1, <2>2, TxnType DEF Request
  <2> QED BY <2>1, <2>3, NoneAssumption
<1> QED BY <1>2, <1>3

LEMMA HostAsks ==
  ASSUME Typed, Typed', Turns, IInv, LaneSafe, HostNext,
         NEW n \in Nat, NEW a \in Nat, Asks(n, a)
  PROVE  Asks(n, a)'
<1>1. /\ serial \in Nat /\ queue \in Seq(Input)
      /\ queue # <<>> => Head(queue).seq \in Nat
      /\ queue' # <<>> => Head(queue').seq \in Nat
      /\ pending # None => pending.id.seq \in Nat /\ pending.id.attempt \in Nat
  BY Fields, FieldsNext, SeqParts, InputNumber
<1>2. serial <= serial' /\ serial' \in Nat
  BY HostTransfers DEF LaneSafe
<1>3. ASSUME UNCHANGED <<queue, pending>>, phase'.at \in Moving => phase.at \in Moving
      PROVE  Asks(n, a)'
    BY <1>1, <1>2, <1>3 DEF Asks
<1>4. CASE Stays
  <2>1. phase'.at \in Moving => phase.at \in Moving
    BY <1>4 DEF Stays, Moving, Faulted, Decision
  <2> QED BY <1>3, <1>4, <2>1 DEF Stays, LaneKept
<1>5. ASSUME NEW in \in Input, Enters(in)
      PROVE  Asks(n, a)'
  <2>1. queue' # <<>> /\ Head(queue') = IF queue = <<>> THEN in ELSE Head(queue)
    BY <1>5, QueuedAppend DEF Enters, LaneSafe
  <2> QED BY <1>1, <1>2, <1>5, <2>1 DEF Enters, Asks
<1>6. CASE Requests(Head(queue))
  <2> DEFINE req == [id |-> Txn(Head(queue).seq, 1, Ref(doc)), kind |-> Head(queue).kind,
                     state |-> Ref(doc)]
  <2>1. /\ pending' = req /\ queue' = queue /\ queue # <<>> /\ phase.at = "Ready"
        /\ (Head(queue).kind = "key" /\ ~bypass) \/ Head(queue).kind = "click"
    BY <1>6 DEF Requests, Requested, Ready
  <2>2. req.id.seq = Head(queue).seq
    BY DEF Txn
  <2> HIDE DEF req
  <2>3. n # Head(queue).seq
    BY <2>1 DEF Asks, LaneSafe, Posed, Moving
  <2> QED BY <1>1, <1>2, <2>1, <2>2, <2>3 DEF Asks
<1>7. CASE Retries
  <2> DEFINE req == [id |-> Txn(pending.id.seq, phase.attempt + 1, Ref(doc)),
                     kind |-> pending.kind, state |-> Ref(doc)]
  <2>1. /\ pending' = req /\ queue' = queue /\ pending # None /\ phase.at = "Decision"
    BY <1>7 DEF Retries, Retry
  <2>2. req.id.seq = pending.id.seq /\ req.id.attempt = pending.id.attempt + 1
    BY <2>1 DEF Txn, LaneSafe, Phasing
  <2>3. pending' # None
    BY <1>7, SomeRequest
  <2> HIDE DEF req
  <2> QED BY <1>1, <1>2, <2>1, <2>2, <2>3 DEF Asks, Moving
<1>8. ASSUME NEW r \in Results, Commits(r)
      PROVE  Asks(n, a)'
  BY <1>3, <1>8 DEF Commits, AwaitingGuest, Moving
<1>9. CASE Defaults \/ Gestures
  BY <1>3, <1>9 DEF Defaults, Gestures
<1>10. CASE Installs
  BY <1>3, <1>10 DEF Installs, Install, lane, control
<1>11. CASE Drops
  <2>1. queue' # <<>> => Head(queue).seq < Head(queue').seq
    BY <1>2, <1>11, QueuedTail DEF Drops, LaneSafe, HostKept
  <2> QED BY <1>1, <1>2, <1>11, <2>1 DEF Drops, Asks
<1>12. CASE Adopt
  <2>1. \/ /\ Releases /\ pending' = None
           /\ queue' = IF NewEpoch THEN <<>> ELSE Kept
        \/ /\ ~Releases /\ UNCHANGED <<pending, phase>>
           /\ queue' = Kept
    BY <1>12, AdoptCases DEF LaneSafe
  <2>2. /\ Kept # <<>> => /\ queue # <<>> /\ Head(queue).seq <= Head(Kept).seq
                          /\ Head(queue).key \notin New.keys =>
                               Head(queue).seq < Head(Kept).seq
        /\ queue # <<>> /\ Head(queue).key \in New.keys =>
              Kept # <<>> /\ Head(Kept) = Head(queue)
    BY <1>1, QueuedKept DEF LaneSafe
  <2>3. CASE Releases /\ pending' = None /\ queue' = <<>>
    BY <1>1, <1>2, <2>3 DEF Asks
  <2>4. CASE Releases /\ pending' = None /\ queue' = Kept /\ ~NewEpoch
    <3>1. queue # <<>> /\ Head(queue).key \notin New.keys
      BY <2>4 DEF Releases, OwnerRemoved
    <3>2. queue' # <<>> => Head(queue).seq < Head(queue').seq
      BY <2>2, <2>4, <3>1
    <3> QED BY <1>1, <1>2, <2>4, <3>1, <3>2 DEF Asks
  <2>5. CASE ~Releases /\ UNCHANGED <<pending, phase>> /\ queue' = Kept
    <3>1. queue # <<>> => Head(queue).key \in New.keys
      BY <2>5 DEF Releases, OwnerRemoved
    <3>2. queue' # <<>> => queue # <<>> /\ Head(queue') = Head(queue)
      BY <2>2, <2>5, <3>1
    <3> QED BY <1>1, <1>2, <2>5, <3>2 DEF Asks
  <2> QED BY <2>1, <2>3, <2>4, <2>5
<1>13. CASE Progress
  <2>1. \/ UNCHANGED <<queue, phase, pending, committed>>
        \/ /\ queue # <<>> /\ committed # None
           /\ pending' = None /\ committed' = None
           /\ \/ phase = AwaitingGuest /\ queue' = Tail(queue) /\ phase' = Ready
              \/ UNCHANGED <<queue, phase>>
    BY <1>13, ProgressCases
  <2>2. tree' = tree
    BY <1>13 DEF Progress
  <2>3. CASE queue # <<>> /\ pending' = None /\ queue' = Tail(queue)
    <3>1. queue' # <<>> => Head(queue).seq < Head(queue').seq
      BY <1>2, <2>2, <2>3, QueuedTail DEF LaneSafe
    <3> QED BY <1>1, <1>2, <2>3, <3>1 DEF Asks
  <2>4. CASE committed # None /\ pending' = None /\ UNCHANGED <<queue, phase>>
    <3>1. phase.at \notin Moving
      BY <2>4 DEF LaneSafe, Phasing, Moving, Asking
    <3> QED BY <1>1, <1>2, <2>4, <3>1 DEF Asks
  <2> QED BY <1>3, <2>1, <2>3, <2>4
<1>14. queue # <<>> => available
  BY DEF IInv, Epochs
<1> QED BY <1>4, <1>5, <1>6, <1>7, <1>8, <1>9, <1>10, <1>11, <1>12, <1>13, <1>14,
           TypedParts, HostCases

LEMMA NotesTypes == Turns => \A e \in Notes : e.type \in {"Cancelled", "Failed", "Ask"}
BY DEF Turns, Notes, Members

LEMMA HostAsked ==
  ASSUME Typed, Typed', Turns, IInv, LaneSafe, LaneSafe', Asked, HostNext, UNCHANGED guest
  PROVE  Asked'
<1>1. UNCHANGED <<gpending, mirror>>
  BY DEF guest, slots
<1>2. ASSUME NEW k \in Known PROVE Asks(k.serial, k.attempt)'
  <2>1. k.serial \in Nat /\ k.attempt \in Nat /\ Asks(k.serial, k.attempt)
    BY KnownIn DEF Asked
  <2> QED BY <2>1, HostAsks
<1>3. ASSUME NEW k, pending' # None, k = TransferOf(pending'.id)
      PROVE  Asks(k.serial, k.attempt)'
  <2>1. k.serial = pending'.id.seq /\ k.attempt = pending'.id.attempt
    BY <1>3 DEF TransferOf
  <2>2. k.serial \in Nat /\ k.attempt \in Nat
    <3>1. pending' \in Request
      BY <1>3 DEF Typed, TypeOK, HostTypeOK
    <3> QED BY <2>1, <3>1 DEF Request, TxnId
  <2> QED BY <1>3, <2>1, <2>2, AsksPending DEF LaneSafe
<1>4. ASSUME NEW k \in Known' PROVE k \in Known \/ (pending' # None /\ k = TransferOf(pending'.id))
  <2>1. CASE k \in {TransferOf(p) : p \in gpending} \cup {m.id : m \in {mirror} \ {None}}
    BY <2>1 DEF Known
  <2>2. ASSUME NEW e \in Events', e.type = "Request", k = TransferOf(e.req.id)
        PROVE  k \in Known \/ (pending' # None /\ k = TransferOf(pending'.id))
    <3>1. CASE e \in Events
      BY <2>2, <3>1 DEF Known, InFlight
    <3>2. CASE /\ Requests(Head(queue)) \/ Retries
               /\ e = [type |-> "Request", req |-> pending']
      BY <2>2, <3>2, SomeRequest
    <3>3. ~(Progress /\ e \in Notes)
      BY <2>2, NotesTypes
    <3>4. /\ \A r \in Results : CommitEvent(r).type = "Commit"
          /\ \A id, x, y : Part(id, x, y).type = "Part" /\ Ask(id, x).type = "Ask"
      BY DEF CommitEvent, Part, Ask
    <3> QED BY <2>2, <3>1, <3>2, <3>3, <3>4, HostFlight DEF LaneSafe
  <2>3. ASSUME NEW e \in Events', e.type = "Part", k = e.id
        PROVE  k \in Known \/ (pending' # None /\ k = TransferOf(pending'.id))
    <3>1. CASE e \in Events
      BY <2>3, <3>1 DEF Known, InFlight
    <3>2. CASE /\ Progress /\ outgoing # None /\ MirrorActive
               /\ e = Part(outgoing.id, MirrorPart, doc.text)
      <4>1. /\ phase.at = "Decision" /\ pending # None
            /\ TransferOf(pending.id) = outgoing.id /\ e.id = outgoing.id
        BY <3>2 DEF MirrorActive, Part
      <4>2. committed = None
        BY <4>1 DEF LaneSafe, Phasing, Asking
      <4>3. pending' = pending
        BY <3>2, <4>2, ProgressCases
      <4> QED BY <2>3, <4>1, <4>3
    <3>3. ~(Progress /\ e \in Notes)
      BY <2>3, NotesTypes
    <3>4. /\ \A r \in Results : CommitEvent(r).type = "Commit"
          /\ \A id, x, y : Part(id, x, y).type = "Part" /\ Ask(id, x).type = "Ask"
      BY DEF CommitEvent, Part, Ask
    <3> QED BY <2>3, <3>1, <3>2, <3>3, <3>4, HostFlight DEF LaneSafe
  <2> QED BY <1>1, <2>1, <2>2, <2>3 DEF Known, InFlight
<1> QED BY <1>2, <1>3, <1>4 DEF Asked

\* What a step of the guest does to the decisions it answers for and to the
\* repair it asked for.
LEMMA GuestSlots ==
  ASSUME Typed, Typed', GuestNext
  PROVE  /\ \/ UNCHANGED gpending
            \/ AcceptRequest /\ gpending' = Replacing(Head(events).req.id)
            \/ /\ AcceptCommit \/ AcceptInteraction \/ AcceptFault \/ AcceptCancelled
               /\ EditorMatchesPending(Head(events).id)
               /\ gpending' = gpending \ {Head(events).id}
         /\ \/ mirror' = mirror \/ mirror' = None
            \/ /\ AcceptRequest /\ gpending' = Replacing(Head(events).req.id)
               /\ Ref(editor) # Head(events).req.state
               /\ Head(events).req.state.reset = editor.reset
               /\ mirror' = [id |-> TransferOf(Head(events).req.id),
                             target |-> Head(events).req.state]
<1>1. CASE UNCHANGED <<gpending, mirror>>
  BY <1>1
<1>2. CASE AcceptRequest
  <2>1. \/ UNCHANGED <<gpending, mirror>>
        \/ gpending' = Replacing(Head(events).req.id) /\ UNCHANGED mirror
        \/ /\ AskMirror(Head(events).req)
           /\ Ref(editor) # Head(events).req.state
           /\ Head(events).req.state.reset = editor.reset
    BY <1>2 DEF AcceptRequest
  <2> QED BY <1>2, <2>1 DEF AskMirror
<1>3. CASE AcceptCommit \/ AcceptInteraction
  BY <1>3 DEF AcceptCommit, AcceptInteraction, Acknowledge, Fits
<1>4. CASE AcceptFault \/ AcceptCancelled
  BY <1>4 DEF AcceptFault, AcceptCancelled, Acknowledge, Finish
<1>5. CASE EndTransfer \/ ReceiveMirror
  BY <1>5 DEF EndTransfer, Finish, ReceiveMirror
<1>6. CASE StartTransfer \/ View
  BY <1>1, <1>6 DEF StartTransfer, View
<1>7. CASE UNCHANGED slots
  BY <1>1, <1>7 DEF slots
<1> QED BY <1>2, <1>3, <1>4, <1>5, <1>6, <1>7, GuestCases

LEMMA GuestAsked ==
  ASSUME Typed, Typed', Asked, GuestNext, UNCHANGED host
  PROVE  Asked'
<1>1. Events' \subseteq Events
      /\ (AcceptRequest => Head(events) \in InFlight("Request"))
  BY GuestFlight DEF AcceptRequest, Consume, Takes, InFlight
<1>2. Known' \subseteq Known
  <2>1. ASSUME NEW p \in gpending' PROVE TransferOf(p) \in Known
    <3>1. CASE p \in gpending
      BY <3>1 DEF Known
    <3>2. CASE AcceptRequest /\ p = Head(events).req.id
      BY <1>1, <3>2 DEF Known
    <3> QED BY <3>1, <3>2, GuestSlots DEF Replacing
  <2>2. ASSUME mirror' # None PROVE mirror'.id \in Known
    <3>1. CASE mirror' = mirror
      BY <2>2, <3>1 DEF Known
    <3>2. CASE /\ AcceptRequest
               /\ mirror' = [id |-> TransferOf(Head(events).req.id),
                             target |-> Head(events).req.state]
      BY <1>1, <3>2 DEF Known
    <3> QED BY <2>2, <3>1, <3>2, GuestSlots
  <2>3. \A t : InFlight(t)' \subseteq InFlight(t)
    BY <1>1 DEF InFlight
  <2> QED BY <2>1, <2>2, <2>3 DEF Known
<1>3. UNCHANGED <<serial, queue, phase, pending>>
  BY DEF host, lane, control
<1> QED BY <1>2, <1>3 DEF Asked, Asks

LEMMA EventTypes ==
  /\ \A r \in Results : CommitEvent(r).type = "Commit"
  /\ \A id, x, y : /\ Part(id, x, y).type = "Part" /\ Part(id, x, y).id = id
                   /\ Part(id, x, y).part = x /\ Part(id, x, y).text = y
                   /\ Ask(id, x).type = "Ask"
BY DEF CommitEvent, Part, Ask

\* A request is new to everybody.
LEMMA NewAsk ==
  ASSUME Typed, LaneSafe, Requests(Head(queue)) \/ Retries, NEW n \in Nat, NEW a \in Nat,
         Asks(n, a)
  PROVE  ~(n = pending'.id.seq /\ a = pending'.id.attempt)
<1>1. CASE Requests(Head(queue))
  <2> DEFINE req == [id |-> Txn(Head(queue).seq, 1, Ref(doc)), kind |-> Head(queue).kind,
                     state |-> Ref(doc)]
  <2>1. /\ pending' = req /\ queue # <<>> /\ phase.at = "Ready"
        /\ (Head(queue).kind = "key" /\ ~bypass) \/ Head(queue).kind = "click"
    BY <1>1 DEF Requests, Requested, Ready
  <2>2. req.id.seq = Head(queue).seq
    BY DEF Txn
  <2> HIDE DEF req
  <2>3. n # Head(queue).seq
    BY <2>1 DEF Asks, LaneSafe, Posed, Moving
  <2> QED BY <2>1, <2>2, <2>3
<1>2. CASE Retries
  <2> DEFINE req == [id |-> Txn(pending.id.seq, phase.attempt + 1, Ref(doc)),
                     kind |-> pending.kind, state |-> Ref(doc)]
  <2>1. /\ pending' = req /\ pending # None /\ phase.at = "Decision"
    BY <1>2 DEF Retries, Retry
  <2>2. req.id.seq = pending.id.seq /\ req.id.attempt = pending.id.attempt + 1
    BY <2>1 DEF Txn, LaneSafe, Phasing
  <2>3. pending.id.attempt \in Nat
    BY <2>1, Fields
  <2> HIDE DEF req
  <2> QED BY <2>1, <2>2, <2>3 DEF Asks
<1> QED BY <1>1, <1>2

-----------------------------------------------------------------------------
(***************************************************************************)
(* The parts of a repair.                                                  *)
(***************************************************************************)
\* The host sends one part at a time, after it has taken the guest's frame in.
OnePart ==
  /\ \A i, j \in DOMAIN events :
       events[i].type = "Part" /\ events[j].type = "Part" => i = j
  /\ turn \in {"adopt", "documents", "mirror"} => InFlight("Part") = {}

LEMMA HostOnePart ==
  ASSUME Typed, Typed', Turns, IInv, LaneSafe, OnePart, HostNext
  PROVE  OnePart'
<1>1. events \in Seq(Event) /\ events' \in Seq(Event)
  BY Fields, FieldsNext
<1>2. CASE Progress
  <2>1. \A i \in DOMAIN events : events[i].type # "Part"
    BY <1>2 DEF OnePart, Progress, InFlight, Events
  <2> QED BY <1>2, <2>1, ProgressEvents DEF OnePart, Progress
<1>3. CASE ~Progress
  <2>1. \A i \in DOMAIN events' : events'[i].type = "Part" => i \in DOMAIN events /\ events[i] = events'[i]
    <3>1. ASSUME NEW types, "Part" \notin types, Adds(types)
          PROVE  <2>1
      <4>1. types \cap {"Part"} = {}
        BY <3>1
      <4> QED BY <1>1, <3>1, <4>1, AddsKeeps
    <3>2. CASE Adopt
      BY <3>2 DEF Adopt
    <3>3. CASE Stays
      BY <3>1, <3>3 DEF Stays, Quiet
    <3>4. ASSUME NEW e, e.type # "Part", events' = Append(events, e)
          PROVE  <2>1
      <4>1. /\ Len(events') = Len(events) + 1 /\ events'[Len(events) + 1] = e
            /\ \A i \in 1..Len(events) : events'[i] = events[i]
            /\ Len(events) \in Nat /\ DOMAIN events = 1..Len(events)
            /\ DOMAIN events' = 1..Len(events')
        BY <1>1, <3>4
      <4> QED BY <3>4, <4>1
    <3>5. CASE Requests(Head(queue)) \/ Retries
      <4>1. \E req : events' = Append(events, [type |-> "Request", req |-> req])
        BY <3>5 DEF Requests, Requested, Retries, Retry
      <4>2. \A req : [type |-> "Request", req |-> req].type # "Part"
        OBVIOUS
      <4> QED BY <3>4, <4>1, <4>2
    <3>6. ASSUME NEW r \in Results, Commits(r) PROVE <2>1
      BY <3>4, <3>6, EventTypes DEF Commits
    <3>7. CASE Gestures
      <4> DEFINE e == [type |-> "Interaction", id |-> pending.id, state |-> pending.state]
      <4>1. events' = Append(events, e) /\ e.type # "Part"
        BY <3>7 DEF Gestures
      <4> HIDE DEF e
      <4> QED BY <3>4, <4>1
    <3>8. CASE Installs
      BY <3>4, <3>8 DEF Installs, Install, Acknowledged
    <3>9. CASE Drops \/ Defaults \/ \E in \in Input : Enters(in)
      BY <3>9 DEF Drops, Defaults, Enters
    <3>10. queue # <<>> => available
      BY DEF IInv, Epochs
    <3> QED BY <1>3, <3>2, <3>3, <3>5, <3>6, <3>7, <3>8, <3>9, <3>10, TypedParts, HostCases
  <2>2. turn' \in {"adopt", "documents", "mirror"} => InFlight("Part") = {}
    <3>1. turn' \in {"adopt", "documents", "mirror"} => Adopt \/ Documents
      BY <1>3, TurnCases
    <3>2. Adopt \/ Documents => turn \in {"adopt", "documents"}
      BY DEF Adopt, Documents
    <3> QED BY <3>1, <3>2 DEF OnePart
  <2> QED BY <2>1, <2>2 DEF OnePart, InFlight, Events
<1> QED BY <1>2, <1>3

LEMMA GuestOnePart ==
  ASSUME Typed, Typed', OnePart, Turns, GuestNext, UNCHANGED host
  PROVE  OnePart' /\ (Takes /\ Head(events).type = "Part" => InFlight("Part")' = {})
<1>1. events \in Seq(Event) /\ events' \in Seq(Event) /\ DOMAIN events' \subseteq Nat
      /\ 0 \notin DOMAIN events'
  BY Fields, FieldsNext, SeqParts
<1>2. CASE Takes
  <2>1. /\ Head(events) = events[1] /\ 1 \in DOMAIN events
        /\ \A i \in DOMAIN events' : i + 1 \in DOMAIN events /\ events'[i] = events[i + 1]
        /\ turn' = "guest"
    BY <1>1, <1>2, TakesOne DEF Takes
  <2>2. \A i, j \in DOMAIN events' :
          events'[i].type = "Part" /\ events'[j].type = "Part" => i = j
    <3>1. \A i, j \in DOMAIN events' :
            events'[i].type = "Part" /\ events'[j].type = "Part" => i + 1 = j + 1
      BY <2>1 DEF OnePart
    <3> QED BY <1>1, <3>1
  <2>3. ASSUME Head(events).type = "Part", NEW i \in DOMAIN events', events'[i].type = "Part"
        PROVE  FALSE
    <3>1. i + 1 = 1
      BY <2>1, <2>3 DEF OnePart
    <3> QED BY <1>1, <2>3, <3>1
  <2> QED BY <2>1, <2>2, <2>3 DEF OnePart, InFlight, Events
<1>3. CASE ~Takes
  <2>1. events' = events
    BY <1>3, GuestFlight
  <2>2. turn = "guest" => InFlight("Part")' = InFlight("Part")
    BY <2>1 DEF InFlight, Events
  <2>3. turn' \in {"adopt", "documents", "mirror"} => InFlight("Part")' = {}
    <3>1. CASE View
      BY <3>1 DEF View, InFlight, Events
    <3>2. CASE ~View
      BY <1>3, <2>1, <3>2, GuestFlight DEF wire, OnePart, InFlight, Events
    <3> QED BY <3>1, <3>2
  <2> QED BY <1>3, <2>1, <2>3 DEF OnePart
<1> QED BY <1>2, <1>3

-----------------------------------------------------------------------------
(***************************************************************************)
(* Versions of the text.                                                   *)
(***************************************************************************)
\* The clone the program kept is no newer than the Editor.
Clones == older.trev <= editor.trev /\ (older.trev = editor.trev => older.text = editor.text)

\* The host is never behind the guest in its epoch.
Behind(r, v, text) ==
  loaded /\ doc.reset = r => v <= doc.trev /\ (v = doc.trev => text = doc.text)
Versions ==
  /\ Behind(editor.reset, editor.trev, editor.text)
  /\ Behind(older.reset, older.trev, older.text)

\* The repairs the guest has asked for or can still ask for, and what would be
\* installed for them: the text of the version they name.
Holders ==
  {[id |-> TransferOf(e.req.id), target |-> e.req.state] : e \in InFlight("Request")}
    \cup ({mirror} \ {None})
Matches(d, target, text) == d.reset = target.reset /\ d.trev = target.trev => d.text = text
Held ==
  \A h \in Holders :
    /\ h.target.reset <= editor.reset
    /\ pending # None /\ h.id = TransferOf(pending.id) => h.target = pending.state
    /\ \A p \in InFlight("Part") : p.part = "last" /\ h.id = p.id =>
         /\ Behind(h.target.reset, h.target.trev, p.text)
         /\ Matches(editor, h.target, p.text)
         /\ Matches(older, h.target, p.text)
VInv == Asked /\ Uploads /\ OnePart /\ Clones /\ Versions /\ Held

LEMMA HolderIn ==
  ASSUME Typed, NEW h \in Holders
  PROVE  /\ h \in [id: TransferId, target: DocRef] /\ h.id \in Known
         /\ h.id.serial \in Nat /\ h.id.attempt \in Nat
         /\ h.target.reset \in Nat /\ h.target.trev \in Nat
<1>1. \A e \in Events : e \in Event
  BY Fields, SeqParts DEF Events
<1>2. h \in [id: TransferId, target: DocRef]
  <2>1. mirror # None => mirror \in [id: TransferId, target: DocRef]
    BY TypedParts DEF GuestTypeOK
  <2> QED BY <1>1, <2>1, TransferOfType, EventParts DEF Holders, InFlight
<1>3. h.id \in Known
  <2>1. CASE \E e \in InFlight("Request") : h = [id |-> TransferOf(e.req.id), target |-> e.req.state]
    BY <2>1 DEF Known
  <2>2. CASE h = mirror /\ mirror # None
    BY <2>2 DEF Known
  <2> QED BY <2>1, <2>2 DEF Holders
<1> QED BY <1>2, <1>3 DEF TransferId, DocRef

LEMMA CommitDoc ==
  ASSUME Typed, LaneSafe, NEW r \in Results, Commits(r)
  PROVE  /\ loaded /\ loaded' /\ doc'.reset = doc.reset
         /\ \/ doc'.trev = doc.trev /\ doc'.text = doc.text
            \/ doc'.trev = doc.trev + 1
         /\ doc'.rev = edRev + 1
<1>1. loaded /\ loaded' = loaded /\ doc' = After(r)
  BY DEF Commits, LaneSafe, Opened
<1>2. doc \in Doc
  BY Fields
<1> QED BY <1>1, <1>2 DEF After, Doc

\* The canonical document changes by a commit, or it is the Editor's.
LEMMA HostDoc ==
  ASSUME Typed, Typed', Turns, IInv, LaneSafe, Uploads, HostNext
  PROVE  \/ UNCHANGED <<doc, loaded>>
         \/ \E r \in Results : Commits(r)
         \/ Installs /\ doc' = editor
         \/ Adopt /\ ~loaded'
<1>1. queue # <<>> => available
  BY DEF IInv, Epochs
<1>2. CASE Adopt
  BY <1>2, AdoptCases DEF LaneSafe
<1>3. CASE Progress
  BY <1>3 DEF Progress, document
<1>4. CASE Installs
  BY <1>4, InstallsEditor
<1>5. CASE Requests(Head(queue)) \/ Retries
  BY <1>5 DEF Requests, Requested, Retries, Retry, document
<1> QED BY <1>1, <1>2, <1>3, <1>4, <1>5, TypedParts, HostCases
      DEF Stays, LaneKept, Drops, Defaults, Gestures, Enters

\* What was not ahead of the host stays so.
LEMMA HostBehind ==
  ASSUME Typed, Typed', Turns, IInv, LaneSafe, Uploads, HostNext, ~Installs,
         NEW r \in Nat, NEW v \in Nat, NEW text, Behind(r, v, text)
  PROVE  Behind(r, v, text)'
<1>1. doc.trev \in Nat
  BY Fields
<1>2. CASE UNCHANGED <<doc, loaded>>
  BY <1>2 DEF Behind
<1>3. ASSUME NEW res \in Results, Commits(res) PROVE Behind(r, v, text)'
  BY <1>1, <1>3, CommitDoc DEF Behind
<1>4. CASE ~loaded'
  BY <1>4 DEF Behind
<1> QED BY <1>2, <1>3, <1>4, HostDoc

LEMMA HostVersions ==
  ASSUME Typed, Typed', Turns, IInv, LaneSafe, VInv, HostNext, UNCHANGED guest
  PROVE  Clones' /\ Versions'
<1>1. UNCHANGED <<editor, older>>
  BY DEF guest
<1>2. Clones'
  BY <1>1 DEF VInv, Clones
<1>3. Versions'
  <2>1. /\ editor.reset \in Nat /\ editor.trev \in Nat /\ older.reset \in Nat /\ older.trev \in Nat
        /\ older.reset = editor.reset
    BY TypedParts DEF GuestTypeOK, Doc, Turns
  <2>2. CASE Installs
    <3>1. doc' = editor
      BY <2>2, InstallsEditor DEF VInv
    <3> QED BY <1>1, <2>1, <3>1 DEF VInv, Clones, Versions, Behind
  <2>3. CASE ~Installs
    <3>1. ASSUME NEW x \in {editor, older} PROVE Behind(x.reset, x.trev, x.text)'
      <4> SUFFICES ASSUME NEW r, NEW v, NEW t, r = x.reset, v = x.trev, t = x.text
                   PROVE  Behind(r, v, t)'
        BY DEF Behind
      <4> QED BY <2>1, <2>3, HostBehind DEF VInv, Versions
    <3> QED BY <1>1, <3>1 DEF Versions, Behind
  <2> QED BY <2>2, <2>3
<1> QED BY <1>2, <1>3

\* The host asks about the canonical document, and names it.
LEMMA HostPending ==
  ASSUME Typed, Typed', Turns, IInv, LaneSafe, HostNext
  PROVE  \/ pending' = None \/ pending' = pending
         \/ /\ Requests(Head(queue)) \/ Retries
            /\ pending' # None /\ pending'.state = Ref(doc)
<1>1. queue # <<>> => available
  BY DEF IInv, Epochs
<1>2. CASE Adopt
  BY <1>2, AdoptCases DEF LaneSafe
<1>3. CASE Progress
  BY <1>3, ProgressCases
<1>4. CASE Installs
  BY <1>4 DEF Installs, Install, control
<1>5. CASE Requests(Head(queue)) \/ Retries
  <2>1. pending' # None
    BY <1>5, SomeRequest
  <2>2. pending'.state = Ref(doc)
    BY <1>5 DEF Requests, Requested, Retries, Retry
  <2> QED BY <1>5, <2>1, <2>2
<1> QED BY <1>1, <1>2, <1>3, <1>4, <1>5, TypedParts, HostCases
      DEF Stays, LaneKept, Drops, Defaults, Gestures, Enters, Commits

LEMMA HostHolders ==
  ASSUME Typed, Typed', Turns, IInv, LaneSafe, HostNext, UNCHANGED guest
  PROVE  /\ \A e \in InFlight("Request")' :
              \/ e \in InFlight("Request")
              \/ /\ Requests(Head(queue)) \/ Retries
                 /\ pending' # None /\ e.req = pending'
         /\ \A h \in Holders' :
              \/ h \in Holders
              \/ /\ Requests(Head(queue)) \/ Retries
                 /\ pending' # None /\ h.id = TransferOf(pending'.id)
                 /\ h.target = pending'.state
         /\ \A p \in InFlight("Part")' :
              \/ p \in InFlight("Part")
              \/ /\ Progress /\ pending' = pending /\ pending # None /\ phase.at = "Decision"
                 /\ p.id = TransferOf(pending.id) /\ p.text = doc.text
<1>1. mirror' = mirror
  BY DEF guest, slots
<1>2. \A e \in Notes : e.type \notin {"Request", "Part"}
  BY NotesTypes
<1>3. ASSUME NEW e \in Events', e.type = "Request"
      PROVE  \/ e \in Events
             \/ /\ Requests(Head(queue)) \/ Retries
                /\ pending' # None /\ e.req = pending'
  BY <1>2, <1>3, EventTypes, HostFlight, SomeRequest DEF LaneSafe
<1>4. ASSUME NEW p \in Events', p.type = "Part"
      PROVE  \/ p \in Events
             \/ /\ Progress /\ pending' = pending /\ pending # None /\ phase.at = "Decision"
                /\ p.id = TransferOf(pending.id) /\ p.text = doc.text
  <2>1. \/ p \in Events
        \/ /\ Progress /\ outgoing # None /\ MirrorActive
           /\ p = Part(outgoing.id, MirrorPart, doc.text)
    BY <1>2, <1>4, EventTypes, HostFlight DEF LaneSafe
  <2>2. CASE /\ Progress /\ outgoing # None /\ MirrorActive
             /\ p = Part(outgoing.id, MirrorPart, doc.text)
    <3>1. /\ phase.at = "Decision" /\ pending # None
          /\ TransferOf(pending.id) = outgoing.id
      BY <2>2 DEF MirrorActive
    <3>2. committed = None
      BY <3>1 DEF LaneSafe, Phasing, Asking
    <3>3. pending' = pending
      BY <2>2, <3>2, ProgressCases
    <3> QED BY <2>2, <3>1, <3>3, EventTypes
  <2> QED BY <2>1, <2>2
<1>5. \A h \in Holders' :
        \/ h \in Holders
        \/ /\ Requests(Head(queue)) \/ Retries
           /\ pending' # None /\ h.id = TransferOf(pending'.id)
           /\ h.target = pending'.state
  BY <1>1, <1>3 DEF Holders, InFlight
<1> QED BY <1>3, <1>4, <1>5 DEF InFlight

LEMMA HostHeld ==
  ASSUME Typed, Typed', Turns, IInv, LaneSafe, VInv, HostNext, UNCHANGED guest
  PROVE  Held'
<1>1. UNCHANGED <<editor, older>> /\ older.reset = editor.reset
  BY DEF guest, Turns
<1>2. /\ doc.reset \in Nat /\ doc.trev \in Nat /\ editor.reset \in Nat /\ tree.ref.reset \in Nat
      /\ doc.reset <= editor.reset
      /\ Ref(doc).reset = doc.reset /\ Ref(doc).trev = doc.trev
  BY Fields DEF LaneSafe, Opened, Turns, Ref
<1>3. ASSUME NEW id \in TransferId, Asks(id.serial, id.attempt), Requests(Head(queue)) \/ Retries
      PROVE  id # TransferOf(pending'.id)
  <2>1. id.serial \in Nat /\ id.attempt \in Nat
    BY DEF TransferId
  <2>2. ~(id.serial = pending'.id.seq /\ id.attempt = pending'.id.attempt)
    BY <1>3, <2>1, NewAsk
  <2> QED BY <2>2 DEF TransferOf
<1>4. ASSUME NEW h \in Holders', NEW p \in InFlight("Part")', p.part = "last", h.id = p.id
      PROVE  ~Installs /\ ~Adopt
  <2>1. Installs \/ Adopt => InFlight("Part")' = {}
    <3>1. Installs \/ Adopt => turn \in {"adopt", "documents"}
      BY DEF Installs, Adopt
    <3>2. Adopt => ~Progress
      BY DEF Adopt, Progress
    <3>3. Installs => ~Progress
      BY DEF Installs, Progress
    <3> QED BY <3>1, <3>2, <3>3, HostHolders DEF VInv, OnePart
  <2> QED BY <1>4, <2>1
<1>5. ASSUME NEW h \in Holders
      PROVE  /\ h.target.reset <= editor'.reset
             /\ pending' # None /\ h.id = TransferOf(pending'.id) => h.target = pending'.state
  <2>1. h.target.reset <= editor.reset
    BY DEF VInv, Held
  <2>2. CASE pending' = None
    BY <1>1, <2>1, <2>2
  <2>3. CASE pending' = pending
    BY <1>1, <2>1, <2>3 DEF VInv, Held
  <2>4. CASE Requests(Head(queue)) \/ Retries
    <3>1. h.id \in TransferId /\ Asks(h.id.serial, h.id.attempt)
      BY HolderIn DEF VInv, Asked
    <3> QED BY <1>1, <1>3, <2>1, <2>4, <3>1
  <2> QED BY <2>2, <2>3, <2>4, HostPending
<1>6. ASSUME NEW h, h.target = Ref(doc)
      PROVE  h.target.reset <= editor'.reset
  BY <1>1, <1>2, <1>6
<1>7. ASSUME NEW h \in Holders, NEW p \in InFlight("Part"), p.part = "last", h.id = p.id,
             ~Installs
      PROVE  /\ Behind(h.target.reset, h.target.trev, p.text)'
             /\ Matches(editor, h.target, p.text)'
             /\ Matches(older, h.target, p.text)'
  <2>1. /\ Behind(h.target.reset, h.target.trev, p.text)
        /\ Matches(editor, h.target, p.text) /\ Matches(older, h.target, p.text)
    BY <1>7 DEF VInv, Held
  <2>2. h.target.reset \in Nat /\ h.target.trev \in Nat
    BY HolderIn
  <2>3. Behind(h.target.reset, h.target.trev, p.text)'
    BY <1>7, <2>1, <2>2, HostBehind DEF VInv
  <2> QED BY <1>1, <2>1, <2>3 DEF Matches
<1>8. ASSUME NEW h \in Holders, Progress, pending' = pending, pending # None,
             phase.at = "Decision", NEW p, h.id = p.id, p.id = TransferOf(pending.id),
             p.text = doc.text
      PROVE  /\ Behind(h.target.reset, h.target.trev, p.text)'
             /\ Matches(editor, h.target, p.text)'
             /\ Matches(older, h.target, p.text)'
  <2>1. h.target = Ref(doc)
    BY <1>8 DEF VInv, Held, LaneSafe, Posed, Asking
  <2>2. loaded /\ UNCHANGED doc
    BY <1>8 DEF LaneSafe, Opened, Progress, document
  <2>3. Behind(h.target.reset, h.target.trev, p.text)'
    BY <1>2, <1>8, <2>1, <2>2 DEF Behind
  <2>4. Matches(editor, h.target, p.text) /\ Matches(older, h.target, p.text)
    BY <1>2, <1>8, <2>1, <2>2 DEF Matches, VInv, Versions, Behind
  <2> QED BY <1>1, <2>3, <2>4 DEF Matches
<1>9. \A p \in InFlight("Part") : p.id \in TransferId /\ Asks(p.id.serial, p.id.attempt)
  <2>1. \A p \in InFlight("Part") : p.id \in Known
    BY DEF Known
  <2> QED BY <2>1, KnownIn DEF VInv, Asked
<1>10. ASSUME NEW h \in Holders'
       PROVE  /\ h.target.reset <= editor'.reset
              /\ pending' # None /\ h.id = TransferOf(pending'.id) => h.target = pending'.state
              /\ \A p \in InFlight("Part")' : p.part = "last" /\ h.id = p.id =>
                   /\ Behind(h.target.reset, h.target.trev, p.text)'
                   /\ Matches(editor, h.target, p.text)'
                   /\ Matches(older, h.target, p.text)'
  <2>1. CASE h \in Holders
    BY <1>4, <1>5, <1>7, <1>8, <2>1, HostHolders
  <2>2. CASE /\ Requests(Head(queue)) \/ Retries
             /\ pending' # None /\ h.id = TransferOf(pending'.id)
             /\ h.target = pending'.state
    <3>1. h.target.reset <= editor'.reset
      <4>1. pending'.state = Ref(doc)
        BY <2>2 DEF Requests, Requested, Retries, Retry
      <4> QED BY <1>6, <2>2, <4>1
    <3>2. ASSUME NEW p \in InFlight("Part")', h.id = p.id PROVE FALSE
      <4>1. p \in InFlight("Part")
        <5>1. Requests(Head(queue)) => turn = "host"
          BY DEF Requests
        <5>2. Retries /\ Progress /\ pending' = pending /\ pending # None => FALSE
          <6> SUFFICES ASSUME Retries, pending' = pending, pending # None PROVE FALSE
            OBVIOUS
          <6> DEFINE req == [id |-> Txn(pending.id.seq, phase.attempt + 1, Ref(doc)),
                             kind |-> pending.kind, state |-> Ref(doc)]
          <6>1. pending = req /\ phase.at = "Decision"
            BY DEF Retries, Retry
          <6>2. req.id.attempt = pending.id.attempt + 1
            BY <6>1 DEF Txn, LaneSafe, Phasing
          <6>3. pending.id.attempt \in Nat
            BY Fields
          <6> HIDE DEF req
          <6> QED BY <6>1, <6>2, <6>3
        <5> QED BY <2>2, <5>1, <5>2, HostHolders DEF Progress
      <4> QED BY <1>3, <1>9, <2>2, <3>2, <4>1
    <3> QED BY <2>2, <3>1, <3>2
  <2> QED BY <2>1, <2>2, HostHolders
<1> QED BY <1>10 DEF Held

\* How the Editor changes: a new epoch, an older clone, the commit that leads
\* to the canonical document, or a repair.
NewEpochOf ==
  /\ turn = "guest" /\ UNCHANGED events
  /\ editor'.reset = editor.reset + 1 /\ older' = editor'
CommitsTo ==
  /\ AcceptCommit /\ Takes /\ Head(events) \in InFlight("Commit")
  /\ EditorMatchesPending(Head(events).id) /\ Head(events).before = Ref(editor)
  /\ gpending' = gpending \ {Head(events).id}
  /\ loaded /\ editor' = doc /\ older' \in {older, editor}
  /\ doc.reset = editor.reset /\ editor.trev <= doc.trev
RepairsTo(p) ==
  /\ ReceiveMirror /\ Takes /\ p = Head(events) /\ p \in InFlight("Part") /\ p.part = "last"
  /\ mirror # None /\ mirror.id = p.id
  /\ editor.trev <= mirror.target.trev /\ mirror.target.reset = editor.reset
  /\ editor'.reset = mirror.target.reset /\ editor'.trev = mirror.target.trev
  /\ editor'.text = p.text /\ older' \in {older, editor}

LEMMA GuestEditor ==
  ASSUME Typed, Typed', Turns, LaneSafe, Versions, GuestNext, UNCHANGED host
  PROVE  \/ UNCHANGED <<editor, older>> \/ NewEpochOf
         \/ Rollback /\ editor' = older /\ older' = older
         \/ CommitsTo \/ \E p \in Event : RepairsTo(p)
<1>1. editor \in Doc /\ doc \in Doc /\ editor.trev \in Nat /\ doc.trev \in Nat
  BY Fields
<1>2. CASE UNCHANGED <<editor, older>>
  BY <1>2
<1>3. CASE Replace \/ MoveTo
  <2>1. editor'.reset = editor.reset + 1 /\ older' = editor'
    <3>1. CASE Replace
      BY <3>1 DEF Replace
    <3>2. CASE MoveTo
      BY <1>1, <3>2 DEF MoveTo, Doc
    <3> QED BY <1>3, <3>1, <3>2
  <2> QED BY <1>3, <2>1 DEF NewEpochOf, Replace, MoveTo, Program, wire
<1>4. CASE Rollback
  BY <1>4 DEF Rollback
<1>5. CASE Remount \/ FlipEditable \/ View
  BY <1>2, <1>5 DEF Remount, FlipEditable, View
<1>6. CASE AcceptCommit /\ Takes
  <2> DEFINE e == Head(events)
  <2>1. CASE ~Fits(e)
    BY <1>2, <1>6, <2>1 DEF AcceptCommit
  <2>2. CASE Fits(e)
    <3>1. /\ e.type = "Commit" /\ e \in Events /\ older' \in {older, editor}
          /\ gpending' = gpending \ {e.id}
          /\ editor' = [e.after EXCEPT !.text =
                           IF e.after.trev = e.before.trev THEN editor.text ELSE @]
      BY <1>6, <2>2, GuestFlight DEF AcceptCommit, Consume, Acknowledge
    <3>2. e \in InFlight("Commit")
      BY <3>1 DEF InFlight
    <3>3. loaded /\ e.after = doc /\ e.before.reset = doc.reset /\ e.before.trev <= doc.trev
      BY <3>2 DEF LaneSafe, Flying
    <3>4. e.before = Ref(editor) /\ EditorMatchesPending(e.id)
      BY <2>2 DEF Fits
    <3>5. e.before.trev = editor.trev /\ e.before.reset = editor.reset
      BY <3>4 DEF Ref
    <3>6. doc.trev = editor.trev => editor.text = doc.text
      BY <3>3, <3>5 DEF Versions, Behind
    <3> HIDE DEF e
    <3>7. editor' = [doc EXCEPT !.text = IF doc.trev = editor.trev THEN editor.text ELSE @]
      BY <3>1, <3>3, <3>5
    <3>8. editor' = doc
      BY <1>1, <3>6, <3>7 DEF Doc
    <3> QED BY <1>6, <3>1, <3>2, <3>3, <3>4, <3>5, <3>8 DEF CommitsTo, e
  <2> QED BY <2>1, <2>2
<1>7. CASE ReceiveMirror /\ Takes
  <2>1. Head(events).type = "Part" /\ Head(events) \in InFlight("Part") /\ Head(events) \in Event
    BY <1>7, GuestFlight DEF ReceiveMirror, Consume, InFlight
  <2> DEFINE p == Head(events)
  <2>2. mirror # None => /\ mirror.target.trev \in Nat
    BY TypedParts DEF GuestTypeOK, DocRef
  <2>3. \/ UNCHANGED <<editor, older>>
        \/ /\ mirror # None /\ mirror.id = p.id /\ p.part = "last"
           /\ mirror.target.reset = editor.reset /\ mirror.target.trev >= editor.trev
           /\ editor' = [reset |-> mirror.target.reset, trev |-> mirror.target.trev,
                         rev |-> mirror.target.rev, text |-> p.text]
           /\ older' \in {older, editor}
    BY <1>7 DEF ReceiveMirror
  <2>4. CASE UNCHANGED <<editor, older>>
    BY <2>4
  <2>5. CASE /\ mirror # None /\ mirror.id = p.id /\ p.part = "last"
             /\ mirror.target.reset = editor.reset /\ mirror.target.trev >= editor.trev
             /\ editor' = [reset |-> mirror.target.reset, trev |-> mirror.target.trev,
                         rev |-> mirror.target.rev, text |-> p.text]
             /\ older' \in {older, editor}
    <3> HIDE DEF p
    <3>1. editor'.reset = mirror.target.reset /\ editor'.trev = mirror.target.trev
          /\ editor'.text = p.text
      BY <2>5
    <3>2. editor.trev <= mirror.target.trev
      BY <1>1, <2>2, <2>5
    <3> QED BY <1>7, <2>1, <2>5, <3>1, <3>2 DEF RepairsTo, p
  <2> QED BY <2>3, <2>4, <2>5
<1> QED BY <1>2, <1>3, <1>4, <1>5, <1>6, <1>7, GuestCases

LEMMA GuestVersions ==
  ASSUME Typed, Typed', Turns, LaneSafe, VInv, GuestNext, UNCHANGED host
  PROVE  Clones' /\ Versions'
<1>1. UNCHANGED <<doc, loaded, tree>>
  BY DEF host, document
<1>2. /\ editor.reset \in Nat /\ editor.trev \in Nat /\ older.reset = editor.reset
      /\ older.trev \in Nat /\ doc.reset \in Nat /\ doc.trev \in Nat /\ tree.ref.reset \in Nat
      /\ doc.reset <= editor.reset
  <2>1. older \in Doc
    BY TypedParts DEF GuestTypeOK
  <2>2. /\ editor.reset \in Nat /\ editor.trev \in Nat /\ older.trev \in Nat
        /\ doc.reset \in Nat /\ doc.trev \in Nat /\ tree.ref.reset \in Nat
    BY <2>1, Fields DEF Doc
  <2>3. older.reset = editor.reset /\ tree.ref.reset <= editor.reset
        /\ doc.reset <= tree.ref.reset
    BY DEF LaneSafe, Opened, Turns
  <2> QED BY <2>2, <2>3
<1>3. CASE UNCHANGED <<editor, older>>
  BY <1>1, <1>3 DEF VInv, Clones, Versions, Behind
<1>4. CASE NewEpochOf
  <2>1. editor'.reset # doc.reset /\ older'.reset # doc.reset /\ older' = editor'
    BY <1>2, <1>4 DEF NewEpochOf
  <2>2. editor'.trev \in Nat
    BY DEF Typed, TypeOK, GuestTypeOK, Doc
  <2>3. Clones'
    BY <2>1, <2>2 DEF Clones
  <2> QED BY <1>1, <2>1, <2>3 DEF Versions, Behind
<1>5. CASE editor' = older /\ older' = older
  BY <1>1, <1>2, <1>5 DEF VInv, Clones, Versions, Behind
<1>6. CASE CommitsTo
  <2>1. loaded /\ editor' = doc /\ older' \in {older, editor} /\ doc.reset = editor.reset
        /\ editor.trev <= doc.trev
    BY <1>6 DEF CommitsTo
  <2> QED BY <1>1, <1>2, <2>1 DEF VInv, Clones, Versions, Behind
<1>7. ASSUME NEW p \in Event, RepairsTo(p)
      PROVE  Clones' /\ Versions'
  <2> DEFINE h == mirror
  <2>1. /\ p \in InFlight("Part") /\ p.part = "last"
        /\ mirror # None /\ mirror.id = p.id
        /\ editor.trev <= mirror.target.trev /\ mirror.target.reset = editor.reset
        /\ editor'.reset = mirror.target.reset /\ editor'.trev = mirror.target.trev
        /\ editor'.text = p.text /\ older' \in {older, editor}
    BY <1>7 DEF RepairsTo
  <2>2. mirror \in Holders
    BY <2>1 DEF Holders
  <2>3. /\ Behind(mirror.target.reset, mirror.target.trev, p.text)
        /\ Matches(editor, mirror.target, p.text)
    BY <2>1, <2>2 DEF VInv, Held
  <2>4. mirror.target.trev \in Nat
    BY <2>2, HolderIn
  <2> QED BY <1>1, <1>2, <2>1, <2>3, <2>4 DEF VInv, Clones, Versions, Behind, Matches
<1> QED BY <1>3, <1>4, <1>5, <1>6, <1>7, GuestEditor DEF VInv

LEMMA GuestHeld ==
  ASSUME Typed, Typed', Turns, LaneSafe, VInv, GuestNext, UNCHANGED host
  PROVE  Held'
<1>1. UNCHANGED <<doc, loaded, pending>>
  BY DEF host, document, control
<1>2. editor.reset <= editor'.reset /\ editor.reset \in Nat /\ editor'.reset \in Nat
  BY EditorEpoch, TypedParts DEF GuestTypeOK, Doc, Typed, TypeOK
<1>3. Events' \subseteq Events /\ (AcceptRequest => Head(events) \in InFlight("Request"))
  BY GuestFlight DEF AcceptRequest, Consume, Takes, InFlight
<1>4. ASSUME NEW h \in Holders' PROVE h \in Holders
  <2>1. CASE h \in {[id |-> TransferOf(e.req.id), target |-> e.req.state] : e \in InFlight("Request")'}
    BY <1>3, <2>1 DEF Holders, InFlight
  <2>2. CASE h = mirror' /\ mirror' # None
    <3>1. CASE mirror' = mirror
      BY <2>2, <3>1 DEF Holders
    <3>2. CASE /\ AcceptRequest
               /\ mirror' = [id |-> TransferOf(Head(events).req.id),
                             target |-> Head(events).req.state]
      BY <1>3, <2>2, <3>2 DEF Holders
    <3> QED BY <2>2, <3>1, <3>2, GuestSlots
  <2> QED BY <2>1, <2>2 DEF Holders
<1>5. InFlight("Part")' \subseteq InFlight("Part")
  BY <1>3 DEF InFlight
<1>6. ASSUME NEW h \in Holders', NEW p \in InFlight("Part")', p.part = "last", h.id = p.id
      PROVE  /\ Matches(editor, h.target, p.text)'
             /\ Matches(older, h.target, p.text)'
  <2>1. /\ h.target.reset <= editor.reset
        /\ Behind(h.target.reset, h.target.trev, p.text)
        /\ Matches(editor, h.target, p.text) /\ Matches(older, h.target, p.text)
    BY <1>4, <1>5, <1>6 DEF VInv, Held
  <2>2. h.target.reset \in Nat
    BY <1>4, HolderIn
  <2>3. CASE UNCHANGED <<editor, older>>
    BY <2>1, <2>3 DEF Matches
  <2>4. CASE NewEpochOf
    BY <1>2, <2>1, <2>2, <2>4 DEF Matches, NewEpochOf
  <2>5. CASE editor' = older /\ older' = older
    BY <2>1, <2>5 DEF Matches
  <2>6. CASE CommitsTo
    <3>1. loaded /\ editor' = doc /\ older' \in {older, editor}
      BY <2>6 DEF CommitsTo
    <3> QED BY <2>1, <3>1 DEF Matches, Behind
  <2>7. ASSUME NEW q \in Event, RepairsTo(q) PROVE FALSE
    <3>1. Takes /\ Head(events).type = "Part"
      BY <2>7 DEF RepairsTo, InFlight
    <3> QED BY <1>6, <3>1, GuestOnePart DEF VInv
  <2> QED BY <2>3, <2>4, <2>5, <2>6, <2>7, GuestEditor DEF VInv
<1>7. ASSUME NEW h \in Holders'
      PROVE  /\ h.target.reset <= editor'.reset
             /\ pending' # None /\ h.id = TransferOf(pending'.id) => h.target = pending'.state
  <2>1. h.target.reset <= editor.reset /\ h.target.reset \in Nat
        /\ (pending # None /\ h.id = TransferOf(pending.id) => h.target = pending.state)
    BY <1>4, HolderIn DEF VInv, Held
  <2> QED BY <1>1, <1>2, <2>1
<1>8. ASSUME NEW h \in Holders', NEW p \in InFlight("Part")', p.part = "last", h.id = p.id
      PROVE  Behind(h.target.reset, h.target.trev, p.text)'
  <2>1. Behind(h.target.reset, h.target.trev, p.text)
    BY <1>4, <1>5, <1>8 DEF VInv, Held
  <2> QED BY <1>1, <2>1 DEF Behind
<1> QED BY <1>6, <1>7, <1>8 DEF Held

LEMMA StepVersions == LInv /\ VInv /\ [Next]_vars => VInv'
<1> SUFFICES ASSUME LInv, VInv, [Next]_vars PROVE VInv'
  OBVIOUS
<1>1. /\ Typed /\ Typed' /\ IInv /\ Turns /\ LaneSafe /\ LaneSafe'
  BY StepLane DEF LInv
<1>2. CASE HostNext /\ UNCHANGED guest
  <2>1. Asked'
    BY <1>1, <1>2, HostAsked DEF VInv
  <2>2. Uploads'
    BY <1>1, <1>2, HostUploads DEF VInv, LaneSafe
  <2>3. OnePart'
    BY <1>1, <1>2, HostOnePart DEF VInv
  <2>4. Clones' /\ Versions'
    BY <1>1, <1>2, HostVersions
  <2>5. Held'
    BY <1>1, <1>2, HostHeld
  <2> QED BY <2>1, <2>2, <2>3, <2>4, <2>5 DEF VInv
<1>3. CASE GuestNext /\ UNCHANGED host
  <2>1. Asked'
    BY <1>1, <1>3, GuestAsked DEF VInv
  <2>2. Uploads'
    BY <1>1, <1>3, GuestUploads DEF VInv
  <2>3. OnePart'
    BY <1>1, <1>3, GuestOnePart DEF VInv
  <2>4. Clones' /\ Versions'
    BY <1>1, <1>3, GuestVersions
  <2>5. Held'
    BY <1>1, <1>3, GuestHeld
  <2> QED BY <2>1, <2>2, <2>3, <2>4, <2>5 DEF VInv
<1>4. CASE UNCHANGED vars
  <2>1. UNCHANGED <<turn, events, frame, queue, phase, pending, doc, loaded, serial, notes,
                    incoming, editor, older, gpending, message, sender, mirror>>
    BY <1>4 DEF vars, wire, host, guest, lane, control, document, transfers, program, slots
  <2>2. UNCHANGED <<Events, Notes, Known, Holders>> /\ \A t : InFlight(t)' = InFlight(t)
    BY <2>1 DEF Events, Notes, Members, Known, Holders, InFlight
  <2>3. Asked' /\ Uploads'
    BY <2>1, <2>2 DEF VInv, Asked, Asks, Uploads, Names, Arriving, Message, Ref
  <2>4. OnePart' /\ Clones' /\ Versions' /\ Held'
    BY <2>1, <2>2 DEF VInv, OnePart, Clones, Versions, Held, Behind, Matches
  <2> QED BY <2>3, <2>4 DEF VInv
<1> QED BY <1>2, <1>3, <1>4 DEF Next

LEMMA InitVersions == Init => VInv
<1> SUFFICES ASSUME Init PROVE VInv
  OBVIOUS
<1>1. /\ turn = "host" /\ events = <<>> /\ notes = <<>> /\ loaded = FALSE
      /\ older = editor /\ gpending = {} /\ message = None /\ sender = None /\ mirror = None
      /\ editor = [reset |-> 0, trev |-> 0, rev |-> 0, text |-> <<0, 0>>]
  BY DEF Init, WireInit, HostInit, GuestInit
<1>2. Events = {} /\ Notes = {} /\ \A t : InFlight(t) = {}
  BY <1>1, MembersNone, EventsMembers DEF Notes, InFlight
<1>3. Known = {} /\ Holders = {}
  BY <1>1, <1>2 DEF Known, Holders
<1>4. Asked /\ Uploads
  BY <1>1, <1>2, <1>3 DEF Asked, Uploads, Arriving
<1>5. OnePart /\ Clones /\ Versions /\ Held
  BY <1>1, <1>2, <1>3 DEF OnePart, Clones, Versions, Held, Behind
<1> QED BY <1>4, <1>5 DEF VInv

\* One version of the text is one text: whatever older clone the program
\* stores back, and whatever a repair or a transfer brings from the other
\* side, the host and the guest mean the same by it.
THEOREM VersionsAgreeCorrect == Spec => []VersionsAgree
<1>1. VInv => VersionsAgree
  BY DEF VInv, Versions, Behind, VersionsAgree
<1> QED BY <1>1, InitVersions, StepVersions, LaneInvariance, PTL DEF Spec

-----------------------------------------------------------------------------
(***************************************************************************)
(* The Editor and the canonical document, in a program that never stores   *)
(* an older clone back.                                                    *)
(***************************************************************************)
\* The decisions the guest answers for, or will be asked.
Claims == gpending \cup {e.req.id : e \in InFlight("Request")}

\* No repair is ever asked for.
Unrepaired ==
  /\ mirror = None /\ outgoing = None
  /\ message # None => message.type # "Ask"
  /\ Message # None => Message.type # "Ask"
\* A request of the Editor's epoch finds the Editor as it was asked about.
Current ==
  \A e \in InFlight("Request") : e.req.state.reset = editor.reset => e.req.state = Ref(editor)
\* The Editor is the loaded document of its epoch, or the document before the
\* commit that is under way.
Following ==
  loaded /\ editor.reset = doc.reset =>
    /\ InFlight("Commit") = {} => editor = doc
    /\ \A c \in InFlight("Commit") : c.before = Ref(editor)
\* Nothing of the input that is being committed waits under another name.
Claimed ==
  /\ pending # None => \A p \in Claims : p.seq = pending.id.seq => p = pending.id
  /\ pending = None => \A c \in InFlight("Commit"), p \in Claims : p.seq # c.id.seq
Together == Unrepaired /\ Current /\ Following /\ Claimed
InStep == NeverRolledBack => Together

LEMMA Rolls ==
  ASSUME Typed, Typed', GuestNext, NeverRolledBack'
  PROVE  NeverRolledBack /\ ~Rollback
<1>1. budget.rollbacks \in 0..Rollbacks /\ budget'.rollbacks \in 0..Rollbacks
      /\ budget \in [flips: 0..ReadOnlyFlips, rollbacks: 0..Rollbacks, remounts: 0..Remounts]
  BY DEF Typed, TypeOK, GuestTypeOK
<1>2. CASE UNCHANGED program
  <2>1. ~Rollback
    <3> SUFFICES ASSUME Rollback PROVE FALSE
      OBVIOUS
    <3>1. budget' = budget /\ budget'.rollbacks = budget.rollbacks - 1
      BY <1>1, <1>2 DEF Rollback, program
    <3> QED BY <1>1, <3>1, GuestAssumption
  <2> QED BY <1>2, <2>1 DEF program, NeverRolledBack
<1>3. CASE Rollback
  <2>1. budget'.rollbacks = budget.rollbacks - 1
    BY <1>1, <1>3 DEF Rollback
  <2> QED BY <1>1, <2>1, GuestAssumption DEF NeverRolledBack
<1>4. CASE Remount \/ FlipEditable
  <2>1. budget'.rollbacks = budget.rollbacks
    BY <1>1, <1>4 DEF Remount, FlipEditable
  <2>2. ~Rollback
    BY <1>3, <2>1, <1>1, GuestAssumption DEF NeverRolledBack, Rollback
  <2> QED BY <2>1, <2>2 DEF NeverRolledBack
<1>5. CASE Replace \/ MoveTo \/ View
  BY <1>2, <1>5 DEF Replace, MoveTo, View
<1> QED BY <1>2, <1>3, <1>4, <1>5, GuestCases DEF Takes

\* Of the input it is about to ask about, or to commit on its own, the lane
\* is the first to know.
LEMMA NewInput ==
  ASSUME LaneSafe, VInv, NEW p \in Claims
  PROVE  /\ Requests(Head(queue)) => p.seq # Head(queue).seq
         /\ queue # <<>> /\ phase.at \in Moving /\ pending = None => p.seq # Head(queue).seq
<1> DEFINE t == TransferOf(p)
<1>1. t \in Known /\ t.serial = p.seq
  BY DEF Claims, Known, TransferOf
<1> HIDE DEF t
<1>2. Asks(t.serial, t.attempt)
  BY <1>1 DEF VInv, Asked
<1>3. queue # <<>> /\ phase.at \in Moving /\ pending = None => p.seq # Head(queue).seq
  BY <1>1, <1>2 DEF Asks
<1>4. ASSUME Requests(Head(queue)), p.seq = Head(queue).seq PROVE FALSE
  <2>1. /\ queue # <<>> /\ phase.at = "Ready"
        /\ (Head(queue).kind = "key" /\ ~bypass) \/ Head(queue).kind = "click"
    BY <1>4 DEF Requests, Ready
  <2> QED BY <1>1, <1>2, <1>4, <2>1 DEF Asks, LaneSafe, Posed, Moving
<1> QED BY <1>3, <1>4

LEMMA NoRetries ==
  ASSUME LaneSafe, Unrepaired PROVE ~Retries
<1> SUFFICES ASSUME Retries PROVE FALSE
  OBVIOUS
<1>1. /\ phase.at = "Decision" /\ pending # None
      /\ doc.rev # pending.id.rev \/ doc.trev # pending.id.trev
  BY DEF Retries, Unrepaired
<1>2. RefOf(pending.id) = Ref(doc)
  BY <1>1 DEF LaneSafe, Posed, Asking
<1> QED BY <1>1, <1>2 DEF RefOf, Ref

LEMMA HostUnrepaired ==
  ASSUME Typed, Typed', Turns, IInv, LaneSafe, Unrepaired, HostNext, UNCHANGED guest
  PROVE  Unrepaired'
<1>1. mirror' = mirror /\ message' = message
  BY DEF guest, slots
<1>2. Message' = Message
  BY HostTransfers DEF Message, LaneSafe
<1>3. outgoing' = None
  <2>1. CASE Documents
    BY <2>1 DEF Unrepaired, Documents, Ignore, Abandon, Install, MirrorFailed, MirrorInstalled,
      transfers
  <2>2. CASE Progress
    BY <2>2 DEF Unrepaired, Progress, MirrorLeft
  <2>3. CASE Adopt
    BY <2>3 DEF Unrepaired, Adopt
  <2>4. CASE BeginTick \/ Answer \/ EndTick
    BY <2>4 DEF Unrepaired, BeginTick, host, Answer, EndTick, transfers
  <2>5. CASE Widget
    BY <2>5 DEF Unrepaired, Widget, transfers
  <2> QED BY <2>1, <2>2, <2>3, <2>4, <2>5 DEF HostNext, Admit, Replay, Deadline
<1> QED BY <1>1, <1>2, <1>3 DEF Unrepaired

\* The commits under way.
LEMMA HostCommits ==
  ASSUME Typed, Typed', Turns, IInv, LaneSafe, HostNext
  PROVE  /\ InFlight("Commit") \subseteq InFlight("Commit")'
         /\ \A c \in InFlight("Commit")' :
              \/ c \in InFlight("Commit")
              \/ \E r \in Results : Commits(r) /\ c = CommitEvent(r)
<1>1. \A e \in Notes : e.type # "Commit"
  BY NotesTypes
<1> QED BY <1>1, EventTypes, HostFlight DEF LaneSafe, InFlight

LEMMA CommitsFlight ==
  ASSUME Typed, Typed', LaneSafe, NEW r \in Results, Commits(r)
  PROVE  /\ InFlight("Commit") = {} /\ InFlight("Commit")' = {CommitEvent(r)}
         /\ edRev' # edRev /\ pending' = pending /\ queue # <<>> /\ phase.at \in Moving
         /\ CommitEvent(r).before = Ref(doc)
         /\ pending = None => CommitEvent(r).id.seq = Head(queue).seq
<1>1. /\ queue # <<>> /\ phase.at \in Moving /\ events' = Append(events, CommitEvent(r))
      /\ edRev' = edRev + 1 /\ pending' = pending /\ edRev \in Nat /\ events \in Seq(Event)
  BY Fields DEF Commits
<1>2. InFlight("Commit") = {}
  BY <1>1, NoneFlying DEF LaneSafe, Moving, Stopped
<1>3. CommitEvent(r) \in Event
  BY <1>1, CommitIsEvent, TypedParts
<1>4. InFlight("Commit")' = {CommitEvent(r)}
  <2> DEFINE e == CommitEvent(r)
  <2>1. e \in Event /\ events' = Append(events, e) /\ e.type = "Commit"
    BY <1>1, <1>3, EventTypes
  <2> HIDE DEF e
  <2>2. Events' = Events \cup {e}
    BY <1>1, <2>1, MembersAppend, EventsMembers
  <2> QED BY <1>2, <2>1, <2>2 DEF InFlight, e
<1>5. CommitEvent(r).before = Ref(doc)
  BY DEF CommitEvent
<1>6. pending = None => CommitEvent(r).id.seq = Head(queue).seq
  BY DEF CommitEvent, Txn
<1> QED BY <1>1, <1>2, <1>4, <1>5, <1>6

\* The lane gives a request up only where no commit is under way.
LEMMA Released ==
  ASSUME Typed, Typed', Turns, IInv, LaneSafe, HostNext, pending # None, pending' = None
  PROVE  InFlight("Commit")' = {} /\ (Adopt \/ Progress)
<1>1. queue # <<>> => available
  BY DEF IInv, Epochs
<1>2. CASE Adopt
  <2>1. events' = <<>>
    BY <1>2, AdoptCases DEF LaneSafe
  <2> QED BY <1>2, <2>1 DEF InFlight, Events
<1>3. CASE Progress
  <2>1. Adds(Sent) /\ InFlight("Commit") = {}
    BY <1>3, ProgressCases
  <2>2. InFlight("Commit")' = {}
    BY <2>1, Fields, FieldsNext, AddsInFlight DEF Sent
  <2> QED BY <1>3, <2>2
<1>4. CASE Installs
  BY <1>4 DEF Installs, Install, control
<1>5. CASE Requests(Head(queue)) \/ Retries
  BY <1>5, SomeRequest
<1> QED BY <1>1, <1>2, <1>3, <1>4, <1>5, TypedParts, HostCases
      DEF Stays, LaneKept, Drops, Defaults, Gestures, Enters, Commits

LEMMA HostTogether ==
  ASSUME Typed, Typed', Turns, IInv, LaneSafe, VInv, Together, HostNext, UNCHANGED guest
  PROVE  Together'
<1>1. UNCHANGED <<editor, gpending>> /\ Ref(editor)' = Ref(editor)
  BY DEF guest, slots, Ref
<1>2. Unrepaired' /\ ~Retries
  BY HostUnrepaired, NoRetries DEF Together
<1>3. ASSUME NEW e \in InFlight("Request")'
      PROVE  \/ e \in InFlight("Request")
             \/ /\ Requests(Head(queue)) /\ pending' # None /\ e.req = pending'
  BY <1>2, HostHolders
<1>4. ASSUME Requests(Head(queue))
      PROVE  /\ pending'.state = Ref(doc) /\ pending'.id.seq = Head(queue).seq
             /\ loaded /\ InFlight("Commit") = {}
  <2> DEFINE req == [id |-> Txn(Head(queue).seq, 1, Ref(doc)), kind |-> Head(queue).kind,
                     state |-> Ref(doc)]
  <2>1. pending' = req /\ phase.at = "Ready" /\ available
    BY <1>4 DEF Requests, Requested, Ready
  <2>2. req.state = Ref(doc) /\ req.id.seq = Head(queue).seq
    BY DEF Txn
  <2>3. loaded /\ InFlight("Commit") = {}
    BY <2>1, NoneFlying DEF LaneSafe, Opened, Stopped
  <2> HIDE DEF req
  <2> QED BY <2>1, <2>2, <2>3
<1>5. Current'
  <2> SUFFICES ASSUME NEW e \in InFlight("Request")', e.req.state.reset = editor.reset
               PROVE  e.req.state = Ref(editor)
    BY <1>1 DEF Current
  <2>1. CASE e \in InFlight("Request")
    BY <2>1 DEF Together, Current
  <2>2. CASE Requests(Head(queue)) /\ e.req = pending'
    <3>1. Ref(doc).reset = doc.reset
      BY DEF Ref
    <3>2. editor = doc
      BY <1>4, <2>2, <3>1 DEF Together, Following
    <3> QED BY <1>4, <2>2, <3>2
  <2> QED BY <1>3, <2>1, <2>2
<1>6. Following'
  <2>1. ASSUME NEW r \in Results, Commits(r) PROVE Following'
    <3>1. /\ InFlight("Commit") = {} /\ InFlight("Commit")' = {CommitEvent(r)}
          /\ CommitEvent(r).before = Ref(doc) /\ loaded /\ doc'.reset = doc.reset
      BY <2>1, CommitsFlight, CommitDoc
    <3>2. editor.reset = doc.reset => editor = doc
      BY <3>1 DEF Together, Following
    <3> QED BY <1>1, <3>1, <3>2 DEF Following
  <2>2. CASE ~\E r \in Results : Commits(r)
    <3>1. InFlight("Commit")' = InFlight("Commit")
      BY <2>2, HostCommits
    <3>2. CASE UNCHANGED <<doc, loaded>>
      BY <1>1, <3>1, <3>2 DEF Together, Following
    <3>3. CASE Installs /\ doc' = editor
      <4>1. InFlight("Commit") = {}
        BY <3>3 DEF Installs, Turns, InFlight, Events
      <4> QED BY <1>1, <3>1, <3>3, <4>1 DEF Following
    <3>4. CASE ~loaded'
      BY <3>4 DEF Following
    <3> QED BY <2>2, <3>2, <3>3, <3>4, HostDoc DEF VInv
  <2> QED BY <2>1, <2>2
<1>7. Claimed'
  <2>1. ASSUME NEW p \in Claims'
        PROVE  p \in Claims \/ (Requests(Head(queue)) /\ pending' # None /\ p = pending'.id)
    BY <1>1, <1>3 DEF Claims
  <2>2. ASSUME pending' # None, NEW p \in Claims', p.seq = pending'.id.seq
        PROVE  p = pending'.id
    <3>1. CASE Requests(Head(queue))
      BY <1>4, <2>1, <2>2, <3>1, NewInput
    <3>2. CASE pending' = pending
      BY <2>1, <2>2, <3>2 DEF Together, Claimed
    <3> QED BY <1>2, <2>2, <3>1, <3>2, HostPending
  <2>3. ASSUME pending' = None, NEW c \in InFlight("Commit")', NEW p \in Claims'
        PROVE  p.seq # c.id.seq
    <3>1. p \in Claims
      BY <2>1, <2>3
    <3>2. pending = None
      BY <2>3, Released
    <3>3. CASE c \in InFlight("Commit")
      BY <3>1, <3>2, <3>3 DEF Together, Claimed
    <3>4. ASSUME NEW r \in Results, Commits(r), c = CommitEvent(r) PROVE p.seq # c.id.seq
      BY <3>1, <3>2, <3>4, CommitsFlight, NewInput
    <3> QED BY <2>3, <3>3, <3>4, HostCommits
  <2> QED BY <2>2, <2>3 DEF Claimed
<1> QED BY <1>2, <1>5, <1>6, <1>7 DEF Together

-----------------------------------------------------------------------------
\* A commit finds the Editor as it was made for it.
LEMMA CommitFits ==
  ASSUME Typed, Turns, LaneSafe, Together, AcceptCommit, loaded, doc.reset = editor.reset
  PROVE  Fits(Head(events))
<1> DEFINE c == Head(events)
<1>1. c \in InFlight("Commit")
  BY Fields, SeqParts DEF AcceptCommit, Consume, InFlight, Events
<1>2. /\ c.after = doc /\ c.before = RefOf(c.id) /\ c.before.rev < doc.rev
      /\ pending # None => c.id = pending.id
  BY <1>1 DEF LaneSafe, Flying
<1>3. c.before = Ref(editor)
  BY <1>1 DEF Together, Following
<1>4. EditorMatchesPending(c.id)
  BY <1>1, <1>2 DEF Together, Claimed, Claims, EditorMatchesPending
<1>5. c.after.rev > editor.rev
  <2>1. c.before.rev = editor.rev
    BY <1>3 DEF Ref
  <2>2. doc.rev \in Nat /\ editor.rev \in Nat
    BY Fields
  <2> HIDE DEF c
  <2> QED BY <1>2, <2>1, <2>2
<1>6. c.before = [reset |-> c.id.reset, trev |-> c.id.trev, rev |-> c.id.rev]
  BY <1>2 DEF RefOf
<1> QED BY <1>3, <1>4, <1>5, <1>6 DEF Fits

\* No other event is under way with it.
LEMMA LastCommit ==
  ASSUME Typed, LaneSafe, Takes, Head(events).type = "Commit"
  PROVE  InFlight("Commit")' = {} /\ InFlight("Request")' = {}
         /\ InFlight("Commit") = {Head(events)}
<1>1. events \in Seq(Event) /\ events # <<>> /\ events' = Tail(events)
  BY Fields DEF Takes
<1>2. /\ Head(events) = events[1] /\ 1 \in DOMAIN events /\ Head(events) \in Events
      /\ \A i \in DOMAIN events' : i + 1 \in DOMAIN events /\ events'[i] = events[i + 1]
      /\ Events \subseteq Events' \cup {Head(events)}
  BY <1>1, TakesOne
<1>3. events' \in Seq(Event)
  BY <1>1, SeqTail
<1>4. DOMAIN events' \subseteq Nat /\ 0 \notin DOMAIN events'
  BY <1>3, SeqParts
<1>5. ASSUME NEW i \in DOMAIN events', events'[i].type \in {"Commit", "Request"} PROVE FALSE
  <2>1. i + 1 <= 1
    BY <1>2, <1>5 DEF LaneSafe, CommitLast
  <2> QED BY <1>4, <2>1
<1>6. InFlight("Commit")' = {} /\ InFlight("Request")' = {}
  BY <1>5 DEF InFlight, Events
<1> QED BY <1>2, <1>6 DEF InFlight

\* A guest that was never asked for a repair asks for none.
LEMMA GuestUnrepaired ==
  ASSUME Typed, Typed', Unrepaired, Current, GuestNext, UNCHANGED host
  PROVE  Unrepaired'
<1>1. outgoing' = None
  BY DEF host, transfers, Unrepaired
<1>2. AcceptRequest => Head(events) \in InFlight("Request")
  BY GuestFlight DEF AcceptRequest, Consume, Takes, InFlight
<1>3. mirror' = None
  BY <1>2, GuestSlots DEF Unrepaired, Current
<1>4. \A id : Failed(id).type # "Ask" /\ Acknowledged(id).type # "Ask"
  BY DEF Failed, Acknowledged
<1>5. \A m : Say(m) => message' = message \/ message' = m
  BY DEF Say
<1>6. message' # None => message'.type # "Ask"
  <2>1. CASE UNCHANGED message \/ message' = None
    BY <2>1 DEF Unrepaired
  <2>2. CASE AcceptRequest
    <3>1. ~(/\ Ref(editor) # Head(events).req.state
            /\ Head(events).req.state.reset = editor.reset)
      BY <1>2, <2>2 DEF Current
    <3>2. UNCHANGED message
      BY <2>2, <3>1 DEF AcceptRequest
    <3> QED BY <2>1, <3>2
  <2>3. CASE StartTransfer
    BY <1>4, <1>5, <2>1, <2>3 DEF StartTransfer
  <2>4. CASE ReceiveMirror
    BY <1>4, <1>5, <2>1, <2>4 DEF ReceiveMirror
  <2>5. CASE AcceptCommit \/ AcceptInteraction \/ AcceptFault \/ AcceptCancelled \/ EndTransfer
    BY <2>1, <2>5 DEF AcceptCommit, AcceptInteraction, AcceptFault, AcceptCancelled, EndTransfer
  <2>6. CASE View
    BY <2>1, <2>6 DEF View
  <2>7. CASE UNCHANGED slots
    BY <2>1, <2>7 DEF slots
  <2> QED BY <2>2, <2>3, <2>4, <2>5, <2>6, <2>7, GuestCases
<1>7. Message' # None => Message'.type # "Ask"
  <2>1. CASE View
    <3>1. PICK a, b, d : frame' = [tree |-> a, answers |-> b,
                    message |-> IF Sending THEN NextPart ELSE message, busy |-> d]
      BY <2>1 DEF View
    <3>2. NextPart.type = "Part"
      BY DEF NextPart, Part
    <3> QED BY <3>1, <3>2 DEF Message, Unrepaired
  <2>2. CASE ~View
    <3>1. UNCHANGED frame
      BY <2>2, GuestCases, GuestFlight DEF wire, Takes
    <3> QED BY <3>1 DEF Message, Unrepaired
  <2> QED BY <2>1, <2>2
<1> QED BY <1>1, <1>3, <1>6, <1>7 DEF Unrepaired

\* An event is taken by the handler of its type.
LEMMA TakesType ==
  ASSUME Typed, GuestNext, Takes
  PROVE  /\ Head(events).type = "Commit" => AcceptCommit
         /\ Head(events).type = "Interaction" => AcceptInteraction
         /\ Head(events).type = "Cancelled" => AcceptCancelled
<1>1. events # <<>> /\ events' # events
  <2>1. events \in Seq(Event) /\ events # <<>> /\ events' = Tail(events)
    BY Fields DEF Takes
  <2>2. Len(events') = Len(events) - 1 /\ Len(events) \in Nat
    BY <2>1, SeqTail, SeqParts
  <2> DEFINE n == Len(events)
             m == Len(events')
  <2>3. events' = events => m = n
    OBVIOUS
  <2>4. m = n - 1 /\ n \in Nat
    BY <2>2
  <2> HIDE DEF n, m
  <2> QED BY <2>1, <2>3, <2>4
<1>2. ~UNCHANGED wire /\ ~View
  BY <1>1 DEF wire, View
<1>3. AcceptCommit \/ AcceptInteraction \/ AcceptCancelled \/ ReceiveMirror \/ AcceptRequest
      \/ AcceptFault \/ StartTransfer \/ EndTransfer
  BY <1>2, GuestCases
<1> QED BY <1>3 DEF AcceptCommit, ReceiveMirror, AcceptRequest, AcceptInteraction, AcceptFault,
    AcceptCancelled, StartTransfer, EndTransfer, Consume

LEMMA GuestTogether ==
  ASSUME Typed, Typed', Turns, LaneSafe, VInv, Together, GuestNext, ~Rollback, UNCHANGED host
  PROVE  Together'
<1>1. UNCHANGED <<doc, loaded, pending, tree>>
  BY DEF host, document, control
<1>2. Events' \subseteq Events /\ (AcceptRequest => Head(events) \in InFlight("Request"))
  BY GuestFlight DEF AcceptRequest, Consume, Takes, InFlight
<1>3. InFlight("Request")' \subseteq InFlight("Request")
      /\ InFlight("Commit")' \subseteq InFlight("Commit")
  BY <1>2 DEF InFlight
<1>4. Unrepaired'
  BY GuestUnrepaired DEF Together
<1>5. \A p \in Event : ~RepairsTo(p)
  BY DEF RepairsTo, Together, Unrepaired
<1>6. /\ editor.reset \in Nat /\ doc.reset \in Nat /\ tree.ref.reset \in Nat
      /\ tree.ref.reset <= editor.reset /\ doc.reset <= tree.ref.reset
  BY Fields DEF LaneSafe, Opened, Turns
<1>7. Current'
  <2> SUFFICES ASSUME NEW e \in InFlight("Request")', e.req.state.reset = editor'.reset
               PROVE  e.req.state = Ref(editor)'
    BY DEF Current
  <2>1. e \in InFlight("Request")
    BY <1>3
  <2>2. CASE UNCHANGED editor
    BY <2>1, <2>2 DEF Together, Current, Ref
  <2>3. CASE NewEpochOf
    <3> DEFINE h == [id |-> TransferOf(e.req.id), target |-> e.req.state]
    <3>1. h \in Holders /\ h.target = e.req.state
      BY <2>1 DEF Holders
    <3>2. h.target.reset <= editor.reset /\ h.target.reset \in Nat
      BY <3>1, HolderIn DEF VInv, Held
    <3>3. editor'.reset = editor.reset + 1
      BY <2>3 DEF NewEpochOf
    <3> HIDE DEF h
    <3> QED BY <1>6, <3>1, <3>2, <3>3
  <2>4. CASE CommitsTo
    <3>1. Takes /\ Head(events).type = "Commit"
      BY <2>4 DEF CommitsTo, InFlight
    <3> QED BY <3>1, LastCommit
  <2> QED BY <1>5, <2>2, <2>3, <2>4, GuestEditor DEF VInv
<1>8. Following'
  <2> SUFFICES ASSUME loaded, editor'.reset = doc.reset
               PROVE  /\ InFlight("Commit")' = {} => editor' = doc
                      /\ \A c \in InFlight("Commit")' : c.before = Ref(editor)'
    BY <1>1 DEF Following
  <2>1. CASE UNCHANGED editor
    <3>1. /\ InFlight("Commit") = {} => editor = doc
          /\ \A c \in InFlight("Commit") : c.before = Ref(editor)
      BY <2>1 DEF Together, Following
    <3>2. Ref(editor)' = Ref(editor)
      BY <2>1 DEF Ref
    <3>3. ASSUME InFlight("Commit") # {}, InFlight("Commit")' = {} PROVE FALSE
      <4>1. PICK c \in InFlight("Commit") : TRUE
        BY <3>3
      <4>2. Takes /\ c = Head(events)
        BY <3>3, <4>1, GuestFlight DEF InFlight, Events, wire
      <4>3. AcceptCommit
        <5>1. c.type = "Commit"
          BY <4>1 DEF InFlight
        <5> QED BY <4>2, <5>1, TakesType
      <4>4. Fits(Head(events)) /\ c.after.rev > editor.rev
        BY <2>1, <4>2, <4>3, CommitFits DEF Fits
      <4>5. c.after = doc
        BY <4>1 DEF LaneSafe, Flying
      <4>6. editor' = [c.after EXCEPT !.text =
                          IF c.after.trev = c.before.trev THEN editor.text ELSE @]
        BY <4>2, <4>3, <4>4 DEF AcceptCommit
      <4>7. editor'.rev = doc.rev /\ doc.rev \in Nat /\ editor.rev \in Nat
        BY <4>5, <4>6, Fields DEF Doc
      <4> QED BY <2>1, <4>4, <4>5, <4>7
    <3> QED BY <1>3, <2>1, <3>1, <3>2, <3>3
  <2>2. CASE NewEpochOf
    BY <1>6, <2>2 DEF NewEpochOf
  <2>3. CASE CommitsTo
    <3>1. Takes /\ Head(events).type = "Commit" /\ editor' = doc
      BY <2>3 DEF CommitsTo, InFlight
    <3> QED BY <3>1, LastCommit
  <2> QED BY <1>5, <2>1, <2>2, <2>3, GuestEditor DEF VInv
<1>9. Claimed'
  <2>1. Claims' \subseteq Claims
    <3>1. gpending' \subseteq Claims
      BY <1>2, GuestSlots DEF Claims, Replacing
    <3> QED BY <1>3, <3>1 DEF Claims
  <2> QED BY <1>1, <1>3, <2>1 DEF Together, Claimed
<1> QED BY <1>4, <1>7, <1>8, <1>9 DEF Together

LEMMA StepInStep == LInv /\ VInv /\ InStep /\ [Next]_vars => InStep'
<1> SUFFICES ASSUME LInv, VInv, InStep, [Next]_vars, NeverRolledBack' PROVE Together'
  BY DEF InStep
<1>1. /\ Typed /\ Typed' /\ IInv /\ Turns /\ LaneSafe
  BY StepTyped DEF LInv
<1>2. CASE HostNext /\ UNCHANGED guest
  <2>1. NeverRolledBack
    BY <1>2 DEF guest, program, NeverRolledBack
  <2> QED BY <1>1, <1>2, <2>1, HostTogether DEF InStep
<1>3. CASE GuestNext /\ UNCHANGED host
  BY <1>1, <1>3, Rolls, GuestTogether DEF InStep
<1>4. CASE UNCHANGED vars
  <2>1. UNCHANGED <<events, frame, pending, doc, loaded, outgoing, editor, gpending, message,
                    mirror, budget>>
    BY <1>4 DEF vars, wire, host, guest, control, document, transfers, program, slots
  <2>2. UNCHANGED <<Events, Message>> /\ \A t : InFlight(t)' = InFlight(t)
    BY <2>1 DEF Events, InFlight, Message
  <2>3. NeverRolledBack
    BY <2>1 DEF NeverRolledBack
  <2> QED BY <2>1, <2>2, <2>3 DEF InStep, Together, Unrepaired, Current, Following, Claimed,
        Claims, Ref
<1> QED BY <1>2, <1>3, <1>4 DEF Next

LEMMA InitInStep == Init => InStep
<1> SUFFICES ASSUME Init PROVE Together
  BY DEF InStep
<1>1. /\ events = <<>> /\ loaded = FALSE /\ gpending = {} /\ message = None /\ mirror = None
      /\ outgoing = None /\ frame.message = None /\ pending = None
  BY DEF Init, WireInit, HostInit, GuestInit, NoFrame
<1>2. Events = {} /\ \A t : InFlight(t) = {}
  BY <1>1, MembersNone, EventsMembers DEF InFlight
<1> QED BY <1>1, <1>2 DEF Together, Unrepaired, Current, Following, Claimed, Claims, Message

\* In every step, the host is never behind the guest in its epoch, and what a
\* repair or a transfer under way would install is the version it names.
THEOREM VersionInvariance == Spec => []VInv
BY InitVersions, StepVersions, LaneInvariance, PTL DEF Spec

\* In every step of a program that stores no older clone back, the Editor is
\* the canonical document or the document before the commit under way.
THEOREM StepInvariance == Spec => []InStep
BY InitInStep, StepInStep, LaneInvariance, VersionInvariance, PTL DEF Spec

\* Between ticks the Editor is the canonical document, or the one commit that
\* is queued leads from the one to the other.
THEOREM MirrorInStepCorrect == Spec => []MirrorInStep
<1>1. LInv /\ InStep => MirrorInStep
  <2> SUFFICES ASSUME LInv, Together, AtRest, available
               PROVE  IF InFlight("Commit") = {} THEN editor = doc
                      ELSE \E c \in InFlight("Commit") :
                             /\ InFlight("Commit") = {c}
                             /\ c.before = Ref(editor) /\ c.after = doc
    BY DEF MirrorInStep, InStep
  <2>1. loaded /\ editor.reset = doc.reset
    <3>1. tree.ref = Ref(editor) /\ loaded /\ doc.reset = tree.ref.reset
      BY DEF LInv, LaneSafe, Turns, Opened, AtRest
    <3> QED BY <3>1 DEF Ref
  <2>2. /\ InFlight("Commit") = {} => editor = doc
        /\ \A c \in InFlight("Commit") : c.before = Ref(editor) /\ c.after = doc
    BY <2>1 DEF Together, Following, LInv, LaneSafe, Flying
  <2>3. \A c, d \in InFlight("Commit") : c = d
    <3> SUFFICES ASSUME NEW c \in InFlight("Commit"), NEW d \in InFlight("Commit")
                 PROVE  c = d
      OBVIOUS
    <3>1. PICK i \in DOMAIN events : c = events[i]
      BY DEF InFlight, Events
    <3>2. PICK j \in DOMAIN events : d = events[j]
      BY DEF InFlight, Events
    <3>3. c.type = "Commit" /\ d.type = "Commit"
      BY DEF InFlight
    <3>4. i <= j /\ j <= i
      BY <3>1, <3>2, <3>3 DEF LInv, LaneSafe, CommitLast
    <3>5. i \in Nat /\ j \in Nat
      BY Fields, SeqParts DEF LInv
    <3> QED BY <3>1, <3>2, <3>4, <3>5
  <2> QED BY <2>2, <2>3
<1> QED BY <1>1, LaneInvariance, StepInvariance, PTL

-----------------------------------------------------------------------------
(***************************************************************************)
(* The decisions that keep the guest from being snapshotted.               *)
(***************************************************************************)
\* The guest answers once for each input.
Distinct == \A p, q \in gpending : p.seq = q.seq => p = q
\* A request on its way is the one the lane waits on.
Posing ==
  /\ turn \notin {"host", "guest"} => InFlight("Request") = {}
  /\ \A e \in InFlight("Request") :
       pending # None /\ e.req.id = pending.id /\ committed = None /\ phase.at # "Ready"
\* So is a gesture, and it is about the document as it stands.
Gesturing ==
  \A e \in InFlight("Interaction") :
    /\ pending # None /\ e.id = pending.id /\ e.state = Ref(doc)
    /\ phase.at \in Stopped /\ turn # "mirror" /\ InFlight("Commit") = {}
\* What is decided is on its way to the guest, or the guest has had it.
Reports == {e.id : e \in InFlight("Commit") \cup InFlight("Interaction")}
Reporting ==
  pending # None /\ committed # None /\ editor.reset = doc.reset =>
    \/ pending.id \in Reports
    \/ \A p \in gpending : p.seq # pending.id.seq
\* Each decision is waited for, or its cancellation is on its way.
Cancelling == {e.id : e \in {n \in Events \cup Notes : n.type = "Cancelled"}}
Owned == \A p \in gpending : (pending # None /\ pending.id.seq = p.seq) \/ p \in Cancelling
Barring == Posing /\ Gesturing /\ Reporting /\ Owned
Barred == Distinct /\ (NeverFlipped /\ NeverRolledBack => Barring)

LEMMA HostReports ==
  ASSUME Typed, Typed', Turns, IInv, LaneSafe, HostNext
  PROVE  /\ \A e \in InFlight("Interaction")' :
              \/ e \in InFlight("Interaction")
              \/ /\ Gestures
                 /\ e = [type |-> "Interaction", id |-> pending.id, state |-> pending.state]
         /\ Reports \subseteq Reports'
         /\ \A e \in Events : e.type = "Cancelled" => e \in Events'
         /\ Adopt \/ Cancelling \subseteq Cancelling'
<1>1. Events \subseteq Events'
  BY HostFlight DEF LaneSafe
<1>2. ASSUME NEW e \in InFlight("Interaction")'
      PROVE  \/ e \in InFlight("Interaction")
             \/ /\ Gestures
                /\ e = [type |-> "Interaction", id |-> pending.id, state |-> pending.state]
  <2>1. e \in Events' /\ e.type = "Interaction"
    BY DEF InFlight
  <2>2. \A n \in Notes : n.type # "Interaction"
    BY NotesTypes
  <2> QED BY <2>1, <2>2, EventTypes, HostFlight DEF LaneSafe, InFlight
<1>3. Reports \subseteq Reports'
  BY <1>1 DEF Reports, InFlight
<1>4. CASE ~Adopt
  <2>1. CASE Progress
    <3>1. Notes \subseteq Events'
      BY <2>1, ProgressEvents
    <3> QED BY <1>1, <1>2, <1>3, <3>1 DEF Cancelling
  <2>2. CASE ~Progress
    <3>1. notes' = notes
      BY <1>4, <2>2, TurnCases DEF Documents
    <3>2. Notes' = Notes
      BY <3>1 DEF Notes
    <3> QED BY <1>1, <1>2, <1>3, <3>2 DEF Cancelling
  <2> QED BY <2>1, <2>2
<1> QED BY <1>1, <1>2, <1>3, <1>4

\* Whose turn comes after whose.
LEMMA TurnOrder ==
  ASSUME HostNext
  PROVE  /\ turn # "guest"
         /\ turn' \notin {"host", "guest"} => turn # "host"
         /\ turn' = "mirror" => turn = "documents"
BY TurnCases DEF Adopt, Documents, Progress

LEMMA HostPosing ==
  ASSUME Typed, Typed', Turns, IInv, LaneSafe, Front, NeverFlipped, Together, Posing, HostNext,
         UNCHANGED guest
  PROVE  Posing'
<1>1. ASSUME NEW e \in InFlight("Request")'
      PROVE  /\ pending' # None /\ e.req.id = pending'.id /\ committed' = None
             /\ phase'.at # "Ready" /\ turn = "host"
  <2>1. CASE e \in InFlight("Request")
    <3>1. pending # None /\ e.req.id = pending.id /\ committed = None /\ phase.at # "Ready"
          /\ turn = "host"
      BY <2>1, TurnOrder DEF Posing
    <3>2. phase # Ready
      BY <3>1 DEF Ready
    <3>3. ~Adopt /\ ~Progress /\ ~Installs /\ ~Defaults /\ ~Gestures
      BY <3>1 DEF Adopt, Progress, Installs, Defaults, Gestures
    <3>4. ~Drops /\ ~Requests(Head(queue)) /\ (\A r \in Results : ~Commits(r)) /\ ~Retries
      BY <3>1, <3>2, NoRetries DEF Drops, Requests, Commits, Together
    <3>5. Stays \/ \E in \in Input : Enters(in)
      <4>1. queue # <<>> => available
        BY DEF IInv, Epochs
      <4> QED BY <3>3, <3>4, <4>1, TypedParts, HostCases
    <3>6. UNCHANGED <<pending, committed>>
      BY <3>5 DEF Stays, LaneKept, Enters
    <3>7. phase'.at # "Ready"
      BY <3>1, <3>5 DEF Stays, Enters, Faulted, Decision
    <3> QED BY <3>1, <3>6, <3>7
  <2>2. CASE /\ Requests(Head(queue)) \/ Retries
             /\ pending' # None /\ e.req = pending'
    <3>1. Requests(Head(queue))
      BY <2>2, NoRetries DEF Together
    <3>2. phase'.at = "Decision" /\ committed' = committed /\ phase.at = "Ready" /\ turn = "host"
      BY <3>1 DEF Requests, Requested, Decision, Ready
    <3>3. committed = None
      BY <3>2 DEF LaneSafe, Phasing, Asking
    <3> QED BY <2>2, <3>2, <3>3
  <2> QED BY <2>1, <2>2, HostHolders
<1> QED BY <1>1, TurnOrder DEF Posing

LEMMA HostGesturing ==
  ASSUME Typed, Typed', Turns, IInv, LaneSafe, Together, Gesturing, HostNext, UNCHANGED guest
  PROVE  Gesturing'
<1> SUFFICES ASSUME NEW e \in InFlight("Interaction")'
             PROVE  /\ pending' # None /\ e.id = pending'.id /\ e.state = Ref(doc)'
                    /\ phase'.at \in Stopped /\ turn' # "mirror" /\ InFlight("Commit")' = {}
  BY DEF Gesturing
<1>1. CASE e \in InFlight("Interaction")
  <2>1. /\ pending # None /\ e.id = pending.id /\ e.state = Ref(doc)
        /\ phase.at \in Stopped /\ turn # "mirror" /\ InFlight("Commit") = {}
    BY <1>1 DEF Gesturing
  <2>2. events # <<>>
    BY <1>1 DEF InFlight, Events
  <2>3. turn # "documents" /\ turn # "adopt"
    BY <2>2 DEF Turns
  <2>4. ~Adopt /\ ~Progress /\ ~Installs
    BY <2>1, <2>3 DEF Adopt, Progress, Installs
  <2>5. ~Drops /\ ~Requests(Head(queue)) /\ (\A r \in Results : ~Commits(r)) /\ ~Retries
        /\ ~Defaults /\ ~Gestures
    BY <2>1 DEF Drops, Requests, Commits, Retries, Defaults, Gestures, Stopped, Moving, Ready
  <2>6. Stays \/ \E in \in Input : Enters(in)
    <3>1. queue # <<>> => available
      BY DEF IInv, Epochs
    <3> QED BY <2>4, <2>5, <3>1, TypedParts, HostCases
  <2>7. UNCHANGED <<pending, doc>>
    BY <2>6 DEF Stays, LaneKept, Enters
  <2>8. phase'.at \in Stopped
    BY <2>1, <2>6 DEF Stays, Enters, Faulted, Stopped
  <2>9. InFlight("Commit")' = {}
    BY <2>1, <2>5, HostCommits
  <2> QED BY <2>1, <2>3, <2>7, <2>8, <2>9, TurnOrder DEF Ref
<1>2. CASE /\ Gestures
           /\ e = [type |-> "Interaction", id |-> pending.id, state |-> pending.state]
  <2>1. /\ pending # None /\ pending' = pending /\ doc' = doc /\ phase.at \in Moving
        /\ phase'.at = "AwaitingGuest" /\ turn = "decide"
    BY <1>2 DEF Gestures, AwaitingGuest
  <2>2. e.id = pending.id /\ e.state = Ref(doc)
    BY <1>2, <2>1 DEF LaneSafe, Posed, Moving, Asking
  <2>3. InFlight("Commit")' = {}
    <3>1. InFlight("Commit") = {}
      BY <2>1, NoneFlying DEF LaneSafe, Moving, Stopped
    <3>2. \A r \in Results : ~Commits(r)
      BY <1>2, Fields DEF Gestures, Commits
    <3> QED BY <3>1, <3>2, HostCommits
  <2> QED BY <2>1, <2>2, <2>3, TurnOrder DEF Stopped, Ref
<1> QED BY <1>1, <1>2, HostReports

LEMMA HostReporting ==
  ASSUME Typed, Typed', Turns, IInv, LaneSafe, VInv, Together, Reporting, HostNext,
         UNCHANGED guest
  PROVE  Reporting'
<1> SUFFICES ASSUME pending' # None, committed' # None, editor.reset = doc'.reset
             PROVE  \/ pending'.id \in Reports'
                    \/ \A p \in gpending : p.seq # pending'.id.seq
  BY DEF Reporting, guest, slots
<1>1. CASE pending # None /\ UNCHANGED <<pending, committed>> /\ doc'.reset = doc.reset
  BY <1>1, HostReports DEF Reporting
<1>2. ASSUME NEW r \in Results, Commits(r) PROVE pending'.id \in Reports'
  <2>1. pending' = pending /\ InFlight("Commit")' = {CommitEvent(r)}
    BY <1>2, CommitsFlight
  <2>2. CommitEvent(r).id = pending.id
    BY <2>1 DEF CommitEvent
  <2> QED BY <2>1, <2>2 DEF Reports
<1>3. CASE Gestures
  <2> DEFINE e == [type |-> "Interaction", id |-> pending.id, state |-> pending.state]
  <2>1. /\ pending # None /\ pending' = pending /\ events' = Append(events, e)
        /\ e.type = "Interaction" /\ e.id = pending.id
    BY <1>3 DEF Gestures
  <2>2. e \in Event /\ events \in Seq(Event)
    BY <2>1, Fields, ReportEvent
  <2> HIDE DEF e
  <2>3. e \in Events'
    BY <2>1, <2>2, MembersAppend, EventsMembers
  <2> QED BY <2>1, <2>3 DEF Reports, InFlight
<1>4. CASE Requests(Head(queue)) \/ Retries
  <2>1. committed' = committed /\ phase.at \in Asking
    BY <1>4 DEF Requests, Requested, Retries, Retry, Ready, Asking
  <2> QED BY <2>1 DEF LaneSafe, Phasing
<1>5. CASE Adopt
  <2>1. pending # None /\ UNCHANGED <<pending, committed>>
    BY <1>5, AdoptCases DEF LaneSafe
  <2>2. doc' = doc
    <3>1. tree.keys # {} /\ ~Releases
      BY <1>5, <2>1, AdoptCases DEF LaneSafe, Opened
    <3>2. New.keys # {}
      BY <3>1 DEF Releases, NewEpoch
    <3> QED BY <1>5, <3>1, <3>2 DEF Adopt, AdoptControl
  <2> QED BY <1>1, <2>1, <2>2
<1>6. CASE Progress
  BY <1>1, <1>6, ProgressCases
<1>7. CASE Installs
  <2>1. incoming # None /\ pending' = pending
    BY <1>7 DEF Installs, Install, Incoming, control
  <2> QED BY <2>1 DEF LaneSafe, Opened
<1>8. CASE Stays \/ Drops \/ Defaults \/ \E in \in Input : Enters(in)
  <2>1. UNCHANGED <<pending, committed, doc>>
    BY <1>8 DEF Stays, LaneKept, Drops, Defaults, Enters
  <2> QED BY <1>1, <2>1
<1>9. queue # <<>> => available
  BY DEF IInv, Epochs
<1> QED BY <1>2, <1>3, <1>4, <1>5, <1>6, <1>7, <1>8, <1>9, TypedParts, HostCases

LEMMA HostOwned ==
  ASSUME Typed, Typed', Turns, IInv, LaneSafe, Front, NeverFlipped, Together, Reporting,
         Gesturing, Owned, HostNext, UNCHANGED guest
  PROVE  Owned'
<1> SUFFICES ASSUME NEW p \in gpending
             PROVE  (pending' # None /\ pending'.id.seq = p.seq) \/ p \in Cancelling'
  BY DEF Owned, guest, slots
<1>1. (pending # None /\ pending.id.seq = p.seq) \/ p \in Cancelling
  BY DEF Owned
<1>2. CASE ~Adopt /\ p \in Cancelling
  BY <1>2, HostReports
<1>3. CASE Adopt
  <2>1. events = <<>> /\ notes = <<>> /\ turn = "adopt"
    BY <1>3 DEF Adopt, Turns
  <2>2. Cancelling = {}
    BY <2>1, MembersNone, EventsMembers DEF Cancelling, Notes
  <2>3. pending # None /\ pending.id.seq = p.seq
    BY <1>1, <2>2
  <2>4. CASE Releases
    <3>1. queue # <<>> /\ Head(queue).key \in tree.keys
      <4>1. queue # <<>>
        BY <2>3 DEF Front
      <4>2. 1 \in DOMAIN queue /\ Head(queue) = queue[1]
        BY <4>1, Fields, SeqParts
      <4> QED BY <4>1, <4>2 DEF LaneSafe, Queued
    <3>2. Cancellation = <<Cancel>>
      BY <2>3, <3>1 DEF Cancellation, Cancel
    <3>3. Cancel \in Notes'
      BY <1>3, <2>4, <3>2, AdoptSends
    <3>4. p = pending.id
      BY <2>3 DEF Together, Claimed, Claims
    <3>5. Cancel.type = "Cancelled" /\ Cancel.id = p
      BY <3>4 DEF Cancel
    <3> QED BY <3>3, <3>5 DEF Cancelling
  <2>5. CASE ~Releases
    BY <1>3, <2>3, <2>5, AdoptCases DEF LaneSafe
  <2> QED BY <2>4, <2>5
<1>4. CASE ~Adopt /\ pending # None /\ pending.id.seq = p.seq
  <2>1. pending' = pending
    <3>1. CASE pending' = None
      <4>1. Progress
        BY <1>4, <3>1, Released
      <4>2. Observed /\ committed # None
        BY <1>4, <3>1, <4>1 DEF Progress, AckLane, Observed, control
      <4>3. turn = "mirror" /\ InFlight("Commit") = {}
        BY <4>1, ProgressCases DEF Progress
      <4>4. InFlight("Interaction") = {}
        BY <4>3 DEF Gesturing
      <4>5. editor.reset = doc.reset
        <5>1. tree.ref = Ref(editor) /\ tree.ref.reset = doc.reset
          BY <4>2, <4>3 DEF Turns, Observed
        <5> QED BY <5>1 DEF Ref
      <4>6. Reports = {}
        BY <4>3, <4>4 DEF Reports
      <4> QED BY <1>4, <4>2, <4>5, <4>6 DEF Reporting
    <3>2. CASE Requests(Head(queue)) \/ Retries
      <4>1. Requests(Head(queue))
        BY <3>2, NoRetries DEF Together
      <4>2. /\ phase.at = "Ready"
            /\ (Head(queue).kind = "key" /\ ~bypass) \/ Head(queue).kind = "click"
        BY <4>1 DEF Requests, Ready
      <4>3. queue # <<>> /\ Head(queue).seq = pending.id.seq
        BY <1>4 DEF Front
      <4> QED BY <1>4, <4>2, <4>3 DEF LaneSafe, Posed
    <3> QED BY <3>1, <3>2, HostPending
  <2> QED BY <1>4, <2>1
<1> QED BY <1>1, <1>2, <1>3, <1>4

LEMMA GuestDistinct ==
  ASSUME Typed, Typed', Distinct, GuestNext PROVE Distinct'
BY GuestSlots DEF Distinct, Replacing

\* What becomes of the events of a tick.
LEMMA GuestReports ==
  ASSUME Typed, Typed', GuestNext, UNCHANGED host
  PROVE  /\ \A t : InFlight(t)' \subseteq InFlight(t)
         /\ View => Events = {}
         /\ Reports \subseteq Reports' \/ AcceptCommit \/ AcceptInteraction
         /\ Cancelling \subseteq Cancelling' \/ AcceptCancelled
         /\ AcceptCancelled => Cancelling \subseteq Cancelling' \cup {Head(events).id}
         /\ AcceptCommit => Head(events) \in InFlight("Commit")
         /\ AcceptInteraction => Head(events) \in InFlight("Interaction")
         /\ AcceptRequest => Head(events) \in InFlight("Request")
<1>1. Events' \subseteq Events /\ Notes' = Notes
      /\ (Takes => Head(events) \in Events /\ Events \subseteq Events' \cup {Head(events)})
      /\ (~Takes => Events' = Events)
  BY GuestFlight DEF Events
<1>2. View => Events = {}
  BY DEF View, Events
<1>3. AcceptCommit \/ AcceptInteraction \/ AcceptRequest \/ AcceptCancelled => Takes
  BY DEF AcceptCommit, AcceptInteraction, AcceptRequest, AcceptCancelled, Consume, Takes
<1>4. /\ AcceptCommit => Head(events) \in InFlight("Commit")
      /\ AcceptInteraction => Head(events) \in InFlight("Interaction")
      /\ AcceptRequest => Head(events) \in InFlight("Request")
  BY <1>1, <1>3 DEF AcceptCommit, AcceptInteraction, AcceptRequest, Consume, InFlight
<1>5. Takes => /\ Head(events).type = "Commit" => AcceptCommit
               /\ Head(events).type = "Interaction" => AcceptInteraction
               /\ Head(events).type = "Cancelled" => AcceptCancelled
  BY TakesType
<1>6. Reports \subseteq Reports' \/ AcceptCommit \/ AcceptInteraction
  <2>1. CASE Takes /\ ~AcceptCommit /\ ~AcceptInteraction
    BY <1>1, <1>5, <2>1 DEF Reports, InFlight
  <2>2. CASE ~Takes
    BY <1>1, <2>2 DEF Reports, InFlight
  <2> QED BY <2>1, <2>2
<1>7. Cancelling \subseteq Cancelling' \/ AcceptCancelled
  <2>1. CASE Takes /\ ~AcceptCancelled
    BY <1>1, <1>5, <2>1 DEF Cancelling
  <2>2. CASE ~Takes
    BY <1>1, <2>2 DEF Cancelling
  <2> QED BY <2>1, <2>2
<1>8. AcceptCancelled => Cancelling \subseteq Cancelling' \cup {Head(events).id}
  BY <1>1, <1>3 DEF Cancelling
<1> QED BY <1>1, <1>2, <1>4, <1>6, <1>7, <1>8 DEF InFlight

LEMMA GuestReporting ==
  ASSUME Typed, Typed', Turns, LaneSafe, VInv, Together, Distinct, Posing, Gesturing,
         Reporting, GuestNext, ~Rollback, UNCHANGED host
  PROVE  Reporting'
<1>1. UNCHANGED <<doc, loaded, pending, committed>>
  BY DEF host, document, control
<1> SUFFICES ASSUME pending # None, committed # None, editor'.reset = doc.reset
             PROVE  \/ pending.id \in Reports'
                    \/ \A p \in gpending' : p.seq # pending.id.seq
  BY <1>1 DEF Reporting
<1>2. editor.reset = doc.reset
  <2>1. tree.ref.reset <= editor.reset /\ doc.reset <= tree.ref.reset
        /\ editor.reset <= editor'.reset
    BY EditorEpoch DEF LaneSafe, Opened, Turns
  <2>2. editor.reset \in Nat /\ doc.reset \in Nat /\ tree.ref.reset \in Nat
    BY Fields
  <2> QED BY <2>1, <2>2
<1>3. \A p \in gpending : p.seq = pending.id.seq => p = pending.id
  BY DEF Together, Claimed, Claims
<1>4. loaded
  BY DEF LaneSafe, Opened
<1>5. ~AcceptRequest
  BY GuestReports DEF Posing
<1>6. gpending' \subseteq gpending
  BY <1>5, GuestSlots
<1>7. CASE AcceptCommit
  <2>1. Head(events) \in InFlight("Commit") /\ Fits(Head(events))
    BY <1>2, <1>4, <1>7, GuestReports, CommitFits
  <2>2. Head(events).id = pending.id
    BY <2>1 DEF LaneSafe, Flying
  <2>3. gpending' = gpending \ {pending.id}
    BY <1>7, <2>1, <2>2 DEF AcceptCommit, Acknowledge
  <2> QED BY <1>3, <2>3
<1>8. CASE AcceptInteraction
  <2>1. /\ Head(events).id = pending.id /\ Head(events).state = Ref(doc)
        /\ InFlight("Commit") = {}
    BY <1>8, GuestReports DEF Gesturing
  <2>2. Ref(editor) = Head(events).state
    BY <1>2, <1>4, <2>1 DEF Together, Following
  <2>3. EditorMatchesPending(Head(events).id)
    BY <1>3, <2>1 DEF EditorMatchesPending
  <2>4. gpending' = gpending \ {pending.id}
    BY <1>8, <2>1, <2>2, <2>3 DEF AcceptInteraction, Acknowledge
  <2> QED BY <1>3, <2>4
<1>9. CASE Reports \subseteq Reports'
  BY <1>2, <1>6, <1>9 DEF Reporting
<1> QED BY <1>7, <1>8, <1>9, GuestReports

LEMMA GuestOwned ==
  ASSUME Typed, Typed', Distinct, Posing, Owned, GuestNext, UNCHANGED host
  PROVE  Owned'
<1>1. UNCHANGED pending
  BY DEF host, control
<1> SUFFICES ASSUME NEW p \in gpending', ~(pending # None /\ pending.id.seq = p.seq)
             PROVE  p \in Cancelling'
  BY <1>1 DEF Owned
<1>2. p \in gpending
  <2>1. CASE AcceptRequest /\ gpending' = Replacing(Head(events).req.id)
    <3>1. p \in gpending \/ p = Head(events).req.id
      BY <2>1 DEF Replacing
    <3>2. pending # None /\ Head(events).req.id = pending.id
      BY <2>1, GuestReports DEF Posing
    <3> QED BY <3>1, <3>2
  <2> QED BY <2>1, GuestSlots
<1>3. p \in Cancelling
  BY <1>2 DEF Owned
<1>4. CASE AcceptCancelled /\ p = Head(events).id
  <2>1. EditorMatchesPending(p)
    BY <1>2 DEF Distinct, EditorMatchesPending
  <2>2. gpending' = gpending \ {p}
    BY <1>4, <2>1 DEF AcceptCancelled, Acknowledge
  <2> QED BY <2>2
<1> QED BY <1>3, <1>4, GuestReports

LEMMA GuestBarring ==
  ASSUME Typed, Typed', Turns, LaneSafe, VInv, Together, Distinct, Barring, GuestNext,
         ~Rollback, UNCHANGED host
  PROVE  Barring'
<1>1. UNCHANGED <<doc, phase, pending, committed>>
  BY DEF host, document, control, lane
<1>2. /\ \A t : InFlight(t)' \subseteq InFlight(t)
      /\ View => Events = {}
  BY GuestReports
<1>3. turn = "guest" /\ (turn' = "guest" \/ View)
  BY GuestCases DEF View, Takes, Replace, MoveTo, Remount, FlipEditable, Program, wire
<1>4. Posing'
  <2>1. View => InFlight("Request")' = {}
    BY <1>2 DEF InFlight
  <2> QED BY <1>1, <1>2, <1>3, <2>1 DEF Barring, Posing
<1>5. Gesturing'
  <2>1. View => InFlight("Interaction")' = {}
    BY <1>2 DEF InFlight
  <2>2. Ref(doc)' = Ref(doc)
    BY <1>1 DEF Ref
  <2> QED BY <1>1, <1>2, <1>3, <2>1, <2>2 DEF Barring, Gesturing
<1>6. Reporting' /\ Owned'
  BY GuestReporting, GuestOwned DEF Barring
<1> QED BY <1>4, <1>5, <1>6 DEF Barring

LEMMA StepBarred == LInv /\ VInv /\ InStep /\ Front /\ Barred /\ [Next]_vars => Barred'
<1> SUFFICES ASSUME LInv, VInv, InStep, Front, Barred, [Next]_vars PROVE Barred'
  OBVIOUS
<1>1. /\ Typed /\ Typed' /\ IInv /\ Turns /\ LaneSafe
  BY StepTyped DEF LInv
<1>2. CASE HostNext /\ UNCHANGED guest
  <2>1. UNCHANGED <<gpending, budget>>
    BY <1>2 DEF guest, slots, program
  <2>2. Distinct'
    BY <2>1 DEF Barred, Distinct
  <2>3. ASSUME NeverFlipped', NeverRolledBack' PROVE Barring'
    <3>1. NeverFlipped /\ NeverRolledBack
      BY <2>1, <2>3 DEF NeverFlipped, NeverRolledBack
    <3>2. Together /\ Barring
      BY <3>1 DEF InStep, Barred
    <3> QED BY <1>1, <1>2, <3>1, <3>2, HostPosing, HostGesturing, HostReporting, HostOwned
          DEF Barring
  <2> QED BY <2>2, <2>3 DEF Barred
<1>3. CASE GuestNext /\ UNCHANGED host
  <2>1. Distinct'
    BY <1>1, <1>3, GuestDistinct DEF Barred
  <2>2. ASSUME NeverFlipped', NeverRolledBack' PROVE Barring'
    <3>1. NeverFlipped /\ NeverRolledBack /\ ~Rollback
      BY <1>1, <1>3, <2>2, Flips, Rolls
    <3> QED BY <1>1, <1>3, <3>1, GuestBarring DEF InStep, Barred
  <2> QED BY <2>1, <2>2 DEF Barred
<1>4. CASE UNCHANGED vars
  <2>1. UNCHANGED <<turn, events, notes, phase, pending, committed, doc, editor, gpending, budget>>
    BY <1>4 DEF vars, wire, host, guest, lane, control, document, program, slots
  <2>2. UNCHANGED <<Events, Notes, Reports, Cancelling>> /\ \A t : InFlight(t)' = InFlight(t)
    BY <2>1 DEF Events, Notes, Members, Reports, Cancelling, InFlight
  <2> QED BY <2>1, <2>2 DEF Barred, Distinct, NeverFlipped, NeverRolledBack, Barring, Posing,
        Gesturing, Reporting, Owned, Ref
<1> QED BY <1>2, <1>3, <1>4 DEF Next

LEMMA InitBarred == Init => Barred
<1> SUFFICES ASSUME Init PROVE Barred
  OBVIOUS
<1>1. events = <<>> /\ turn = "host" /\ gpending = {} /\ pending = None
  BY DEF Init, WireInit, HostInit, GuestInit
<1>2. Events = {} /\ \A t : InFlight(t) = {}
  BY <1>1, MembersNone, EventsMembers DEF InFlight
<1> QED BY <1>1, <1>2 DEF Barred, Distinct, Barring, Posing, Gesturing, Reporting, Owned

\* A decision keeps the guest from being snapshotted only while the host waits
\* for it or its cancellation is on its way, unless the program stored an older
\* clone back or made the document read-only.
THEOREM BarrierIsHeldCorrect == Spec => []BarrierIsHeld
<1>1. LInv /\ Barred => BarrierIsHeld
  <2> SUFFICES ASSUME LInv, Owned, AtRest, NEW p \in gpending
               PROVE  \/ pending # None /\ pending.id.seq = p.seq
                      \/ \E e \in InFlight("Cancelled") : e.id = p
    BY DEF BarrierIsHeld, BarrierHasOwner, Barred, Barring
  <2>1. Notes = {}
    BY MembersNone DEF LInv, Turns, AtRest, Notes
  <2> QED BY <2>1 DEF Owned, Cancelling, InFlight
<1>2. Spec => []Front
  BY InitFront, StepFront, LaneInvariance, PTL DEF Spec
<1> QED BY <1>1, <1>2, InitBarred, StepBarred, LaneInvariance, VersionInvariance,
      StepInvariance, PTL DEF Spec
===============================================================================
