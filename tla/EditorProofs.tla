----------------------------- MODULE EditorProofs -----------------------------
(***************************************************************************)
(* EditorSession for every set of widgets, every length of the lane and    *)
(* every number of epochs, roll-backs, remounts and changes of the         *)
(* editable flag: its types, the epochs of its input, its faults, and the  *)
(* order in which its lane commits.                                        *)
(*                                                                         *)
(* Hardly any of the invariants is inductive as it stands.  Epochs says in *)
(* every step of a tick what InputsStayInEpoch says between ticks, and why *)
(* a document stays available as long as it has input.  NoSilentFault is   *)
(* inductive: every step that ends between ticks with a faulted lane has   *)
(* reported it.  LaneSafe says what each phase of the lane knows of the    *)
(* request, of the commit under way and of the inputs the program has      *)
(* heard of; the order of the commits and PendingNamesFront follow.        *)
(***************************************************************************)
EXTENDS EditorSession, FilterProofs, TLAPS

-----------------------------------------------------------------------------
(***************************************************************************)
(* Types.                                                                  *)
(***************************************************************************)

\* A request is asked as often as the lane counts, so that a decision of it
\* can be waited for again.
Tried == pending # None => pending.id.attempt \in 0..MaxAttempts

Phases ==
  [at: {"Ready", "AwaitingGuest", "Decision"} \cup Faults,
   attempt: 0 .. MaxAttempts]

\* The lane with its control and document, and the rest of the host.
LaneTypes ==
  /\ events \in Seq(Event)
  /\ queue \in Seq(Input) /\ Len(queue) <= MaxInputs
  /\ phase \in Phases
  /\ pending \in Request \cup {None} /\ Tried
  /\ bypass \in BOOLEAN /\ committed \in Nat \cup {None} /\ told \in BOOLEAN
  /\ faultKey \in Keys \cup {None}
  /\ doc \in Doc /\ loaded \in BOOLEAN /\ edRev \in Nat
RestTypes ==
  /\ turn \in {"host", "guest", "adopt", "documents", "mirror", "decide"}
  /\ frame \in Frame
  /\ available \in BOOLEAN
  /\ tree \in Tree /\ serial \in Nat
  /\ notes \in Seq(Event)
  /\ incoming \in [id: TransferId, target: DocRef] \cup {None}
  /\ outgoing \in [id: TransferId, target: DocRef, stage: 0 .. TransferFrames]
                    \cup {None}
  /\ docFault \in DocRef \cup {None}

LEMMA HostTypes ==
  /\ WireTypeOK /\ HostTypeOK /\ Tried <=> LaneTypes /\ RestTypes
  /\ (WireTypeOK /\ HostTypeOK /\ Tried <=> LaneTypes /\ RestTypes)'
BY DEF WireTypeOK, HostTypeOK, Tried, LaneTypes, RestTypes, Phases

LEMMA RefType == ASSUME NEW d \in Doc PROVE Ref(d) \in DocRef
BY DEF Doc, DocRef, Ref

LEMMA FreshType == ASSUME NEW r \in Nat PROVE Fresh(r) \in Doc
BY DEF Fresh, Doc

LEMMA TxnType ==
  ASSUME NEW n \in Nat, NEW a \in Nat, NEW r \in DocRef
  PROVE  Txn(n, a, r) \in TxnId
BY DEF Txn, TxnId, DocRef

LEMMA TransferOfType ==
  ASSUME NEW id \in TxnId PROVE TransferOf(id) \in TransferId
BY DEF TransferOf, TxnId, TransferId

\* The messages of a transfer.
LEMMA DocumentTypes ==
  ASSUME NEW id \in TransferId
  PROVE  /\ \A r \in DocRef : Ask(id, r) \in Document
         /\ \A p \in {"more", "last", "abort"}, x \in Nat \X Nat :
              Part(id, p, x) \in Document
         /\ Acknowledged(id) \in Document /\ Failed(id) \in Document
         /\ Document \subseteq Event
BY DEF Ask, Part, Acknowledged, Failed, Document, Event

\* The events of a transaction.
LEMMA RequestEvent ==
  ASSUME NEW req \in Request PROVE [type |-> "Request", req |-> req] \in Event
BY DEF Event

LEMMA ReportEvent ==
  ASSUME NEW type \in {"Interaction", "Fault", "Cancelled"}, NEW id \in TxnId,
         NEW r \in DocRef
  PROVE  [type |-> type, id |-> id, state |-> r] \in Event
BY DEF Event

LEMMA CommittedEvent ==
  ASSUME NEW id \in TxnId, NEW o \in Kinds \cup {None}, NEW b \in DocRef,
         NEW a \in Doc, NEW n \in Nat
  PROVE  [type |-> "Commit", id |-> id, origin |-> o, before |-> b,
          after |-> a, input |-> n] \in Event
BY DEF Event

LEMMA HeadInput ==
  ASSUME queue \in Seq(Input), queue # <<>>
  PROVE  /\ Head(queue) \in Input /\ Head(queue).seq \in Nat
         /\ Tail(queue) \in Seq(Input) /\ Len(Tail(queue)) <= Len(queue)
<1>1. /\ Head(queue) \in Input /\ Tail(queue) \in Seq(Input)
      /\ Len(Tail(queue)) = Len(queue) - 1 /\ Len(queue) \in Nat
  BY HeadTailProperties, LenProperties
<1> QED BY <1>1 DEF Input

LEMMA AtPhase ==
  ASSUME NEW n \in 0..MaxAttempts
  PROVE  /\ Ready \in Phases
         /\ AwaitingGuest \in Phases
         /\ Decision(n) \in Phases
         /\ \A f \in Faults :
              Faulted(f) \in Phases
BY WireAssumption DEF Ready, AwaitingGuest, Decision, Faulted, Phases

\* editor_fault says what it says of a transaction, to the guest.
LEMMA FaultTypes ==
  ASSUME LaneTypes, RestTypes, NEW t \in BOOLEAN, EditorFault(t), serial' \in Nat
  PROVE  events' \in Seq(Event) /\ told' \in BOOLEAN
<1>1. FaultId(queue) \in TxnId
  <2>1. CASE pending # None
    BY <2>1 DEF FaultId, LaneTypes, Request
  <2>2. CASE pending = None
    <3>1. (IF queue # <<>> THEN Head(queue).seq ELSE serial') \in Nat
      BY HeadInput DEF LaneTypes
    <3>2. Ref(doc) \in DocRef
      BY RefType DEF LaneTypes
    <3> QED BY <2>2, <3>1, <3>2, TxnType DEF FaultId
  <2> QED BY <2>1, <2>2
<1>2. FaultEvents(queue, faultKey', t) \in Seq(Event)
  BY <1>1, RefType, ReportEvent DEF FaultEvents, LaneTypes
<1> QED BY <1>2 DEF EditorFault, LaneTypes

LEMMA FailTypes ==
  ASSUME LaneTypes, RestTypes, NEW t \in BOOLEAN, NEW f \in Faults, Fail(f, t),
         serial' \in Nat
  PROVE  LaneTypes'
<1>1. events' \in Seq(Event) /\ told' \in BOOLEAN
  BY FaultTypes DEF Fail
<1>2. phase' \in Phases
  BY AtPhase, WireAssumption DEF Fail
<1> QED BY <1>1, <1>2 DEF Fail, LaneTypes, Tried, document

\* A commit is of the document as it was and as it will be.
LEMMA CommitIsEvent ==
  ASSUME LaneTypes, NEW r, queue # <<>>
  PROVE  After(r) \in Doc /\ CommitEvent(r) \in Event
<1>1. After(r) \in Doc
  <2>1. doc.reset \in Nat /\ doc.trev + 1 \in Nat /\ edRev + 1 \in Nat
    BY DEF Doc, LaneTypes
  <2>2. doc \in Doc
    BY DEF LaneTypes
  <2>3. [doc EXCEPT !.rev = edRev + 1] \in Doc
    BY <2>1, <2>2 DEF Doc
  <2>4. [doc EXCEPT !.rev = edRev + 1, !.trev = @ + 1,
                    !.text = <<doc.reset, edRev + 1>>] \in Doc
    BY <2>1, <2>2 DEF Doc
  <2> QED BY <2>3, <2>4 DEF After
<1>2. Head(queue).seq \in Nat
  BY HeadInput DEF LaneTypes
<1>3. (IF pending # None THEN pending.id ELSE Txn(Head(queue).seq, 0, Ref(doc))) \in TxnId
  BY <1>2, RefType, TxnType DEF LaneTypes, Request
<1>4. (IF pending # None THEN pending.kind ELSE None) \in Kinds \cup {None}
  BY DEF LaneTypes, Request
<1>5. CommitEvent(r) \in Event
  BY <1>1, <1>2, <1>3, <1>4, RefType, CommittedEvent DEF CommitEvent, LaneTypes
<1> QED BY <1>1, <1>5

LEMMA CommitTypes ==
  ASSUME LaneTypes, RestTypes, NEW t \in BOOLEAN, NEW r \in Results, queue # <<>>,
         CommitEditor(r, t), serial' \in Nat
  PROVE  LaneTypes'
<1>1. CASE Fail("Identity", t) \/ Fail("Overflow", t)
  BY <1>1, FailTypes DEF Faults
<1>2. CASE /\ phase' = AwaitingGuest
           /\ doc' = After(r) /\ edRev' = edRev + 1
           /\ committed' = edRev + 1 /\ bypass' = FALSE /\ told' = t
           /\ events' = Append(events, CommitEvent(r))
           /\ UNCHANGED <<queue, pending, faultKey, loaded>>
  <2>5. After(r) \in Doc /\ CommitEvent(r) \in Event
    BY CommitIsEvent
  <2>6. events' \in Seq(Event)
    BY <1>2, <2>5, AppendProperties DEF LaneTypes
  <2>7. edRev + 1 \in Nat
    BY DEF LaneTypes
  <2>8. phase' \in Phases
    BY <1>2, AtPhase, WireAssumption
  <2> QED BY <1>2, <2>5, <2>6, <2>7, <2>8 DEF LaneTypes, Tried
<1> QED BY <1>1, <1>2 DEF CommitEditor

LEMMA RequestedTypes ==
  ASSUME LaneTypes, NEW in \in Input, Requested(in)
  PROVE  LaneTypes'
<1> DEFINE req == [id |-> Txn(in.seq, 1, Ref(doc)), kind |-> in.kind, state |-> Ref(doc)]
<1>1. req \in Request /\ req.id.attempt = 1
  BY RefType, TxnType DEF LaneTypes, Input, Request, Txn
<1>2. 1 \in 0..MaxAttempts
  BY WireAssumption
<1>3. [type |-> "Request", req |-> req] \in Event
  BY <1>1, RequestEvent
<1>4. /\ phase' = Decision(1) /\ pending' = req
      /\ events' = Append(events, [type |-> "Request", req |-> req])
      /\ UNCHANGED <<queue, bypass, committed, told, faultKey, document>>
  BY DEF Requested
<1> HIDE DEF req
<1>5. events' \in Seq(Event)
  BY <1>3, <1>4, AppendProperties DEF LaneTypes
<1>6. phase' \in Phases
  BY <1>2, <1>4, AtPhase
<1> QED BY <1>1, <1>2, <1>4, <1>5, <1>6 DEF LaneTypes, Tried, document

LEMMA RetryTypes ==
  ASSUME LaneTypes, pending # None, phase.attempt < MaxAttempts, Retry
  PROVE  LaneTypes'
<1> DEFINE n == phase.attempt + 1
           req == [id |-> Txn(pending.id.seq, n, Ref(doc)),
                   kind |-> pending.kind, state |-> Ref(doc)]
<1>1. n \in 0..MaxAttempts
  BY WireAssumption DEF LaneTypes, Phases
<1>2. req \in Request /\ req.id.attempt = n
  <2>1. pending.id.seq \in Nat /\ pending.kind \in Kinds /\ Ref(doc) \in DocRef
    BY RefType DEF LaneTypes, Request, TxnId
  <2>2. Txn(pending.id.seq, n, Ref(doc)) \in TxnId
    BY <1>1, <2>1, TxnType
  <2> QED BY <2>1, <2>2 DEF Request, Txn
<1>3. [type |-> "Request", req |-> req] \in Event
  BY <1>2, RequestEvent
<1>4. /\ phase' = Decision(n) /\ pending' = req
      /\ events' = Append(events, [type |-> "Request", req |-> req])
      /\ UNCHANGED <<queue, bypass, committed, told, faultKey, document>>
  BY DEF Retry
<1> HIDE DEF req, n
<1>5. events' \in Seq(Event)
  BY <1>3, <1>4, AppendProperties DEF LaneTypes
<1>6. phase' \in Phases
  BY <1>1, <1>4, AtPhase
<1> QED BY <1>1, <1>2, <1>4, <1>5, <1>6 DEF LaneTypes, Tried, document

-----------------------------------------------------------------------------
\* A widget changes the lane and nothing else of the host.
LEMMA WidgetRest ==
  ASSUME RestTypes, Widget, serial' \in Nat PROVE RestTypes'
BY DEF RestTypes, Widget, transfers

LEMMA AdmitTypes ==
  ASSUME LaneTypes, RestTypes, NEW k \in Keys, NEW kind \in Kinds, Admit(k, kind)
  PROVE  LaneTypes' /\ RestTypes'
<1>1. serial' \in Nat /\ RestTypes'
  BY WidgetRest DEF Admit, RestTypes
<1>2. CASE /\ Admissible
           /\ queue' = Append(queue, [seq |-> serial + 1, key |-> k, kind |-> kind])
           /\ UNCHANGED <<phase, told, faultKey, events>>
  <2>1. [seq |-> serial + 1, key |-> k, kind |-> kind] \in Input
    BY DEF RestTypes, Input
  <2>2. queue' \in Seq(Input) /\ Len(queue') <= MaxInputs
    BY <1>2, <2>1, AppendProperties, LenProperties, WireAssumption
    DEF Admissible, LaneTypes
  <2> QED BY <1>1, <1>2, <2>2 DEF Admit, LaneTypes, Tried, document
<1>3. CASE /\ phase' = IF IsFaulted(phase) THEN phase ELSE Faulted("Overflow")
           /\ faultKey' = k
           /\ EditorFault(told)
           /\ UNCHANGED queue
  <2>1. events' \in Seq(Event) /\ told' \in BOOLEAN
    BY <1>1, <1>3, FaultTypes DEF LaneTypes
  <2>2. phase' \in Phases
    BY <1>3, AtPhase, WireAssumption DEF LaneTypes, Faults
  <2> QED BY <1>1, <1>3, <2>1, <2>2 DEF Admit, LaneTypes, Tried, document
<1> QED BY <1>1, <1>2, <1>3 DEF Admit

LEMMA DeadlineTypes ==
  ASSUME LaneTypes, RestTypes, Deadline
  PROVE  LaneTypes' /\ RestTypes'
<1>1. serial' \in Nat /\ RestTypes'
  BY WidgetRest DEF Deadline, RestTypes
<1>2. told \in BOOLEAN
  BY DEF LaneTypes
<1> QED BY <1>1, <1>2, FailTypes DEF Deadline, Faults

LEMMA PopTypes ==
  ASSUME LaneTypes, Pop, queue # <<>>
  PROVE  LaneTypes'
<1>1. queue' \in Seq(Input) /\ Len(queue') <= MaxInputs
  <2>1. /\ Tail(queue) \in Seq(Input) /\ Len(Tail(queue)) <= Len(queue)
        /\ Len(queue) \in Nat /\ Len(Tail(queue)) \in Nat
    BY HeadInput, LenProperties DEF LaneTypes
  <2> QED BY <2>1, WireAssumption DEF Pop, LaneTypes
<1>2. phase' \in Phases
  BY AtPhase, WireAssumption DEF Pop
<1> QED BY <1>1, <1>2 DEF Pop, LaneTypes, Tried, control, document

LEMMA ReplayTypes ==
  ASSUME LaneTypes, RestTypes, NEW k \in Keys, Replay(k)
  PROVE  LaneTypes' /\ RestTypes'
<1>1. serial' \in Nat /\ RestTypes' /\ queue # <<>> /\ told \in BOOLEAN
  BY WidgetRest DEF Replay, RestTypes, LaneTypes
<1>2. CASE Requested(Head(queue))
  BY <1>1, <1>2, RequestedTypes, HeadInput DEF LaneTypes
<1>3. CASE \E r \in Results : CommitEditor(r, told)
  BY <1>1, <1>3, CommitTypes
<1>4. CASE Pop
  BY <1>1, <1>4, PopTypes
<1> QED BY <1>1, <1>2, <1>3, <1>4 DEF Replay, Results

LEMMA AdoptTypes ==
  ASSUME LaneTypes, RestTypes, Adopt
  PROVE  LaneTypes' /\ RestTypes'
<1>1. tree' = New /\ New \in Tree /\ New.ref \in DocRef /\ New.ref.reset \in Nat
  BY DEF Adopt, New, RestTypes, Frame, Tree, DocRef
<1>2. queue' \in Seq(Input) /\ Len(queue') <= MaxInputs
  <2>1. CASE queue' = <<>>
    BY <2>1, WireAssumption
  <2>2. CASE queue' = Kept
    <3> DEFINE S == [seq: Nat, key: New.keys, kind: Kinds]
    <3> HIDE DEF S
    <3>1. Among(queue, S) \in Seq(Input \cap S) /\ Len(Among(queue, S)) <= Len(queue)
      BY AmongType DEF LaneTypes
    <3>2. Among(queue, S) \in Seq(Input)
      BY <3>1, SeqMonotonic
    <3>3. Len(Among(queue, S)) \in Nat /\ Len(queue) \in Nat
      BY <3>2, LenProperties DEF LaneTypes
    <3>4. queue' = Among(queue, S)
      BY <2>2 DEF Kept, S
    <3> QED BY <3>1, <3>2, <3>3, <3>4, WireAssumption DEF LaneTypes
  <2> QED BY <2>1, <2>2 DEF Adopt, AdoptLane
<1>3. /\ phase' \in Phases
      /\ pending' \in Request \cup {None} /\ Tried'
      /\ bypass' \in BOOLEAN /\ committed' \in Nat \cup {None} /\ told' \in BOOLEAN
      /\ faultKey' \in Keys \cup {None}
  <2>1. CASE Releases
    <3>1. /\ phase' = Ready /\ pending' = None /\ committed' = None
          /\ bypass' = FALSE /\ told' = FALSE /\ faultKey' = None
      BY <2>1 DEF Adopt, AdoptLane
    <3>2. Ready \in Phases
      BY WireAssumption, AtPhase
    <3> QED BY <3>1, <3>2 DEF Tried
  <2>2. CASE ~Releases
    BY <2>2 DEF Adopt, AdoptLane, Tried, control, LaneTypes
  <2> QED BY <2>1, <2>2
<1>4. doc' \in Doc /\ loaded' \in BOOLEAN
  <2>1. doc' = doc \/ doc' = Fresh(0) \/ doc' = Fresh(New.ref.reset)
    BY DEF Adopt, AdoptControl
  <2>2. loaded' = loaded \/ loaded' = FALSE
    BY DEF Adopt, AdoptControl
  <2> QED BY <1>1, <2>1, <2>2, FreshType DEF LaneTypes
<1>5. LaneTypes'
  BY <1>2, <1>3, <1>4 DEF Adopt, LaneTypes
<1>6. Cancellation \in Seq(Event)
  <2>1. CASE pending # None
    <3>1. pending.id \in TxnId /\ pending.state \in DocRef
      BY <2>1 DEF LaneTypes, Request
    <3>2. [type |-> "Cancelled", id |-> pending.id, state |-> pending.state] \in Event
      BY <3>1, ReportEvent
    <3> QED BY <3>2 DEF Cancellation
  <2> QED BY <2>1 DEF Cancellation
<1>7. incoming # None =>
        incoming.id \in TransferId /\ Failed(incoming.id) \in Event
  BY DocumentTypes DEF RestTypes
<1> DEFINE aborted == incoming # None /\ Stale(incoming.target)
           left == IF aborted THEN None ELSE incoming
           cancelled == notes \o (IF Releases THEN Cancellation ELSE <<>>)
                          \o (IF aborted THEN <<Failed(incoming.id)>> ELSE <<>>)
<1>8. cancelled \in Seq(Event)
  BY <1>6, <1>7, ConcatProperties DEF RestTypes
<1>9. Fetch \in [id: TransferId, target: DocRef] /\ Ask(Fetch.id, Fetch.target) \in Event
  <2>1. /\ [serial |-> serial + 1, attempt |-> 0, reset |-> tree'.ref.reset] \in TransferId
        /\ tree'.ref \in DocRef
    BY <1>1 DEF TransferId, RestTypes
  <2> QED BY <2>1, DocumentTypes DEF Fetch
<1>10. \/ /\ incoming' = Fetch /\ serial' = serial + 1
          /\ notes' = Append(cancelled, Ask(Fetch.id, Fetch.target))
       \/ incoming' = left /\ notes' = cancelled /\ UNCHANGED serial
  BY DEF Adopt
<1>11. /\ incoming' \in [id: TransferId, target: DocRef] \cup {None}
       /\ notes' \in Seq(Event) /\ serial' \in Nat
  <2>1. left \in [id: TransferId, target: DocRef] \cup {None} /\ serial \in Nat
    BY DEF RestTypes
  <2> DEFINE ask == Ask(Fetch.id, Fetch.target)
             f == Fetch
  <2>2. ask \in Event /\ f \in [id: TransferId, target: DocRef]
    BY <1>9
  <2>3. \/ incoming' = f /\ serial' = serial + 1 /\ notes' = Append(cancelled, ask)
        \/ incoming' = left /\ notes' = cancelled /\ serial' = serial
    BY <1>10
  <2> HIDE DEF cancelled, left, ask, f
  <2>4. Append(cancelled, ask) \in Seq(Event)
    BY <1>8, <2>2, AppendProperties
  <2> QED BY <1>8, <2>1, <2>2, <2>3, <2>4
<1>12. available' \in BOOLEAN
  BY DEF Adopt, Available
<1>13. docFault' \in DocRef \cup {None}
  BY DEF Adopt, RestTypes
<1> QED BY <1>1, <1>5, <1>11, <1>12, <1>13 DEF Adopt, RestTypes

-----------------------------------------------------------------------------
LEMMA RequestMirrorTypes ==
  ASSUME LaneTypes, RestTypes, Message # None, Message.type = "Ask", RequestMirror
  PROVE  LaneTypes' /\ outgoing' \in [id: TransferId, target: DocRef,
                                      stage: 0 .. TransferFrames] \cup {None}
<1>1. Message \in Document /\ Message.id \in TransferId /\ Message.target \in DocRef
  BY DEF RestTypes, Message, Frame, Document
<1>2. Failed(Message.id) \in Event
  BY <1>1, DocumentTypes
<1>3. events' = events \/ events' = Append(events, Failed(Message.id))
  BY DEF RequestMirror
<1>4. events' \in Seq(Event)
  <2> DEFINE f == Failed(Message.id)
  <2>1. f \in Event /\ (events' = events \/ events' = Append(events, f))
    BY <1>2, <1>3
  <2> HIDE DEF f
  <2> QED BY <2>1, AppendProperties DEF LaneTypes
<1>5. \/ outgoing' = outgoing
      \/ outgoing' = [id |-> Message.id, target |-> Message.target, stage |-> 0]
  BY DEF RequestMirror
<1>6. outgoing' \in [id: TransferId, target: DocRef,
                     stage: 0 .. TransferFrames] \cup {None}
  BY <1>1, <1>5, WireAssumption DEF RestTypes
<1>7. LaneTypes'
  BY <1>4 DEF RequestMirror, LaneTypes, Tried, lane, control, document
<1> QED BY <1>6, <1>7

LEMMA MirrorInstalledTypes ==
  ASSUME LaneTypes, RestTypes, serial' \in Nat, MirrorInstalled
  PROVE  LaneTypes'
<1>1. told \in BOOLEAN
  BY DEF LaneTypes
<1>2. CASE UNCHANGED <<lane, pending, bypass, committed, faultKey, document>>
             /\ EditorFault(told)
  <2>1. events' \in Seq(Event) /\ told' \in BOOLEAN
    BY <1>1, <1>2, FaultTypes
  <2> QED BY <1>2, <2>1 DEF LaneTypes, Tried, lane, document
<1>3. CASE \E f \in Faults : Fail(f, told)
  BY <1>1, <1>3, FailTypes
<1>4. CASE pending # None /\ phase.attempt < MaxAttempts /\ Retry
  BY <1>4, RetryTypes
<1>5. CASE UNCHANGED <<lane, control, document, events>>
  BY <1>5 DEF LaneTypes, Tried, lane, control, document
<1> QED BY <1>2, <1>3, <1>4, <1>5 DEF MirrorInstalled, Faults

LEMMA InstallTypes ==
  ASSUME LaneTypes, RestTypes, incoming # None, Message # None,
         Message.type = "Part", Install
  PROVE  LaneTypes' /\ available' = TRUE
<1>1. Message.text \in Nat \X Nat
  BY DEF RestTypes, Message, Frame, Document
<1>2. /\ incoming.id \in TransferId /\ incoming.target \in DocRef
  BY DEF RestTypes
<1>3. doc' \in Doc /\ doc'.rev \in Nat
  BY <1>1, <1>2 DEF Install, Doc, DocRef
<1> DEFINE f == Acknowledged(incoming.id)
<1>4. f \in Event /\ events' = Append(events, f)
  BY <1>2, DocumentTypes DEF Install
<1> HIDE DEF f
<1>5. events' \in Seq(Event)
  BY <1>4, AppendProperties DEF LaneTypes
<1>6. edRev' \in Nat
  BY <1>3 DEF Install, LaneTypes
<1> QED BY <1>3, <1>5, <1>6 DEF Install, LaneTypes, Tried, lane, control

LEMMA AbandonTypes ==
  ASSUME LaneTypes, RestTypes, incoming # None, Abandon
  PROVE  LaneTypes' /\ docFault' \in DocRef
<1>1. /\ incoming.id \in TransferId /\ incoming.target \in DocRef
  BY DEF RestTypes
<1> DEFINE f == Failed(incoming.id)
<1>2. f \in Event /\ events' = Append(events, f)
  BY <1>1, DocumentTypes DEF Abandon
<1> HIDE DEF f
<1>3. events' \in Seq(Event)
  BY <1>2, AppendProperties DEF LaneTypes
<1> QED BY <1>1, <1>3 DEF Abandon, LaneTypes, Tried, lane, control, document

LEMMA DocumentsTypes ==
  ASSUME LaneTypes, RestTypes, Documents
  PROVE  LaneTypes' /\ RestTypes'
<1>1. /\ turn' = "mirror" /\ frame' = frame /\ tree' = tree /\ serial' = serial
      /\ notes' = notes /\ serial' \in Nat /\ told \in BOOLEAN
  BY DEF Documents, RestTypes, LaneTypes
<1>2. CASE Ignore
  BY <1>1, <1>2 DEF Ignore, LaneTypes, RestTypes, Tried, lane, control, document, transfers
<1>3. CASE Message # None /\ Message.type = "Ask" /\ RequestMirror
  <2>1. UNCHANGED <<available, incoming, docFault>>
    BY <1>3 DEF RequestMirror
  <2> QED BY <1>1, <1>3, <2>1, RequestMirrorTypes DEF RestTypes
<1>4. CASE MirrorFailed
  <2>1. LaneTypes'
    <3>1. CASE UNCHANGED <<lane, control, document, events>>
      BY <1>1, <3>1 DEF LaneTypes, Tried, lane, control, document
    <3>2. CASE Fail("Identity", told)
      BY <1>1, <3>2, FailTypes DEF Faults
    <3> QED BY <1>4, <3>1, <3>2 DEF MirrorFailed
  <2> QED BY <1>1, <1>4, <2>1 DEF MirrorFailed, RestTypes
<1>5. CASE MirrorInstalled
  <2>1. LaneTypes'
    BY <1>1, <1>5, MirrorInstalledTypes
  <2>2. outgoing' = None /\ UNCHANGED <<available, incoming, docFault>>
    BY <1>5 DEF MirrorInstalled
  <2> QED BY <1>1, <2>1, <2>2 DEF RestTypes
<1>6. CASE incoming # None /\ Message # None /\ Message.type = "Part" /\ Install
  <2>1. LaneTypes' /\ available' = TRUE
    BY <1>6, InstallTypes
  <2>2. incoming' = None /\ UNCHANGED <<outgoing, docFault>>
    BY <1>6 DEF Install
  <2> QED BY <1>1, <2>1, <2>2 DEF RestTypes
<1>7. CASE incoming # None /\ Abandon
  <2>1. LaneTypes' /\ docFault' \in DocRef
    BY <1>7, AbandonTypes
  <2>2. incoming' = None /\ UNCHANGED <<available, outgoing>>
    BY <1>7 DEF Abandon
  <2> QED BY <1>1, <2>1, <2>2 DEF RestTypes
<1> QED BY <1>2, <1>3, <1>4, <1>5, <1>6, <1>7 DEF Documents, Incoming

LEMMA ProgressTypes ==
  ASSUME LaneTypes, RestTypes, Progress
  PROVE  LaneTypes' /\ RestTypes'
<1>1. /\ turn' = "decide" /\ notes' = <<>>
      /\ UNCHANGED <<frame, document, available, tree, docFault>>
  BY DEF Progress
<1>2. outgoing # None => /\ outgoing.id \in TransferId
                         /\ outgoing \in [id: TransferId, target: DocRef,
                                          stage: 0 .. TransferFrames]
  BY DEF RestTypes
<1>3. MirrorPart \in {"more", "last", "abort"} /\ doc.text \in Nat \X Nat
  BY DEF MirrorPart, LaneTypes, Doc
<1>4. MirrorSent \in Seq(Event)
  <2>1. CASE outgoing = None \/ MirrorEnded
    BY <2>1 DEF MirrorSent
  <2>2. CASE outgoing # None /\ ~MirrorEnded
    <3> DEFINE p == Part(outgoing.id, MirrorPart, doc.text)
               f == Failed(outgoing.id)
    <3>1. p \in Event /\ f \in Event
      BY <1>2, <1>3, <2>2, DocumentTypes
    <3>2. MirrorSent = <<p>> \/ MirrorSent = <<f>>
      BY <2>2 DEF MirrorSent
    <3> HIDE DEF p, f
    <3> QED BY <3>1, <3>2
  <2> QED BY <2>1, <2>2
<1>5. outgoing' \in [id: TransferId, target: DocRef,
                     stage: 0 .. TransferFrames] \cup {None}
  <2>1. CASE outgoing = None \/ MirrorEnded
    BY <2>1 DEF Progress, MirrorLeft, RestTypes
  <2>2. CASE outgoing # None /\ ~MirrorEnded /\ MirrorActive /\ MirrorPart # "abort"
    <3>1. outgoing.stage # TransferFrames
      BY <2>2 DEF MirrorEnded
    <3>2. outgoing.stage + 1 \in 0..TransferFrames
      BY <1>2, <2>2, <3>1, WireAssumption
    <3>3. outgoing' = [outgoing EXCEPT !.stage = @ + 1]
      BY <2>2 DEF Progress, MirrorLeft
    <3> QED BY <1>2, <2>2, <3>2, <3>3
  <2>3. CASE outgoing # None /\ ~MirrorEnded /\ ~(MirrorActive /\ MirrorPart # "abort")
    BY <2>3 DEF Progress, MirrorLeft
  <2> QED BY <2>1, <2>2, <2>3
<1>6. Fetch \in [id: TransferId, target: DocRef] /\ Ask(Fetch.id, Fetch.target) \in Event
  <2>1. /\ [serial |-> serial + 1, attempt |-> 0, reset |-> tree'.ref.reset] \in TransferId
        /\ tree'.ref \in DocRef
    BY <1>1 DEF TransferId, RestTypes, Tree, DocRef
  <2> QED BY <2>1, DocumentTypes DEF Fetch
<1>7. events' \in Seq(Event) /\ serial' \in Nat
      /\ incoming' \in [id: TransferId, target: DocRef] \cup {None}
  <2> DEFINE ask == Ask(Fetch.id, Fetch.target)
             sent == events \o MirrorSent \o notes
             f == Fetch
  <2>1. /\ ask \in Event /\ f \in [id: TransferId, target: DocRef]
        /\ incoming \in [id: TransferId, target: DocRef] \cup {None} /\ serial \in Nat
    BY <1>6 DEF RestTypes
  <2>2. \/ /\ incoming' = f /\ serial' = serial + 1
           /\ events' = sent \o <<ask>>
        \/ /\ events' = sent
           /\ incoming' = incoming /\ serial' = serial
    BY DEF Progress
  <2> HIDE DEF ask, f
  <2>3. sent \in Seq(Event)
    BY <1>4, ConcatProperties DEF LaneTypes, RestTypes
  <2> HIDE DEF sent
  <2>4. <<ask>> \in Seq(Event)
    BY <2>1
  <2>5. sent \o <<ask>> \in Seq(Event)
    BY <2>3, <2>4, ConcatProperties
  <2> QED BY <2>1, <2>2, <2>3, <2>5
<1>8. /\ queue' \in Seq(Input) /\ Len(queue') <= MaxInputs
      /\ phase' \in Phases
      /\ pending' \in Request \cup {None} /\ Tried'
      /\ bypass' \in BOOLEAN /\ committed' \in Nat \cup {None} /\ told' \in BOOLEAN
      /\ faultKey' \in Keys \cup {None}
  <2>1. CASE Observed
    <3>1. /\ queue # <<>> /\ (queue' = queue \/ queue' = Tail(queue))
          /\ phase' = phase \/ phase' = Ready
          /\ pending' = None /\ committed' = None
          /\ UNCHANGED <<bypass, told, faultKey>>
      BY <2>1 DEF Progress, AckLane, Observed, Popped
    <3>2. queue' \in Seq(Input) /\ Len(queue') <= MaxInputs
      <4>1. /\ Tail(queue) \in Seq(Input) /\ Len(Tail(queue)) <= Len(queue)
            /\ Len(queue) \in Nat /\ Len(Tail(queue)) \in Nat
        BY <3>1, HeadInput, LenProperties DEF LaneTypes
      <4>2. queue \in Seq(Input) /\ Len(queue) <= MaxInputs
        BY DEF LaneTypes
      <4>3. CASE queue' = queue
        BY <4>2, <4>3
      <4>4. CASE queue' = Tail(queue)
        BY <4>1, <4>2, <4>4, WireAssumption
      <4> QED BY <3>1, <4>3, <4>4
    <3>3. phase' \in Phases
      BY <3>1, AtPhase, WireAssumption DEF LaneTypes
    <3> QED BY <3>1, <3>2, <3>3 DEF LaneTypes, Tried
  <2>2. CASE ~Observed
    BY <2>2 DEF Progress, AckLane, LaneTypes, Tried, lane, control
  <2> QED BY <2>1, <2>2
<1>9. LaneTypes'
  BY <1>1, <1>7, <1>8 DEF LaneTypes, document
<1>10. RestTypes'
  BY <1>1, <1>5, <1>7 DEF RestTypes
<1> QED BY <1>9, <1>10

LEMMA InteractedTypes ==
  ASSUME LaneTypes, pending # None, NEW t \in BOOLEAN, Interacted(t)
  PROVE  LaneTypes'
<1>1. /\ pending.id \in TxnId /\ pending.state \in DocRef
      /\ pending.id.attempt \in 0..MaxAttempts /\ doc.rev \in Nat
  BY DEF LaneTypes, Request, Doc, Tried
<1>2. phase' \in Phases
  <2>1. phase' \in {AwaitingGuest, Decision(pending.id.attempt), phase}
    BY DEF Interacted
  <2> QED BY <1>1, <2>1, AtPhase DEF LaneTypes
<1> DEFINE e == [type |-> "Interaction", id |-> pending.id, state |-> pending.state]
<1>3. e \in Event /\ (events' = Append(events, e) \/ events' = events)
  BY <1>1, ReportEvent DEF Interacted
<1> HIDE DEF e
<1>4. events' \in Seq(Event)
  BY <1>3, AppendProperties DEF LaneTypes
<1>5. committed' = doc.rev \/ committed' = committed
  BY DEF Interacted
<1> QED BY <1>1, <1>2, <1>4, <1>5 DEF Interacted, LaneTypes, Tried, document

LEMMA DecidedTypes ==
  ASSUME LaneTypes, RestTypes, serial' \in Nat, pending # None, queue # <<>>,
         NEW t \in BOOLEAN, Decided(t)
  PROVE  LaneTypes'
<1>1. CASE Defaulted(t)
  <2>1. phase' \in Phases
    <3>1. phase' = Faulted("Identity") \/ phase' = Ready
      BY <1>1 DEF Defaulted
    <3> QED BY <3>1, AtPhase, WireAssumption DEF Faults
  <2>2. bypass' \in BOOLEAN
    BY <1>1 DEF Defaulted
  <2> QED BY <1>1, <2>1, <2>2 DEF Defaulted, LaneTypes, Tried, document
<1>2. CASE Interacted(t)
  BY <1>2, InteractedTypes
<1>3. CASE /\ phase' = Faulted("Identity") /\ told' = t
           /\ UNCHANGED <<queue, pending, bypass, committed, faultKey, document, events>>
  <2>1. phase' \in Phases
    BY <1>3, AtPhase, WireAssumption DEF Faults
  <2> QED BY <1>3, <2>1 DEF LaneTypes, Tried, document
<1>4. CASE \E r \in Results : CommitEditor(r, t)
  BY <1>4, CommitTypes
<1> QED BY <1>1, <1>2, <1>3, <1>4 DEF Decided, Applied, Results

LEMMA AnswerTypes ==
  ASSUME LaneTypes, RestTypes, Answer
  PROVE  LaneTypes' /\ RestTypes'
<1>1. UNCHANGED <<turn, available, tree, serial, notes, transfers>>
  BY DEF Answer
<1>2. frame' \in Frame
  <2>1. frame \in Frame /\ frame.answers \in Seq(Response) /\ frame.answers # <<>>
    BY DEF Answer, RestTypes, Frame
  <2>2. Tail(frame.answers) \in Seq(Response)
    BY <2>1, HeadTailProperties
  <2>3. frame' = [frame EXCEPT !.answers = Tail(@)]
    BY DEF Answer
  <2> QED BY <2>1, <2>2, <2>3 DEF Frame
<1>3. RestTypes'
  BY <1>1, <1>2 DEF RestTypes, transfers
<1>4. serial' \in Nat /\ told \in BOOLEAN
  BY <1>1 DEF RestTypes, LaneTypes
<1>5. CASE UNCHANGED <<lane, control, document, events>>
  BY <1>3, <1>5 DEF LaneTypes, Tried, lane, control, document
<1>6. CASE Addressed /\ Conflict
  <2>1. CASE \E p \in {phase, Faulted("Timeout"), Faulted("Conflicts")} : Quietly(p)
    <3>1. phase' \in Phases
      <4>1. phase' = phase \/ phase' = Faulted("Timeout") \/ phase' = Faulted("Conflicts")
        BY <2>1 DEF Quietly
      <4>2. phase \in Phases
        BY DEF LaneTypes
      <4>3. Faulted("Timeout") \in Phases /\ Faulted("Conflicts") \in Phases
        BY AtPhase, WireAssumption DEF Faults
      <4> QED BY <4>1, <4>2, <4>3
    <3>2. UNCHANGED <<queue, control, document, events>>
      BY <2>1 DEF Quietly
    <3> QED BY <1>3, <3>1, <3>2 DEF LaneTypes, Tried, control, document
  <2>2. CASE phase.attempt < MaxAttempts /\ Retry
    BY <1>3, <1>6, <2>2, RetryTypes DEF Addressed
  <2> QED BY <1>6, <2>1, <2>2 DEF Conflict
<1>7. CASE Addressed /\ (Decided(FALSE) \/ Decided(told))
  <2>1. pending # None /\ queue # <<>>
    BY <1>7 DEF Addressed
  <2>2. LaneTypes'
    BY <1>4, <1>7, <2>1, DecidedTypes
  <2> QED BY <1>3, <2>2
<1> QED BY <1>5, <1>6, <1>7 DEF Answer

LEMMA EndTickTypes ==
  ASSUME LaneTypes, RestTypes, EndTick
  PROVE  LaneTypes' /\ RestTypes'
<1>1. UNCHANGED <<frame, available, tree, serial, notes, transfers>> /\ turn' = "host"
  BY DEF EndTick
<1>2. RestTypes'
  BY <1>1 DEF RestTypes, transfers
<1>3. CASE UNCHANGED <<lane, pending, bypass, committed, faultKey, document>>
           /\ EditorFault(told)
  <2>1. serial' \in Nat /\ told \in BOOLEAN
    BY <1>1 DEF RestTypes, LaneTypes
  <2>2. events' \in Seq(Event) /\ told' \in BOOLEAN
    BY <1>3, <2>1, FaultTypes
  <2> QED BY <1>2, <1>3, <2>2 DEF LaneTypes, Tried, lane, document
<1>4. CASE UNCHANGED <<lane, control, document, events>>
  BY <1>2, <1>4 DEF LaneTypes, Tried, lane, control, document
<1> QED BY <1>3, <1>4 DEF EndTick

LEMMA HostNextTypes ==
  ASSUME LaneTypes, RestTypes, HostNext
  PROVE  LaneTypes' /\ RestTypes'
<1>1. CASE BeginTick
  BY <1>1 DEF BeginTick, LaneTypes, RestTypes, Tried, host, lane, control, document, transfers
<1> QED BY <1>1, AdmitTypes, ReplayTypes, DeadlineTypes, AdoptTypes, DocumentsTypes,
           ProgressTypes, AnswerTypes, EndTickTypes DEF HostNext

-----------------------------------------------------------------------------
\* What an event carries, by its type.
LEMMA EventParts ==
  ASSUME NEW e \in Event
  PROVE  /\ e.type = "Request" =>
              /\ e.req \in Request /\ e.req.id \in TxnId /\ e.req.state \in DocRef
         /\ e.type = "Commit" =>
              /\ e.id \in TxnId /\ e.origin \in Kinds \cup {None}
              /\ e.before \in DocRef /\ e.after \in Doc /\ e.input \in Nat
         /\ e.type \in {"Interaction", "Fault", "Cancelled"} =>
              e.id \in TxnId /\ e.state \in DocRef
         /\ e.type \in {"Ask", "Part", "Acknowledged", "Failed"} =>
              e.id \in TransferId
         /\ e.type = "Ask" => e.target \in DocRef
         /\ e.type = "Part" =>
              e.part \in {"more", "last", "abort"} /\ e.text \in Nat \X Nat
<1>1. CASE e \in Document
  BY <1>1 DEF Document
<1>2. CASE e \in [type: {"Request"}, req: Request]
  BY <1>2 DEF Request
<1>3. CASE e \in [type: {"Commit"}, id: TxnId, origin: Kinds \cup {None},
                 before: DocRef, after: Doc, input: Nat]
  BY <1>3
<1>4. CASE e \in [type: {"Interaction", "Fault", "Cancelled"}, id: TxnId, state: DocRef]
  BY <1>4
<1> QED BY <1>1, <1>2, <1>3, <1>4 DEF Event

LEMMA ConsumeTypes ==
  ASSUME TypeOK, NEW type, Consume(type)
  PROVE  /\ WireTypeOK' /\ Head(events) \in Event
         /\ UNCHANGED program
<1>1. events \in Seq(Event) /\ events # <<>>
  BY DEF Consume, TypeOK, WireTypeOK
<1>2. Tail(events) \in Seq(Event) /\ Head(events) \in Event
  BY <1>1, HeadTailProperties
<1> QED BY <1>2 DEF Consume, TypeOK, WireTypeOK

\* The guest's variables, apart from the document and its clone.
SlotTypes ==
  /\ gpending \subseteq TxnId /\ outbox \in Seq(Response)
  /\ message \in Document \cup {None}
  /\ sender \in [id: TransferId, target: DocRef, stage: 0 .. TransferFrames]
                  \cup {None}
  /\ mirror \in [id: TransferId, target: DocRef] \cup {None}
  /\ heard \in Seq([what: {"Commit", "Interaction", "Fault", "Cancelled"},
                    id: TxnId, origin: Kinds \cup {None}, input: Nat])

LEMMA ReplacingType ==
  ASSUME gpending \subseteq TxnId, NEW id \in TxnId
  PROVE  Replacing(id) \subseteq TxnId
BY DEF Replacing

LEMMA AcknowledgeTypes ==
  ASSUME SlotTypes, NEW id \in TxnId, Acknowledge(id)
  PROVE  gpending' \subseteq TxnId /\ outbox' \in Seq(Response)
<1> DEFINE S == [id: TxnId \ {id}, answer: Answers]
<1>1. outbox' = Among(outbox, S)
  BY DEF Acknowledge
<1> HIDE DEF S
<1>2. outbox \in Seq(Response)
  BY DEF SlotTypes
<1>3. Among(outbox, S) \in Seq(Response \cap S)
  BY <1>2, AmongType
<1>4. outbox' \in Seq(Response)
  BY <1>1, <1>3, SeqMonotonic
<1> QED BY <1>4 DEF Acknowledge, SlotTypes

LEMMA HearTypes ==
  ASSUME SlotTypes, NEW what \in {"Commit", "Interaction", "Fault", "Cancelled"},
         NEW id \in TxnId, NEW o \in Kinds \cup {None}, NEW n \in Nat,
         Hear(what, id, o, n)
  PROVE  heard' \in Seq([what: {"Commit", "Interaction", "Fault", "Cancelled"},
                        id: TxnId, origin: Kinds \cup {None}, input: Nat])
<1> DEFINE h == [what |-> what, id |-> id, origin |-> o, input |-> n]
           H == [what: {"Commit", "Interaction", "Fault", "Cancelled"},
                 id: TxnId, origin: Kinds \cup {None}, input: Nat]
<1>1. h \in H /\ heard' = Append(heard, h) /\ heard \in Seq(H)
  BY DEF Hear, SlotTypes
<1> HIDE DEF h, H
<1>2. heard' \in Seq(H)
  BY <1>1, AppendProperties
<1> QED BY <1>2 DEF H

LEMMA SayTypes ==
  ASSUME SlotTypes, NEW m \in Document, Say(m)
  PROVE  message' \in Document \cup {None}
BY DEF SlotTypes, Say

LEMMA FinishTypes ==
  ASSUME SlotTypes, NEW id, Finish(id)
  PROVE  /\ sender' \in [id: TransferId, target: DocRef, stage: 0 .. TransferFrames]
                  \cup {None}
         /\ mirror' \in [id: TransferId, target: DocRef] \cup {None}
BY DEF SlotTypes, Finish

LEMMA AskMirrorTypes ==
  ASSUME SlotTypes, NEW req \in Request, AskMirror(req)
  PROVE  /\ gpending' \subseteq TxnId
         /\ message' \in Document \cup {None}
         /\ mirror' \in [id: TransferId, target: DocRef] \cup {None}
<1> DEFINE id == TransferOf(req.id)
<1>1. /\ id \in TransferId /\ req.state \in DocRef /\ req.id \in TxnId
      /\ Failed(id) \in Document /\ Ask(id, req.state) \in Document
  BY TransferOfType, DocumentTypes DEF Request
<1>2. CASE Say(Failed(id)) /\ UNCHANGED <<gpending, mirror>>
  BY <1>1, <1>2, SayTypes DEF SlotTypes
<1>3. CASE UNCHANGED <<message, gpending, mirror>>
  BY <1>3 DEF SlotTypes
<1>4. CASE /\ mirror' = [id |-> id, target |-> req.state]
           /\ gpending' = Replacing(req.id)
           /\ message' = Ask(id, req.state)
  BY <1>1, <1>4, ReplacingType DEF SlotTypes
<1> QED BY <1>2, <1>3, <1>4 DEF AskMirror

LEMMA AcceptRequestTypes ==
  ASSUME TypeOK, AcceptRequest PROVE WireTypeOK' /\ GuestTypeOK'
<1> DEFINE req == Head(events).req
<1>1. WireTypeOK' /\ Head(events) \in Event /\ UNCHANGED program
  BY ConsumeTypes DEF AcceptRequest
<1>2. Head(events).type = "Request"
  BY DEF AcceptRequest, Consume
<1>3. req \in Request /\ req.id \in TxnId
  BY <1>1, <1>2, EventParts
<1>4. SlotTypes
  BY DEF TypeOK, GuestTypeOK, SlotTypes
<1>5. /\ UNCHANGED <<editor, older, heard, sender>>
      /\ \/ /\ \E a \in Answers :
                  outbox' = Append(outbox, [id |-> req.id, answer |-> a])
            /\ gpending' = Replacing(req.id)
            /\ UNCHANGED <<message, mirror>>
         \/ AskMirror(req) /\ UNCHANGED outbox
         \/ UNCHANGED <<gpending, outbox, message, mirror>>
  BY DEF AcceptRequest
<1> HIDE DEF req
<1>6. CASE UNCHANGED <<gpending, outbox, message, mirror>>
  BY <1>1, <1>5, <1>6 DEF TypeOK, GuestTypeOK, program
<1>7. CASE AskMirror(req) /\ UNCHANGED outbox
  BY <1>1, <1>3, <1>4, <1>5, <1>7, AskMirrorTypes DEF TypeOK, GuestTypeOK, program
<1>8. ASSUME NEW a \in Answers, outbox' = Append(outbox, [id |-> req.id, answer |-> a]),
             gpending' = Replacing(req.id), UNCHANGED <<message, mirror>>
      PROVE  WireTypeOK' /\ GuestTypeOK'
  <2> DEFINE r == [id |-> req.id, answer |-> a]
  <2>1. r \in Response /\ outbox' = Append(outbox, r)
    BY <1>3, <1>8 DEF Response
  <2> HIDE DEF r
  <2>2. outbox' \in Seq(Response)
    BY <1>4, <2>1, AppendProperties DEF SlotTypes
  <2>3. gpending' \subseteq TxnId
    BY <1>3, <1>4, <1>8, ReplacingType DEF SlotTypes
  <2> QED BY <1>1, <1>5, <1>8, <2>2, <2>3 DEF TypeOK, GuestTypeOK, program
<1> QED BY <1>5, <1>6, <1>7, <1>8

LEMMA AcceptCommitTypes ==
  ASSUME TypeOK, AcceptCommit PROVE WireTypeOK' /\ GuestTypeOK'
<1> DEFINE e == Head(events)
<1>1. WireTypeOK' /\ e \in Event /\ UNCHANGED program
  BY ConsumeTypes DEF AcceptCommit
<1>2. e.type = "Commit"
  BY DEF AcceptCommit, Consume
<1>3. /\ e.id \in TxnId /\ e.origin \in Kinds \cup {None}
      /\ e.before \in DocRef /\ e.after \in Doc /\ e.input \in Nat
  BY <1>1, <1>2, EventParts
<1>4. SlotTypes
  BY DEF TypeOK, GuestTypeOK, SlotTypes
<1>5. /\ UNCHANGED <<message, sender, mirror>>
      /\ \/ /\ editor' = [e.after EXCEPT !.text =
                           IF e.after.trev = e.before.trev THEN editor.text ELSE @]
            /\ older' \in {older, editor}
            /\ Hear("Commit", e.id, e.origin, e.input)
            /\ Acknowledge(e.id)
         \/ UNCHANGED <<editor, older, heard, gpending, outbox>>
  BY DEF AcceptCommit
<1> HIDE DEF e
<1>6. CASE UNCHANGED <<editor, older, heard, gpending, outbox>>
  BY <1>1, <1>5, <1>6 DEF TypeOK, GuestTypeOK, program
<1>7. CASE /\ editor' = [e.after EXCEPT !.text =
                           IF e.after.trev = e.before.trev THEN editor.text ELSE @]
           /\ older' \in {older, editor}
           /\ Hear("Commit", e.id, e.origin, e.input)
           /\ Acknowledge(e.id)
  <2>1. editor' \in Doc /\ older' \in Doc
    BY <1>3, <1>7 DEF TypeOK, GuestTypeOK, Doc
  <2>2. gpending' \subseteq TxnId /\ outbox' \in Seq(Response)
    BY <1>3, <1>4, <1>7, AcknowledgeTypes
  <2>3. heard' \in Seq([what: {"Commit", "Interaction", "Fault", "Cancelled"},
                       id: TxnId, origin: Kinds \cup {None}, input: Nat])
    BY <1>3, <1>4, <1>7, HearTypes
  <2> QED BY <1>1, <1>5, <2>1, <2>2, <2>3 DEF TypeOK, GuestTypeOK, program
<1> QED BY <1>5, <1>6, <1>7

\* A report of the lane, and the decision it releases.
LEMMA AcceptReportTypes ==
  ASSUME TypeOK, NEW type \in {"Interaction", "Fault", "Cancelled"}, Consume(type),
         UNCHANGED <<editor, older, message>>,
         Finish(TransferOf(Head(events).id)) \/ UNCHANGED <<sender, mirror>>,
         \/ /\ Hear(type, Head(events).id, None, Head(events).id.seq)
               \/ UNCHANGED heard
            /\ Acknowledge(Head(events).id)
         \/ UNCHANGED <<heard, gpending, outbox>>
  PROVE  WireTypeOK' /\ GuestTypeOK'
<1> DEFINE e == Head(events)
<1>1. WireTypeOK' /\ e \in Event /\ UNCHANGED program
  BY ConsumeTypes
<1>2. e.type = type
  BY DEF Consume
<1>3. e.id \in TxnId /\ e.id.seq \in Nat
  BY <1>1, <1>2, EventParts DEF TxnId
<1>4. SlotTypes
  BY DEF TypeOK, GuestTypeOK, SlotTypes
<1> HIDE DEF e
<1>5. /\ sender' \in [id: TransferId, target: DocRef, stage: 0 .. TransferFrames]
                  \cup {None}
      /\ mirror' \in [id: TransferId, target: DocRef] \cup {None}
  BY <1>4, FinishTypes DEF SlotTypes
<1>6. gpending' \subseteq TxnId /\ outbox' \in Seq(Response)
  BY <1>3, <1>4, AcknowledgeTypes DEF SlotTypes, e
<1>7. heard' \in Seq([what: {"Commit", "Interaction", "Fault", "Cancelled"},
                     id: TxnId, origin: Kinds \cup {None}, input: Nat])
  <2>1. CASE UNCHANGED heard
    BY <1>4, <2>1 DEF SlotTypes
  <2>2. CASE Hear(type, e.id, None, e.id.seq)
    BY <1>3, <1>4, <2>2, HearTypes
  <2> QED BY <2>1, <2>2 DEF e
<1> QED BY <1>1, <1>5, <1>6, <1>7 DEF TypeOK, GuestTypeOK, program

LEMMA TransferTypes ==
  ASSUME TypeOK, StartTransfer \/ EndTransfer \/ ReceiveMirror
  PROVE  WireTypeOK' /\ GuestTypeOK'
<1> DEFINE e == Head(events)
<1>1. WireTypeOK' /\ e \in Event /\ UNCHANGED program
  BY ConsumeTypes DEF StartTransfer, EndTransfer, ReceiveMirror
<1>2. e.type \in {"Ask", "Acknowledged", "Failed", "Part"}
  BY DEF StartTransfer, EndTransfer, ReceiveMirror, Consume
<1>3. /\ e.id \in TransferId /\ (e.type = "Ask" => e.target \in DocRef)
      /\ e.type = "Part" => e.text \in Nat \X Nat
  BY <1>1, <1>2, EventParts
<1>4. SlotTypes /\ editor \in Doc /\ older \in Doc
  BY DEF TypeOK, GuestTypeOK, SlotTypes
<1>5. Failed(e.id) \in Document /\ Acknowledged(e.id) \in Document
  BY <1>3, DocumentTypes
<1>6. CASE StartTransfer
  <2>1. e.type = "Ask" /\ UNCHANGED <<editor, older, heard, gpending, outbox, mirror>>
    BY <1>6 DEF StartTransfer, Consume
  <2>2. \/ Say(Failed(e.id)) /\ UNCHANGED sender
        \/ /\ sender' = IF sender # None THEN sender
                         ELSE [id |-> e.id, target |-> e.target, stage |-> 0]
           /\ UNCHANGED message
    BY <1>6 DEF StartTransfer
  <2> HIDE DEF e
  <2>3. message' \in Document \cup {None}
    BY <1>4, <1>5, <2>2, SayTypes DEF SlotTypes
  <2>4. sender' \in [id: TransferId, target: DocRef, stage: 0 .. TransferFrames]
                     \cup {None}
    BY <1>3, <1>4, <2>1, <2>2, WireAssumption DEF SlotTypes
  <2> QED BY <1>1, <2>1, <2>3, <2>4 DEF TypeOK, GuestTypeOK, program
<1>7. CASE EndTransfer
  <2>1. Finish(e.id) /\ UNCHANGED <<editor, older, heard, gpending, outbox, message>>
    BY <1>7 DEF EndTransfer
  <2> HIDE DEF e
  <2> QED BY <1>1, <1>4, <2>1, FinishTypes DEF TypeOK, GuestTypeOK, program
<1>8. CASE ReceiveMirror
  <2>1. e.type = "Part" /\ UNCHANGED <<heard, gpending, outbox, sender>>
    BY <1>8 DEF ReceiveMirror, Consume
  <2>2. message' = message \/ Say(Failed(e.id)) \/ Say(Acknowledged(e.id))
    BY <1>8 DEF ReceiveMirror
  <2>3. /\ mirror' = mirror \/ mirror' = None
        /\ \/ editor' = editor /\ older' = older
           \/ /\ mirror # None
              /\ editor' = [reset |-> mirror.target.reset,
                            trev |-> mirror.target.trev,
                            rev |-> mirror.target.rev, text |-> e.text]
              /\ older' \in {older, editor}
    BY <1>8 DEF ReceiveMirror
  <2> HIDE DEF e
  <2>4. message' \in Document \cup {None}
    BY <1>4, <1>5, <2>2, SayTypes DEF SlotTypes
  <2>5. mirror' \in [id: TransferId, target: DocRef] \cup {None}
    BY <1>4, <2>3 DEF SlotTypes
  <2>6. editor' \in Doc /\ older' \in Doc
    BY <1>3, <1>4, <2>1, <2>3 DEF SlotTypes, Doc, DocRef
  <2> QED BY <1>1, <2>1, <2>4, <2>5, <2>6 DEF TypeOK, GuestTypeOK, program
<1> QED BY <1>6, <1>7, <1>8

LEMMA ProgramTypes ==
  ASSUME TypeOK, Replace \/ MoveTo \/ Rollback \/ Remount \/ FlipEditable
  PROVE  WireTypeOK' /\ GuestTypeOK'
<1>1. UNCHANGED <<wire, slots, heard>>
  BY DEF Replace, MoveTo, Rollback, Remount, FlipEditable, Program
<1>2. editor' \in Doc /\ older' \in Doc
  <2>1. editor \in Doc /\ older \in Doc /\ editor.reset + 1 \in Nat
    BY DEF TypeOK, GuestTypeOK, Doc
  <2>2. CASE Replace
    BY <2>1, <2>2 DEF Replace, Doc
  <2>3. CASE MoveTo
    BY <2>1, <2>3 DEF MoveTo, Doc
  <2>4. CASE Rollback \/ Remount \/ FlipEditable
    BY <2>1, <2>4 DEF Rollback, Remount, FlipEditable
  <2> QED BY <2>2, <2>3, <2>4
<1>3. mounted' \subseteq Keys /\ writable' \in BOOLEAN
      /\ budget' \in [flips: 0 .. ReadOnlyFlips, rollbacks: 0 .. Rollbacks,
                     remounts: 0 .. Remounts]
  <2>1. /\ budget \in [flips: 0 .. ReadOnlyFlips, rollbacks: 0 .. Rollbacks,
                       remounts: 0 .. Remounts]
        /\ mounted \subseteq Keys /\ writable \in BOOLEAN
    BY DEF TypeOK, GuestTypeOK
  <2>2. CASE Replace \/ MoveTo
    BY <2>1, <2>2 DEF Replace, MoveTo, program
  <2>3. CASE Rollback
    <3>1. budget.rollbacks - 1 \in 0 .. Rollbacks
      BY <2>1, <2>3, GuestAssumption DEF Rollback
    <3> QED BY <2>1, <2>3, <3>1 DEF Rollback
  <2>4. CASE Remount
    <3>1. budget.remounts - 1 \in 0 .. Remounts
      BY <2>1, <2>4, GuestAssumption DEF Remount
    <3> QED BY <2>1, <2>4, <3>1 DEF Remount
  <2>5. CASE FlipEditable
    <3>1. budget.flips - 1 \in 0 .. ReadOnlyFlips
      BY <2>1, <2>5, GuestAssumption DEF FlipEditable
    <3> QED BY <2>1, <2>5, <3>1 DEF FlipEditable
  <2> QED BY <2>2, <2>3, <2>4, <2>5
<1> QED BY <1>1, <1>2, <1>3 DEF TypeOK, WireTypeOK, GuestTypeOK, wire, slots

LEMMA ViewTypes ==
  ASSUME TypeOK, View
  PROVE  WireTypeOK' /\ GuestTypeOK'
<1>1. /\ editor \in Doc /\ Ref(editor) \in DocRef /\ editor.text \in Nat \X Nat
      /\ mounted \subseteq Keys /\ writable \in BOOLEAN
      /\ outbox \in Seq(Response) /\ message \in Document \cup {None}
      /\ sender \in [id: TransferId, target: DocRef, stage: 0 .. TransferFrames]
                  \cup {None}
  BY RefType DEF TypeOK, GuestTypeOK, Doc
<1>2. Sending => NextPart \in Document
  <2>1. \A p \in {"more", "last", "abort"} :
          Sending => Part(sender.id, p, editor.text) \in Document
    BY <1>1, DocumentTypes DEF Sending
  <2> QED BY <2>1 DEF NextPart
<1>3. PICK held, tasks \in BOOLEAN :
        /\ frame' = [tree |-> [keys |-> mounted, editable |-> writable,
                              ref |-> Ref(editor)],
                     answers |-> IF held THEN <<>> ELSE outbox,
                     message |-> IF Sending THEN NextPart ELSE message,
                     busy |-> held \/ tasks]
        /\ outbox' = IF held THEN outbox ELSE <<>>
  BY DEF View
<1>4. frame' \in Frame
  <2>1. [keys |-> mounted, editable |-> writable, ref |-> Ref(editor)] \in Tree
    BY <1>1 DEF Tree
  <2>2. (IF held THEN <<>> ELSE outbox) \in Seq(Response)
    BY <1>1
  <2>3. (IF Sending THEN NextPart ELSE message) \in Document \cup {None}
    BY <1>1, <1>2
  <2> HIDE DEF Sending, NextPart
  <2> QED BY <1>3, <2>1, <2>2, <2>3 DEF Frame
<1>5. outbox' \in Seq(Response)
  BY <1>1, <1>3
<1>6. sender' \in [id: TransferId, target: DocRef, stage: 0 .. TransferFrames]
                  \cup {None}
  <2>1. CASE ~Sending
    BY <1>1, <2>1 DEF View
  <2>2. CASE Sending
    <3>1. sender.stage + 1 \in 0..TransferFrames /\ TransferFrames \in 0..TransferFrames
      BY <1>1, <2>2, WireAssumption DEF Sending
    <3>2. sender' = [sender EXCEPT !.stage = sender.stage + 1]
          \/ sender' = [sender EXCEPT !.stage = TransferFrames]
      BY <2>2 DEF View
    <3> QED BY <1>1, <2>2, <3>1, <3>2 DEF Sending
  <2> QED BY <2>1, <2>2
<1>7. turn' = "adopt" /\ message' = None
      /\ UNCHANGED <<events, editor, older, program, gpending, mirror, heard>>
  BY DEF View
<1> QED BY <1>4, <1>5, <1>6, <1>7 DEF TypeOK, WireTypeOK, GuestTypeOK, program

LEMMA GuestNextTypes ==
  ASSUME TypeOK, GuestNext
  PROVE  WireTypeOK' /\ GuestTypeOK'
<1>1. CASE AcceptInteraction
  <2>1. Consume("Interaction") /\ UNCHANGED <<editor, older, message, sender, mirror>>
    BY <1>1 DEF AcceptInteraction
  <2>2. \/ /\ Hear("Interaction", Head(events).id, None, Head(events).id.seq)
           /\ Acknowledge(Head(events).id)
        \/ UNCHANGED <<heard, gpending, outbox>>
    BY <1>1 DEF AcceptInteraction
  <2> QED BY <2>1, <2>2, AcceptReportTypes
<1>2. CASE AcceptFault
  <2>1. Consume("Fault") /\ UNCHANGED <<editor, older, message>>
        /\ Finish(TransferOf(Head(events).id))
    BY <1>2 DEF AcceptFault
  <2>2. \/ /\ Hear("Fault", Head(events).id, None, Head(events).id.seq)
           /\ Acknowledge(Head(events).id)
        \/ UNCHANGED <<heard, gpending, outbox>>
    BY <1>2 DEF AcceptFault
  <2> QED BY <2>1, <2>2, AcceptReportTypes
<1>3. CASE AcceptCancelled
  <2>1. Consume("Cancelled") /\ UNCHANGED <<editor, older, message>>
        /\ Finish(TransferOf(Head(events).id))
    BY <1>3 DEF AcceptCancelled
  <2>2. \/ /\ Hear("Cancelled", Head(events).id, None, Head(events).id.seq)
              \/ UNCHANGED heard
           /\ Acknowledge(Head(events).id)
        \/ UNCHANGED <<heard, gpending, outbox>>
    BY <1>3 DEF AcceptCancelled
  <2> QED BY <2>1, <2>2, AcceptReportTypes
<1> QED BY <1>1, <1>2, <1>3, AcceptRequestTypes, AcceptCommitTypes, TransferTypes,
           ProgramTypes, ViewTypes DEF GuestNext, GuestEvent

Typed == TypeOK /\ Tried

LEMMA InitTyped == Init => Typed
<1> SUFFICES ASSUME Init PROVE Typed
  OBVIOUS
<1>1. WireTypeOK
  <2>1. NoTree \in Tree
    BY DEF NoTree, Tree, NoRef, DocRef
  <2> QED BY <2>1 DEF Init, WireInit, WireTypeOK, NoFrame, Frame
<1>2. HostTypeOK /\ Tried
  <2>1. NoTree \in Tree
    BY DEF NoTree, Tree, NoRef, DocRef
  <2>2. Ready \in Phases /\ Fresh(0) \in Doc
    BY AtPhase, FreshType, WireAssumption
  <2>3. queue \in Seq(Input) /\ Len(queue) <= MaxInputs /\ notes \in Seq(Event)
    BY WireAssumption DEF Init, HostInit
  <2>4. phase \in Phases /\ pending = None /\ doc \in Doc /\ tree \in Tree
        /\ serial \in Nat /\ edRev \in Nat
    BY <2>1, <2>2 DEF Init, HostInit
  <2> QED BY <2>3, <2>4 DEF Init, HostInit, HostTypeOK, Phases, Tried
<1>3. GuestTypeOK
  BY GuestAssumption DEF Init, GuestInit, GuestTypeOK, Doc
<1> QED BY <1>1, <1>2, <1>3 DEF Typed, TypeOK

LEMMA StepTyped == Typed /\ [Next]_vars => Typed'
<1> SUFFICES ASSUME Typed, [Next]_vars PROVE Typed'
  OBVIOUS
<1>1. CASE HostNext /\ UNCHANGED guest
  <2>1. GuestTypeOK'
    BY <1>1 DEF Typed, TypeOK, GuestTypeOK, guest, program, slots
  <2>2. LaneTypes' /\ RestTypes'
    BY <1>1, HostTypes, HostNextTypes DEF Typed, TypeOK
  <2> QED BY <2>1, <2>2, HostTypes DEF Typed, TypeOK
<1>2. CASE GuestNext /\ UNCHANGED host
  <2>1. WireTypeOK' /\ GuestTypeOK'
    BY <1>2, GuestNextTypes DEF Typed
  <2>2. HostTypeOK' /\ Tried'
    BY <1>2 DEF Typed, TypeOK, HostTypeOK, Tried, host, lane, control, document, transfers
  <2> QED BY <2>1, <2>2 DEF Typed, TypeOK
<1>3. CASE UNCHANGED vars
  BY <1>3 DEF Typed, TypeOK, WireTypeOK, HostTypeOK, GuestTypeOK, Tried, vars, wire, host,
    guest, lane, control, document, transfers, program, slots
<1> QED BY <1>1, <1>2, <1>3 DEF Next

\* Every variable of the host, the guest and the wire between them keeps its
\* type whatever the program and the user do, the lane holds at most
\* MAX_INPUTS inputs, and no request is asked more often than MAX_ATTEMPTS.
THEOREM TypeCorrect == Spec => []TypeOK
<1>1. Typed => TypeOK
  BY DEF Typed
<1> QED BY <1>1, InitTyped, StepTyped, PTL DEF Spec

-----------------------------------------------------------------------------
(***************************************************************************)
(* The epochs of a document and its input.                                 *)
(***************************************************************************)
\* A lane holds inputs only for a document that is loaded in the epoch its
\* widgets render.
Epochs ==
  /\ queue # <<>> => available
  /\ available => loaded /\ tree.keys # {} /\ doc.reset = tree.ref.reset

\* The transfer under way carries the document the tree renders.
Targeted ==
  incoming # None => tree.keys # {} /\ incoming.target = tree.ref

\* The document is a record of its four fields.
Shaped ==
  doc = [reset |-> doc.reset, trev |-> doc.trev, rev |-> doc.rev,
         text |-> doc.text]

IInv == Epochs /\ Targeted /\ Shaped

-----------------------------------------------------------------------------
(***************************************************************************)
(* What the building blocks of the host's actions leave alone.             *)
(***************************************************************************)

\* A failing lane keeps its inputs and its document.
LEMMA FailFrame ==
  ASSUME NEW f, NEW t, Fail(f, t)
  PROVE  queue' = queue /\ doc' = doc /\ loaded' = loaded
BY DEF Fail, document

\* A commit keeps the lane's inputs, and the epoch of its document.
LEMMA CommitFrame ==
  ASSUME NEW r, NEW t, CommitEditor(r, t), Shaped
  PROVE  /\ queue' = queue /\ loaded' = loaded
         /\ doc'.reset = doc.reset /\ Shaped'
<1>1. CASE Fail("Identity", t) \/ Fail("Overflow", t)
  BY <1>1, FailFrame DEF Shaped
<1>2. CASE doc' = After(r) /\ UNCHANGED <<queue, loaded>>
  <2>1. doc' = After(r) /\ queue' = queue /\ loaded' = loaded
    BY <1>2
  <2> QED BY <2>1 DEF After, Shaped
<1> QED BY <1>1, <1>2 DEF CommitEditor

\* So does a request asked again.
LEMMA RetryFrame ==
  ASSUME Retry
  PROVE  queue' = queue /\ doc' = doc /\ loaded' = loaded
BY DEF Retry, document

-----------------------------------------------------------------------------
(***************************************************************************)
(* The strengthening is inductive.                                         *)
(***************************************************************************)
LEMMA InitIInv == Init => IInv
BY DEF Init, HostInit, Fresh, IInv, Epochs, Targeted, Shaped

\* A widget runs only for an available document, and leaves it available.
LEMMA WidgetStep ==
  ASSUME IInv, Widget, UNCHANGED loaded, doc'.reset = doc.reset, Shaped'
  PROVE  IInv'
BY DEF Widget, transfers, IInv, Epochs, Targeted

\* A step that keeps the inputs, the tree and the epoch keeps the invariant.
LEMMA KeptStep ==
  ASSUME IInv, Shaped', queue' = queue \/ available,
         UNCHANGED <<loaded, available, tree, incoming>>, doc'.reset = doc.reset
  PROVE  IInv'
BY DEF IInv, Epochs, Targeted

LEMMA AdoptStep ==
  ASSUME IInv, Adopt
  PROVE  IInv'
<1> USE DEF IInv
<1>1. tree' = New /\ available' = Available
  BY DEF Adopt
<1>2. Epochs'
  <2>1. available' => loaded' /\ tree'.keys # {} /\ doc'.reset = tree'.ref.reset
    BY <1>1 DEF Available
  <2>2. queue' # <<>> => available'
    <3> SUFFICES ASSUME queue' # <<>> PROVE available'
      OBVIOUS
    <3>1. ~NewEpoch
      BY DEF Adopt, AdoptLane, Releases
    <3>2. queue # <<>>
      BY <3>1, AmongEmpty DEF Adopt, AdoptLane, Kept
    <3>3. loaded' = loaded /\ doc' = doc
      BY <3>1, <3>2 DEF Adopt, AdoptControl, NewEpoch, Epochs
    <3> QED BY <1>1, <3>1, <3>2, <3>3 DEF Available, NewEpoch, Epochs
  <2> QED BY <2>1, <2>2 DEF Epochs
<1>3. Targeted'
  <2>1. CASE incoming' = Fetch /\ tree'.keys # {}
    BY <2>1 DEF Fetch, Targeted
  <2>2. CASE incoming' = IF incoming # None /\ Stale(incoming.target) THEN None
                         ELSE incoming
    BY <2>2, <1>1 DEF Stale, Targeted
  <2> QED BY <2>1, <2>2 DEF Adopt, Wanted
<1>4. Shaped'
  BY DEF Adopt, AdoptControl, Fresh, Shaped
<1> QED BY <1>2, <1>3, <1>4

LEMMA DocumentsStep ==
  ASSUME IInv, Documents
  PROVE  IInv'
<1> USE DEF document, lane
<1>0. tree' = tree
  BY DEF Documents
<1>1. CASE Ignore \/ RequestMirror
  <2>1. UNCHANGED <<queue, doc, loaded, available, incoming>>
    BY <1>1 DEF Ignore, RequestMirror, transfers
  <2> QED BY <1>0, <2>1, KeptStep DEF IInv, Shaped
<1>2. CASE MirrorFailed
  <2>1. UNCHANGED <<queue, doc, loaded, available, incoming>>
    BY <1>2, FailFrame DEF MirrorFailed, lane, document
  <2> QED BY <1>0, <2>1, KeptStep DEF IInv, Shaped
<1>3. CASE MirrorInstalled
  <2>1. UNCHANGED <<queue, doc, loaded, available, incoming>>
    BY <1>3, FailFrame, RetryFrame DEF MirrorInstalled
  <2> QED BY <1>0, <2>1, KeptStep DEF IInv, Shaped
<1>4. CASE Abandon
  BY <1>0, <1>4 DEF Abandon, IInv, Epochs, Targeted, Shaped
<1>5. CASE Install /\ incoming # None
  BY <1>0, <1>5 DEF Install, IInv, Epochs, Targeted, Shaped
<1> QED BY <1>1, <1>2, <1>3, <1>4, <1>5 DEF Documents, Incoming

LEMMA AnswerStep ==
  ASSUME IInv, Answer
  PROVE  IInv'
<1>1. UNCHANGED <<available, tree, incoming>>
  BY DEF Answer, transfers
<1>2. queue' = queue /\ loaded' = loaded /\ doc'.reset = doc.reset /\ Shaped'
  <2>1. CASE UNCHANGED <<lane, control, document, events>>
    BY <2>1 DEF lane, document, IInv, Shaped
  <2>2. CASE Conflict
    BY <2>2, RetryFrame DEF Conflict, Quietly, document, IInv, Shaped
  <2>3. ASSUME NEW t, Decided(t) PROVE
          queue' = queue /\ loaded' = loaded /\ doc'.reset = doc.reset /\ Shaped'
    <3>1. CASE \E r : CommitEditor(r, t)
      BY <3>1, CommitFrame DEF IInv
    <3>2. CASE UNCHANGED <<queue, document>>
      BY <3>2 DEF document, IInv, Shaped
    <3>3. CASE Defaulted(t)
      BY <3>3, <3>2 DEF Defaulted
    <3>4. CASE Interacted(t)
      BY <3>4, <3>2 DEF Interacted
    <3>5. CASE Applied(t)
      BY <3>5, <3>1, <3>2 DEF Applied
    <3> QED BY <2>3, <3>1, <3>3, <3>4, <3>5 DEF Decided
  <2> QED BY <2>1, <2>2, <2>3 DEF Answer
<1> QED BY <1>1, <1>2, KeptStep

LEMMA HostStep ==
  ASSUME IInv, HostNext
  PROVE  IInv'
<1>1. ASSUME NEW k \in Keys, NEW kind \in Kinds, Admit(k, kind) PROVE IInv'
  BY <1>1, WidgetStep DEF Admit, document, IInv, Shaped
<1>2. ASSUME NEW k \in Keys, Replay(k) PROVE IInv'
  <2>1. Widget
    BY <1>2 DEF Replay
  <2>2. CASE \E r, t : CommitEditor(r, t)
    BY <2>1, <2>2, CommitFrame, WidgetStep DEF IInv
  <2>3. CASE Pop \/ \E in : Requested(in)
    <3>1. doc' = doc /\ loaded' = loaded
      BY <2>3 DEF Pop, Requested, document
    <3> QED BY <2>1, <3>1, WidgetStep DEF IInv, Shaped
  <2> QED BY <1>2, <2>2, <2>3 DEF Replay
<1>3. CASE Deadline
  <2>1. Widget /\ doc' = doc /\ loaded' = loaded
    BY <1>3, FailFrame DEF Deadline
  <2> QED BY <2>1, WidgetStep DEF IInv, Shaped
<1>4. CASE BeginTick
  BY <1>4, KeptStep DEF BeginTick, host, lane, document, transfers, IInv, Shaped
<1>5. CASE Progress
  <2>1. /\ UNCHANGED <<doc, loaded, available, tree>>
        /\ queue # <<>> \/ queue' = queue
    BY <1>5 DEF Progress, AckLane, Observed, document, lane
  <2>2. Targeted'
    BY <1>5, <2>1 DEF Progress, Wanted, Fetch, IInv, Targeted
  <2> QED BY <2>1, <2>2 DEF IInv, Epochs, Shaped
<1>6. CASE EndTick
  <2>1. UNCHANGED <<queue, doc, loaded, available, tree, incoming>>
    BY <1>6 DEF EndTick, lane, document, transfers
  <2> QED BY <2>1, KeptStep DEF IInv, Shaped
<1> QED BY <1>1, <1>2, <1>3, <1>4, <1>5, <1>6, AdoptStep, DocumentsStep,
           AnswerStep DEF HostNext

LEMMA StepIInv == IInv /\ [Next]_vars => IInv'
<1> SUFFICES ASSUME IInv, [Next]_vars PROVE IInv'
  OBVIOUS
<1>1. CASE HostNext
  BY <1>1, HostStep
<1>2. CASE UNCHANGED host
  BY <1>2, KeptStep DEF host, lane, document, transfers, IInv, Shaped
<1> QED BY <1>1, <1>2 DEF Next, vars

\* What Epochs relies on holds in every step of a tick.
THEOREM Invariance == Spec => []IInv
BY InitIInv, StepIInv, PTL DEF Spec

\* No input admitted in one epoch of a document is still queued in another:
\* adopt never keeps the queue of a document it lets go.
THEOREM InputsStayInEpochCorrect == Spec => []InputsStayInEpoch
<1>1. IInv => InputsStayInEpoch
  BY DEF IInv, Epochs, InputsStayInEpoch
<1> QED BY <1>1, Invariance, PTL

-----------------------------------------------------------------------------
(***************************************************************************)
(* No silent fault.                                                        *)
(***************************************************************************)
Reported == told \/ FaultOwner(queue, faultKey) \notin tree.keys

\* editor_fault reports, unless it has before or the owner is gone.
LEMMA FaultReports ==
  ASSUME EditorFault(told), queue' = queue, tree' = tree
  PROVE  Reported'
<1>1. CASE told
  BY <1>1 DEF EditorFault, Reported
<1>2. CASE FaultOwner(queue, faultKey') \notin tree.keys
  BY <1>2 DEF FaultOwner, Reported
<1>3. CASE ~told /\ FaultOwner(queue, faultKey') \in tree.keys
  <2>1. FaultEvents(queue, faultKey', told) # <<>>
    BY <1>3 DEF FaultEvents
  <2> QED BY <2>1 DEF EditorFault, Reported
<1> QED BY <1>1, <1>2, <1>3

\* A commit either faults and reports, or leaves the lane without a fault.
LEMMA CommitReports ==
  ASSUME NEW r, CommitEditor(r, told), tree' = tree
  PROVE  IsFaulted(phase') => Reported'
<1>1. CASE Fail("Identity", told) \/ Fail("Overflow", told)
  BY <1>1, FaultReports DEF Fail
<1>2. CASE phase' = AwaitingGuest
  BY <1>2 DEF AwaitingGuest, IsFaulted, Faults
<1> QED BY <1>1, <1>2 DEF CommitEditor

LEMMA WidgetReports ==
  ASSUME NoSilentFault, AtRest, Widget,
         \/ \E k \in Keys, kind \in Kinds : Admit(k, kind)
         \/ \E k \in Keys : Replay(k)
         \/ Deadline
  PROVE  NoSilentFault'
<1>0. tree' = tree
  BY DEF Widget
<1>1. ASSUME NEW k \in Keys, NEW kind \in Kinds, Admit(k, kind)
      PROVE  IsFaulted(phase') => Reported'
  <2>1. CASE Admissible /\ phase' = phase
    BY <2>1 DEF Admissible
  <2>2. CASE EditorFault(told) /\ queue' = queue
    BY <2>2, <1>0, FaultReports
  <2> QED BY <1>1, <2>1, <2>2 DEF Admit
<1>2. ASSUME NEW k \in Keys, Replay(k)
      PROVE  IsFaulted(phase') => Reported'
  <2>1. CASE \E r : CommitEditor(r, told)
    BY <2>1, <1>0, CommitReports
  <2>2. CASE Pop
    BY <2>2 DEF Pop, Ready, IsFaulted, Faults
  <2>3. CASE \E in : Requested(in)
    <3>1. phase' = Decision(1)
      BY <2>3 DEF Requested
    <3> QED BY <3>1 DEF Decision, IsFaulted, Faults
  <2> QED BY <1>2, <2>1, <2>2, <2>3 DEF Replay
<1>3. ASSUME Deadline PROVE Reported'
  BY <1>0, <1>3, FaultReports DEF Deadline, Fail
<1> QED BY <1>1, <1>2, <1>3 DEF NoSilentFault, Reported

LEMMA SweepReports ==
  ASSUME EndTick
  PROVE  NoSilentFault'
<1>0. tree' = tree /\ queue' = queue
  BY DEF EndTick, lane
<1>1. CASE Swept
  BY <1>0, <1>1, FaultReports DEF EndTick, NoSilentFault, Reported
<1>2. CASE ~Swept
  BY <1>2 DEF EndTick, Swept, lane, NoSilentFault
<1> QED BY <1>1, <1>2

LEMMA StepReports == NoSilentFault /\ [Next]_vars => NoSilentFault'
<1> SUFFICES ASSUME NoSilentFault, [Next]_vars PROVE NoSilentFault'
  OBVIOUS
<1> USE DEF AtRest, NoSilentFault
<1>1. ASSUME NEW k \in Keys, NEW kind \in Kinds, Admit(k, kind)
      PROVE  NoSilentFault'
  <2>1. Widget /\ AtRest
    BY <1>1 DEF Admit, Widget
  <2> QED BY <1>1, <2>1, WidgetReports
<1>2. ASSUME NEW k \in Keys, Replay(k) PROVE NoSilentFault'
  <2>1. Widget /\ AtRest
    BY <1>2 DEF Replay, Widget
  <2> QED BY <1>2, <2>1, WidgetReports
<1>3. CASE Deadline
  <2>1. Widget /\ AtRest
    BY <1>3 DEF Deadline, Widget
  <2> QED BY <1>3, <2>1, WidgetReports
<1>4. CASE BeginTick \/ Adopt \/ Documents \/ Progress \/ Answer
  BY <1>4 DEF BeginTick, Adopt, Documents, Progress, Answer
<1>5. CASE EndTick
  BY <1>5, SweepReports
<1>6. CASE GuestNext
  BY <1>6 DEF GuestNext, GuestEvent, Replace, MoveTo, Rollback, Remount,
       FlipEditable, Program, wire, Consume, View, AcceptRequest, AcceptCommit,
       AcceptInteraction, AcceptFault, AcceptCancelled, StartTransfer,
       EndTransfer, ReceiveMirror
<1>7. CASE UNCHANGED vars
  BY <1>7 DEF vars, wire, host, lane, control, FaultOwner
<1> QED BY <1>1, <1>2, <1>3, <1>4, <1>5, <1>6, <1>7 DEF Next, HostNext

\* A lane whose input cannot go on always tells the program so, as long as
\* the widget that owns the input is rendered.
THEOREM NoSilentFaultCorrect == Spec => []NoSilentFault
<1>1. Init => NoSilentFault
  BY DEF Init, HostInit, Ready, NoSilentFault, IsFaulted, Faults
<1> QED BY <1>1, StepReports, PTL DEF Spec

-----------------------------------------------------------------------------
(***************************************************************************)
(* Events under way.                                                       *)
(***************************************************************************)

\* Events of these types are added behind those already under way.
Adds(types) ==
  /\ Len(events) <= Len(events')
  /\ \A i \in 1..Len(events) : events'[i] = events[i]
  /\ \A i \in 1..Len(events') : i > Len(events) => events'[i].type \in types

\* What reports on a transaction or a transfer and changes no document.
Quiet == {"Fault", "Failed"}

LEMMA AddsNothing ==
  ASSUME NEW types, events \in Seq(Event), events' = events PROVE Adds(types)
BY DEF Adds

LEMMA AddsOne ==
  ASSUME NEW types, events \in Seq(Event), NEW e \in Event, e.type \in types,
         events' = Append(events, e)
  PROVE  /\ Adds(types) /\ events' \in Seq(Event)
         /\ Len(events') = Len(events) + 1 /\ events'[Len(events) + 1] = e
<1>1. /\ events' \in Seq(Event) /\ Len(events') = Len(events) + 1
      /\ \A i \in 1..Len(events) : events'[i] = events[i]
      /\ events'[Len(events) + 1] = e /\ Len(events) \in Nat
  BY AppendProperties, LenProperties
<1> QED BY <1>1 DEF Adds

LEMMA AddsSequence ==
  ASSUME NEW types, events \in Seq(Event), NEW s \in Seq(Event),
         \A i \in 1..Len(s) : s[i].type \in types,
         events' = events \o s
  PROVE  Adds(types)
<1>1. /\ Len(events') = Len(events) + Len(s)
      /\ \A i \in 1..(Len(events) + Len(s)) :
           events'[i] = IF i <= Len(events) THEN events[i] ELSE s[i - Len(events)]
      /\ Len(events) \in Nat /\ Len(s) \in Nat
  BY ConcatProperties, LenProperties
<1> QED BY <1>1 DEF Adds

\* What is added is not of another type, and nothing under way is lost.
LEMMA AddsKeeps ==
  ASSUME NEW types, NEW others, types \cap others = {}, Adds(types),
         events \in Seq(Event), events' \in Seq(Event)
  PROVE  /\ \A i \in DOMAIN events' :
              events'[i].type \in others => i \in DOMAIN events /\ events'[i] = events[i]
         /\ \A i \in DOMAIN events : i \in DOMAIN events' /\ events'[i] = events[i]
<1>1. /\ DOMAIN events = 1..Len(events) /\ DOMAIN events' = 1..Len(events')
      /\ Len(events) \in Nat /\ Len(events') \in Nat
  BY LenProperties
<1> QED BY <1>1 DEF Adds

LEMMA AddsInFlight ==
  ASSUME NEW types, NEW t, t \notin types, Adds(types),
         events \in Seq(Event), events' \in Seq(Event)
  PROVE  InFlight(t)' = InFlight(t)
<1>1. types \cap {t} = {}
  OBVIOUS
<1>2. /\ \A i \in DOMAIN events' :
              events'[i].type \in {t} => i \in DOMAIN events /\ events'[i] = events[i]
      /\ \A i \in DOMAIN events : i \in DOMAIN events' /\ events'[i] = events[i]
  BY <1>1, AddsKeeps
<1>3. ASSUME NEW e, e \in InFlight(t)' PROVE e \in InFlight(t)
  BY <1>2, <1>3 DEF InFlight, Events
<1>4. ASSUME NEW e, e \in InFlight(t) PROVE e \in InFlight(t)'
  BY <1>2, <1>4 DEF InFlight, Events
<1> QED BY <1>3, <1>4

\* One event added is under way with those there were.
LEMMA AddsToFlight ==
  ASSUME NEW t, events \in Seq(Event), NEW e \in Event, events' = Append(events, e)
  PROVE  InFlight(t)' = IF e.type = t THEN InFlight(t) \cup {e} ELSE InFlight(t)
<1>1. /\ events' \in Seq(Event) /\ Len(events') = Len(events) + 1
      /\ \A i \in 1..Len(events) : events'[i] = events[i]
      /\ events'[Len(events) + 1] = e
      /\ DOMAIN events = 1..Len(events) /\ DOMAIN events' = 1..Len(events')
      /\ Len(events) \in Nat
  BY AppendProperties, LenProperties
<1>2. Events' = Events \cup {e}
  <2>1. ASSUME NEW x, x \in Events' PROVE x \in Events \cup {e}
    <3>1. PICK i \in 1..(Len(events) + 1) : x = events'[i]
      BY <1>1, <2>1 DEF Events
    <3>2. CASE i = Len(events) + 1
      BY <1>1, <3>1, <3>2
    <3>3. CASE i \in 1..Len(events)
      BY <1>1, <3>1, <3>3 DEF Events
    <3> QED BY <1>1, <3>2, <3>3
  <2>2. ASSUME NEW x, x \in Events \cup {e} PROVE x \in Events'
    <3>1. CASE x = e
      <4>1. Len(events) + 1 \in DOMAIN events'
        BY <1>1
      <4> QED BY <1>1, <3>1, <4>1 DEF Events
    <3>2. CASE x \in Events
      <4>1. PICK i \in 1..Len(events) : x = events[i]
        BY <1>1, <3>2 DEF Events
      <4>2. i \in DOMAIN events' /\ events'[i] = x
        BY <1>1, <4>1
      <4> QED BY <4>2 DEF Events
    <3> QED BY <2>2, <3>1, <3>2
  <2> QED BY <2>1, <2>2
<1> QED BY <1>2 DEF InFlight

\* One event is taken from the front.
LEMMA TakesOne ==
  ASSUME events \in Seq(Event), events # <<>>, events' = Tail(events)
  PROVE  /\ Head(events) = events[1] /\ 1 \in DOMAIN events /\ Head(events) \in Event
         /\ Head(events) \in Events
         /\ \A i \in DOMAIN events' : i + 1 \in DOMAIN events /\ events'[i] = events[i + 1]
         /\ Events' \subseteq Events /\ Events \subseteq Events' \cup {Head(events)}
<1>1. /\ Len(events) \in Nat /\ Len(events) > 0 /\ Head(events) = events[1]
      /\ Len(events') = Len(events) - 1
      /\ \A i \in 1..(Len(events) - 1) : events'[i] = events[i + 1]
      /\ DOMAIN events = 1..Len(events) /\ DOMAIN events' = 1..(Len(events) - 1)
      /\ Head(events) \in Event
  BY HeadTailProperties, LenProperties, EmptySeq
<1>2. 1 \in DOMAIN events
  BY <1>1
<1>3. \A i \in DOMAIN events' : i + 1 \in DOMAIN events /\ events'[i] = events[i + 1]
  BY <1>1
<1>4. ASSUME NEW x, x \in Events PROVE x \in Events' \cup {Head(events)}
  <2>1. PICK i \in 1..Len(events) : x = events[i]
    BY <1>1, <1>4 DEF Events
  <2>2. CASE i = 1
    BY <1>1, <2>1, <2>2
  <2>3. CASE i # 1
    <3>1. i - 1 \in DOMAIN events' /\ events'[i - 1] = x
      BY <1>1, <2>1, <2>3
    <3> QED BY <3>1 DEF Events
  <2> QED BY <2>2, <2>3
<1>5. Head(events) \in Events
  BY <1>1, <1>2 DEF Events
<1>6. Events' \subseteq Events
  BY <1>3 DEF Events
<1> QED BY <1>1, <1>2, <1>3, <1>4, <1>5, <1>6

-----------------------------------------------------------------------------
(***************************************************************************)
(* What a step of the host does to the lane, its document and its events.  *)
(***************************************************************************)
LaneKept == UNCHANGED <<queue, pending, bypass, committed, doc, loaded, edRev>>
HostKept ==
  /\ UNCHANGED <<available, tree, notes>>
  /\ incoming' \in {incoming, None}
  /\ serial' \in Nat /\ serial <= serial'

\* Nothing, but for a fault or a decision that is waited for again.
Stays ==
  /\ LaneKept /\ HostKept /\ Adds(Quiet)
  /\ \/ phase' \in {phase, Faulted("Identity"), Faulted("Overflow")}
     \/ phase.at = "Decision" /\ phase' \in {Faulted("Timeout"), Faulted("Conflicts")}
     \/ /\ phase.at = "Timeout" /\ pending # None
        /\ phase' = Decision(pending.id.attempt)
Enters(in) ==   \* an input is queued
  /\ in.seq = serial + 1 /\ in.key \in tree.keys /\ available
  /\ queue' = Append(queue, in) /\ serial' = serial + 1
  /\ UNCHANGED <<phase, pending, bypass, committed, doc, loaded, edRev, events,
                 available, tree, notes, incoming>>
Requests(in) ==   \* the oldest input becomes a request
  /\ turn = "host" /\ queue # <<>> /\ in = Head(queue) /\ phase = Ready /\ available
  /\ (in.kind = "key" /\ ~bypass) \/ in.kind = "click"
  /\ Requested(in) /\ HostKept /\ serial' = serial
Retries ==        \* and is asked again
  /\ phase.at = "Decision" /\ pending # None
  /\ \/ outgoing # None
     \/ doc.rev # pending.id.rev \/ doc.trev # pending.id.trev
  /\ Retry /\ HostKept /\ serial' = serial
Moving == {"Ready", "Decision", "Timeout"}
Commits(result) ==   \* it changes the document
  /\ queue # <<>> /\ phase.at \in Moving /\ available
  /\ turn = "host" => phase = Ready
  /\ phase' = AwaitingGuest
  /\ doc' = After(result) /\ edRev' = edRev + 1
  /\ committed' = edRev + 1 /\ bypass' = FALSE
  /\ events' = Append(events, CommitEvent(result))
  /\ UNCHANGED <<queue, pending, loaded>> /\ HostKept /\ serial' = serial
Drops ==          \* it does nothing
  /\ queue # <<>> /\ phase = Ready
  /\ pending = None \/ ~tree.editable
  /\ queue' = Tail(queue) /\ phase' = Ready
  /\ UNCHANGED <<pending, bypass, committed, doc, loaded, edRev, events>>
  /\ HostKept /\ serial' = serial
Defaults ==       \* it is left to the native editor
  /\ turn = "decide" /\ pending # None /\ pending.kind # "click" /\ phase.at \in Moving
  /\ phase' = Ready /\ bypass' = TRUE
  /\ UNCHANGED <<queue, pending, committed, doc, loaded, edRev, events>>
  /\ HostKept /\ serial' = serial
Gestures ==       \* it is a gesture the guest hears of
  /\ turn = "decide" /\ pending # None /\ pending.kind = "click" /\ phase.at \in Moving
  /\ queue # <<>> /\ Head(queue).seq = pending.id.seq
  /\ phase' = AwaitingGuest /\ committed' = doc.rev
  /\ events' = Append(events, [type |-> "Interaction", id |-> pending.id,
                              state |-> pending.state])
  /\ UNCHANGED <<queue, pending, bypass, doc, loaded, edRev>>
  /\ HostKept /\ serial' = serial
Installs ==       \* the document arrives
  /\ turn = "documents" /\ Message # None /\ Message.type = "Part"
  /\ Message.part = "last" /\ Incoming(Message.id) /\ Install
  /\ UNCHANGED <<tree, notes, serial>>

\* editor_fault adds at most a fault.
LEMMA QuietFault ==
  ASSUME LaneTypes, RestTypes, NEW t \in BOOLEAN, EditorFault(t), serial' \in Nat
  PROVE  Adds(Quiet)
<1> DEFINE f == [type |-> "Fault", id |-> FaultId(queue), state |-> Ref(doc)]
<1>1. events \in Seq(Event) /\ events' \in Seq(Event)
  BY FaultTypes DEF LaneTypes
<1>2. events' = events \o <<>> \/ events' = events \o <<f>>
  BY DEF EditorFault, FaultEvents
<1>3. CASE events' = events \o <<>>
  BY <1>1, <1>3, AddsNothing
<1>4. CASE events' = events \o <<f>>
  <2>1. f.type = "Fault" /\ "Fault" \in Quiet
    BY DEF Quiet
  <2> HIDE DEF f
  <2>2. events' = Append(events, f)
    BY <1>1, <1>4
  <2>3. Len(events') = Len(events) + 1 /\ events'[Len(events) + 1] = f
        /\ \A i \in 1..Len(events) : events'[i] = events[i]
    BY <1>1, <2>2
  <2> QED BY <1>1, <2>1, <2>3, LenProperties DEF Adds
<1> QED BY <1>2, <1>3, <1>4

LEMMA FailStays ==
  ASSUME LaneTypes, RestTypes, NEW f \in Faults, NEW t \in BOOLEAN, Fail(f, t), HostKept
  PROVE  /\ f \in {"Identity", "Overflow"} => Stays
         /\ f \in {"Timeout", "Conflicts"} /\ phase.at = "Decision" => Stays
<1>1. LaneKept
  BY DEF Fail, LaneKept, document
<1>2. Adds(Quiet)
  BY QuietFault DEF Fail, HostKept
<1> QED BY <1>1, <1>2 DEF Fail, Stays

LEMMA CommitCases ==
  ASSUME LaneTypes, RestTypes, NEW r \in Results, NEW t \in BOOLEAN, CommitEditor(r, t),
         queue # <<>>, phase.at \in Moving, available, HostKept, serial' = serial,
         turn = "host" => phase = Ready
  PROVE  Stays \/ Commits(r)
<1>1. CASE Fail("Identity", t)
  BY <1>1, FailStays DEF Faults
<1>2. CASE Fail("Overflow", t)
  BY <1>2, FailStays DEF Faults
<1>3. CASE phase' = AwaitingGuest /\ ~Fail("Identity", t) /\ ~Fail("Overflow", t)
  BY <1>3 DEF CommitEditor, Commits
<1> QED BY <1>1, <1>2, <1>3 DEF CommitEditor

LEMMA WidgetKeeps ==
  ASSUME Widget, serial' \in Nat, serial <= serial' PROVE HostKept
BY DEF Widget, HostKept, transfers

LEMMA AdmitCases ==
  ASSUME LaneTypes, RestTypes, NEW k \in Keys, NEW kind \in Kinds, Admit(k, kind)
  PROVE  Stays \/ \E in \in Input : Enters(in)
<1>1. HostKept /\ serial' \in Nat
  BY WidgetKeeps DEF Admit, RestTypes
<1>2. CASE /\ Admissible
           /\ queue' = Append(queue, [seq |-> serial + 1, key |-> k, kind |-> kind])
           /\ UNCHANGED <<phase, told, faultKey, events>>
  <2> DEFINE in == [seq |-> serial + 1, key |-> k, kind |-> kind]
  <2>1. in \in Input /\ in.seq = serial + 1 /\ in.key = k
    BY DEF RestTypes, Input
  <2>2. queue' = Append(queue, in)
    BY <1>2
  <2> HIDE DEF in
  <2>3. Enters(in)
    BY <1>2, <2>1, <2>2 DEF Admit, Enters, Widget, transfers, document
  <2> QED BY <2>1, <2>3
<1>3. CASE /\ phase' = IF IsFaulted(phase) THEN phase ELSE Faulted("Overflow")
           /\ EditorFault(told)
           /\ UNCHANGED queue
  <2>1. LaneKept
    BY <1>3 DEF Admit, LaneKept, document
  <2>2. Adds(Quiet)
    BY <1>1, <1>3, QuietFault DEF LaneTypes
  <2>3. phase' \in {phase, Faulted("Identity"), Faulted("Overflow")}
    BY <1>3
  <2> QED BY <1>1, <2>1, <2>2, <2>3 DEF Stays
<1> QED BY <1>2, <1>3 DEF Admit

LEMMA ReplayCases ==
  ASSUME LaneTypes, RestTypes, NEW k \in Keys, Replay(k)
  PROVE  Stays \/ Drops \/ Requests(Head(queue)) \/ \E r \in Results : Commits(r)
<1>1. /\ HostKept /\ serial' = serial /\ available /\ queue # <<>> /\ phase = Ready
      /\ turn = "host" /\ phase.at \in Moving /\ told \in BOOLEAN
  BY WidgetKeeps DEF Replay, RestTypes, LaneTypes, Widget, Ready, Moving
<1>2. CASE /\ Requested(Head(queue))
           /\ \/ Head(queue).kind = "key" /\ ~bypass
              \/ Head(queue).kind = "click"
  BY <1>1, <1>2 DEF Requests
<1>3. CASE \E r \in Results : CommitEditor(r, told)
  BY <1>1, <1>3, CommitCases
<1>4. CASE Pop /\ (pending = None \/ ~tree.editable)
  BY <1>1, <1>4 DEF Pop, Drops, control, document
<1> QED BY <1>2, <1>3, <1>4 DEF Replay, Results

LEMMA DocumentsCases ==
  ASSUME LaneTypes, RestTypes, Documents
  PROVE  Stays \/ Retries \/ Installs
<1>1. /\ turn = "documents" /\ UNCHANGED <<tree, serial, notes>> /\ serial' \in Nat
      /\ serial <= serial' /\ told \in BOOLEAN /\ events \in Seq(Event)
  BY DEF Documents, RestTypes, LaneTypes
<1>2. ASSUME LaneKept, phase' = phase, UNCHANGED available, incoming' \in {incoming, None},
             NEW e \in Event, e.type \in Quiet,
             events' = events \/ events' = Append(events, e)
      PROVE  Stays
  <2>1. Adds(Quiet)
    BY <1>1, <1>2, AddsNothing, AddsOne
  <2> QED BY <1>1, <1>2, <2>1 DEF Stays, HostKept
<1>3. CASE Ignore
  <2>1. LaneKept /\ phase' = phase /\ UNCHANGED <<available, incoming, events>>
    BY <1>3 DEF Ignore, LaneKept, lane, control, document, transfers
  <2>2. Adds(Quiet)
    BY <1>1, <2>1, AddsNothing
  <2> QED BY <1>1, <2>1, <2>2 DEF Stays, HostKept
<1>4. CASE Message # None /\ Message.type = "Ask" /\ RequestMirror
  <2> DEFINE e == Failed(Message.id)
  <2>1. Message.id \in TransferId
    BY <1>4 DEF RestTypes, Message, Frame, Document
  <2>2. e \in Event /\ e.type \in Quiet
    BY <2>1, DocumentTypes DEF Failed, Quiet
  <2>3. events' = events \/ events' = Append(events, e)
    BY <1>4 DEF RequestMirror
  <2>4. LaneKept /\ phase' = phase /\ UNCHANGED <<available, incoming>>
    BY <1>4 DEF RequestMirror, LaneKept, lane, control, document
  <2> HIDE DEF e
  <2> QED BY <1>2, <2>2, <2>3, <2>4
<1>5. CASE MirrorFailed
  <2>1. HostKept
    BY <1>1, <1>5 DEF MirrorFailed, HostKept
  <2>2. CASE Fail("Identity", told)
    BY <1>1, <2>1, <2>2, FailStays DEF Faults
  <2>3. CASE UNCHANGED <<lane, control, document, events>>
    <3>1. LaneKept /\ phase' = phase /\ Adds(Quiet)
      BY <1>1, <2>3, AddsNothing DEF LaneKept, lane, control, document
    <3> QED BY <2>1, <3>1 DEF Stays
  <2> QED BY <1>5, <2>2, <2>3 DEF MirrorFailed
<1>6. CASE MirrorInstalled /\ outgoing # None
  <2>1. HostKept
    BY <1>1, <1>6 DEF MirrorInstalled, HostKept
  <2>2. CASE UNCHANGED <<lane, pending, bypass, committed, faultKey, document>>
             /\ EditorFault(told)
    <3>1. LaneKept /\ phase' = phase
      BY <2>2 DEF LaneKept, lane, document
    <3>2. Adds(Quiet)
      BY <1>1, <2>2, QuietFault
    <3> QED BY <2>1, <3>1, <3>2 DEF Stays
  <2>3. CASE phase.at = "Decision" /\ (Fail("Timeout", told) \/ Fail("Conflicts", told))
    BY <1>1, <2>1, <2>3, FailStays DEF Faults
  <2>4. CASE phase.at = "Decision" /\ pending # None /\ Retry
    BY <1>1, <1>6, <2>1, <2>4 DEF Retries
  <2>5. CASE UNCHANGED <<lane, control, document, events>>
    <3>1. LaneKept /\ phase' = phase
      BY <2>5 DEF LaneKept, lane, control, document
    <3>2. Adds(Quiet)
      BY <1>1, <2>5, AddsNothing
    <3> QED BY <2>1, <3>1, <3>2 DEF Stays
  <2> QED BY <1>6, <2>2, <2>3, <2>4, <2>5 DEF MirrorInstalled
<1>7. CASE /\ Message # None /\ Message.type = "Part" /\ Message.part = "last"
           /\ Incoming(Message.id) /\ Install
  BY <1>1, <1>7 DEF Installs
<1>8. CASE incoming # None /\ Abandon
  <2> DEFINE e == Failed(incoming.id)
  <2>1. e \in Event /\ e.type \in Quiet
    BY <1>8, DocumentTypes DEF Failed, Quiet, RestTypes
  <2>2. events' = Append(events, e)
    BY <1>8 DEF Abandon
  <2>3. LaneKept /\ phase' = phase /\ UNCHANGED available /\ incoming' = None
    BY <1>8 DEF Abandon, LaneKept, lane, control, document
  <2> HIDE DEF e
  <2> QED BY <1>2, <2>1, <2>2, <2>3
<1> QED BY <1>3, <1>4, <1>5, <1>6, <1>7, <1>8 DEF Documents, Incoming, Outgoing

LEMMA AnswerCases ==
  ASSUME LaneTypes, RestTypes, Answer, queue # <<>> => available
  PROVE  Stays \/ Retries \/ Defaults \/ Gestures \/ \E r \in Results : Commits(r)
<1>1. /\ HostKept /\ serial' = serial /\ told \in BOOLEAN /\ events \in Seq(Event)
      /\ serial' \in Nat /\ turn = "decide"
  BY DEF Answer, HostKept, RestTypes, LaneTypes, transfers
<1>2. CASE UNCHANGED <<lane, control, document, events>>
  <2>1. LaneKept /\ phase' = phase
    BY <1>2 DEF LaneKept, lane, control, document
  <2>2. Adds(Quiet)
    BY <1>1, <1>2, AddsNothing
  <2> QED BY <1>1, <2>1, <2>2 DEF Stays
<1>3. CASE Addressed /\ Conflicting /\ Conflict
  <2>1. ASSUME UNCHANGED <<queue, control, document, events>>,
               \/ phase' = phase
               \/ /\ phase.at = "Decision"
                  /\ phase' \in {Faulted("Timeout"), Faulted("Conflicts")}
        PROVE  Stays
    <3>1. LaneKept /\ events' = events
      BY <2>1 DEF LaneKept, control, document
    <3>2. Adds(Quiet)
      BY <1>1, <3>1, AddsNothing
    <3> QED BY <1>1, <2>1, <3>1, <3>2 DEF Stays
  <2>2. CASE phase.at = "Decision" /\ Retry
    BY <1>1, <1>3, <2>2 DEF Retries, Addressed, Conflicting
  <2>3. CASE \/ Quietly(phase)
             \/ /\ phase.at = "Decision"
                /\ Quietly(Faulted("Timeout")) \/ Quietly(Faulted("Conflicts"))
    BY <2>1, <2>3 DEF Quietly
  <2> QED BY <1>3, <2>2, <2>3 DEF Conflict
<1>4. ASSUME NEW t \in BOOLEAN, Addressed, Decided(t), phase.at \in Moving
      PROVE  Stays \/ Defaults \/ Gestures \/ \E r \in Results : Commits(r)
  <2>1. pending # None /\ queue # <<>> /\ available
    BY <1>4 DEF Addressed
  <2>2. CASE Defaulted(t)
    <3>1. CASE Clicked
      <4>1. LaneKept /\ phase' = Faulted("Identity") /\ events' = events
        BY <2>2, <3>1, <2>1 DEF Defaulted, LaneKept, document, LaneTypes
      <4>2. Adds(Quiet)
        BY <1>1, <4>1, AddsNothing
      <4> QED BY <1>1, <4>1, <4>2 DEF Stays
    <3>2. CASE ~Clicked
      BY <1>1, <1>4, <2>1, <2>2, <3>2 DEF Defaulted, Defaults, Clicked, document
    <3> QED BY <3>1, <3>2
  <2>3. CASE Interacted(t) /\ Head(queue).seq = pending.id.seq
    BY <1>1, <1>4, <2>1, <2>3 DEF Interacted, Gestures, Clicked, document
  <2>4. CASE Interacted(t) /\ Head(queue).seq # pending.id.seq
    <3>1. LaneKept /\ events' = events
          /\ phase' = IF IsFaulted(phase) THEN Decision(pending.id.attempt) ELSE phase
      BY <2>4 DEF Interacted, LaneKept, document
    <3>2. IsFaulted(phase) => phase.at = "Timeout"
      BY <1>4 DEF IsFaulted, Faults, Moving
    <3>3. Adds(Quiet)
      BY <1>1, <3>1, AddsNothing
    <3> QED BY <1>1, <2>1, <3>1, <3>2, <3>3 DEF Stays
  <2>5. CASE /\ phase' = Faulted("Identity") /\ told' = t
             /\ UNCHANGED <<queue, pending, bypass, committed, faultKey, document, events>>
    <3>1. LaneKept
      BY <2>5 DEF LaneKept, document
    <3>2. Adds(Quiet)
      BY <1>1, <2>5, AddsNothing
    <3> QED BY <1>1, <2>5, <3>1, <3>2 DEF Stays
  <2>6. CASE \E r \in Results : CommitEditor(r, t)
    BY <1>1, <1>4, <2>1, <2>6, CommitCases
  <2> QED BY <1>4, <2>2, <2>3, <2>4, <2>5, <2>6 DEF Decided, Applied, Results
<1> QED BY <1>1, <1>2, <1>3, <1>4 DEF Answer, Moving

\* Every step of the host between two frames.
LEMMA HostCases ==
  ASSUME LaneTypes, RestTypes, queue # <<>> => available, HostNext
  PROVE  \/ Adopt \/ Progress
         \/ Stays \/ Retries \/ Installs \/ Drops \/ Defaults \/ Gestures
         \/ Requests(Head(queue)) \/ (\E in \in Input : Enters(in))
         \/ \E r \in Results : Commits(r)
<1>1. /\ events \in Seq(Event) /\ told \in BOOLEAN /\ serial \in Nat
  BY DEF LaneTypes, RestTypes
<1>2. CASE Deadline
  <2>1. HostKept
    BY <1>1, <1>2, WidgetKeeps DEF Deadline
  <2> QED BY <1>1, <1>2, <2>1, FailStays DEF Deadline, Faults
<1>3. CASE BeginTick
  <2>1. LaneKept /\ HostKept /\ phase' = phase /\ events' = events
    BY <1>1, <1>3 DEF BeginTick, LaneKept, HostKept, host, lane, control, document, transfers
  <2> QED BY <1>1, <2>1, AddsNothing DEF Stays
<1>4. CASE EndTick
  <2>1. LaneKept /\ HostKept /\ phase' = phase /\ serial' \in Nat
    BY <1>1, <1>4 DEF EndTick, LaneKept, HostKept, lane, control, document, transfers
  <2>2. Adds(Quiet)
    BY <1>1, <1>4, <2>1, QuietFault, AddsNothing DEF EndTick
  <2> QED BY <2>1, <2>2 DEF Stays
<1> QED BY <1>2, <1>3, <1>4, AdmitCases, ReplayCases, DocumentsCases, AnswerCases DEF HostNext

-----------------------------------------------------------------------------
(***************************************************************************)
(* The lane, between the steps of a tick.                                  *)
(***************************************************************************)
RefOf(id) == [reset |-> id.reset, trev |-> id.trev, rev |-> id.rev]
Stopped == {"AwaitingGuest", "Overflow", "Identity"}
Asking == {"Ready", "Decision", "Timeout", "Conflicts"}

\* Where a frame is taken in: the events of the last tick are gone, the
\* messages of adopt are not yet sent, and the tree names the Editor's epoch.
Turns ==
  /\ turn \in {"adopt", "documents"} => events = <<>>
  /\ turn = "mirror" => InFlight("Commit") = {}
  /\ turn \notin {"documents", "mirror"} => notes = <<>>
  /\ \A i \in DOMAIN notes : notes[i].type \in {"Cancelled", "Failed", "Ask"}
  /\ turn = "adopt" => frame.tree.ref = Ref(editor)
  /\ turn \notin {"guest", "adopt"} => tree.ref = Ref(editor)
  /\ tree.ref.reset <= editor.reset /\ older.reset = editor.reset

\* A document is available exactly when it is loaded in the epoch of its
\* widgets, and only then there is a request about it.
Opened ==
  /\ available <=> tree.keys # {} /\ loaded /\ doc.reset = tree.ref.reset
  /\ loaded => tree.keys # {}
  /\ doc.reset <= tree.ref.reset /\ doc.rev <= edRev
  /\ incoming # None => ~available
  /\ pending # None => available

\* The lane counts the attempts of its request, and waits for the guest only
\* once it has committed.
Phasing ==
  /\ phase.at \in Asking => committed = None
  /\ phase.at = "Decision" /\ pending # None => phase.attempt = pending.id.attempt

\* A request names the document it is about, which stays as it is until the
\* request is decided; it was sent for the oldest input or for an older one,
\* and an input whose request is decided is not asked about again.
Posed ==
  pending # None =>
    /\ pending.state = RefOf(pending.id) /\ pending.kind # "text"
    /\ pending.id.seq <= serial
    /\ phase.at \in Asking => pending.state = Ref(doc)
    /\ queue # <<>> => pending.id.seq <= Head(queue).seq
    /\ queue # <<>> /\ Head(queue).seq = pending.id.seq =>
         /\ Head(queue).kind = pending.kind
         /\ phase.at = "Ready" => bypass /\ pending.kind = "key"

\* Inputs are queued in the order of their numbers, for widgets of the tree.
Queued ==
  /\ \A i, j \in DOMAIN queue : i < j => queue[i].seq < queue[j].seq
  /\ \A i \in DOMAIN queue : queue[i].seq <= serial /\ queue[i].key \in tree.keys

\* One commit is under way at a time, behind every request; it is the commit
\* of the oldest input and leads to the canonical document, and the lane does
\* not move until the guest has had it.
CommitLast ==
  \A i, j \in DOMAIN events :
    events[i].type = "Commit" /\ events[j].type \in {"Commit", "Request"} => j <= i
Flying ==
  \A c \in InFlight("Commit") :
    /\ loaded /\ phase.at \in Stopped /\ queue # <<>> /\ c.input = Head(queue).seq
    /\ c.after = doc /\ c.before = RefOf(c.id)
    /\ c.before.reset = doc.reset /\ c.before.rev < doc.rev
    /\ c.before.trev <= doc.trev
    /\ IF pending = None THEN c.id.seq = c.input ELSE c.id = pending.id

\* The guest has heard of no input that is still to be played.
Heard ==
  \A i \in DOMAIN heard : heard[i].what = "Commit" =>
    /\ heard[i].input <= serial
    /\ queue # <<>> => heard[i].input <= Head(queue).seq
    /\ queue # <<>> /\ (phase.at \in Moving \/ InFlight("Commit") # {})
         => heard[i].input < Head(queue).seq

-----------------------------------------------------------------------------
LEMMA TypedParts == Typed => LaneTypes /\ RestTypes /\ LaneTypes /\ GuestTypeOK
BY HostTypes DEF Typed, TypeOK

LEMMA Fields ==
  ASSUME Typed
  PROVE  /\ events \in Seq(Event) /\ queue \in Seq(Input) /\ doc \in Doc /\ serial \in Nat
         /\ edRev \in Nat /\ doc.reset \in Nat /\ doc.trev \in Nat /\ doc.rev \in Nat
         /\ Ref(doc) \in DocRef /\ tree \in Tree /\ tree.ref \in DocRef
         /\ tree.ref.reset \in Nat /\ editor \in Doc /\ editor.reset \in Nat
         /\ editor.trev \in Nat /\ editor.rev \in Nat
         /\ notes \in Seq(Event)
         /\ pending # None => /\ pending \in Request /\ pending.id \in TxnId
                              /\ pending.id.seq \in Nat /\ pending.id.attempt \in Nat
                              /\ pending.kind \in Kinds /\ pending.state \in DocRef
<1>1. LaneTypes /\ RestTypes /\ GuestTypeOK
  BY TypedParts
<1>2. Ref(doc) \in DocRef
  BY <1>1, RefType DEF LaneTypes
<1>3. tree \in Tree /\ tree.ref \in DocRef /\ tree.ref.reset \in Nat
  BY <1>1 DEF RestTypes, Tree, DocRef
<1> QED BY <1>1, <1>2, <1>3 DEF LaneTypes, RestTypes, GuestTypeOK, Doc, Request, TxnId

LEMMA FieldsNext ==
  ASSUME Typed'
  PROVE  /\ events' \in Seq(Event) /\ queue' \in Seq(Input) /\ serial' \in Nat
         /\ edRev' \in Nat /\ doc' \in Doc
BY DEF Typed, TypeOK, WireTypeOK, HostTypeOK

LEMMA SeqParts ==
  ASSUME NEW T, NEW s \in Seq(T)
  PROVE  /\ Len(s) \in Nat /\ DOMAIN s = 1..Len(s) /\ \A i \in 1..Len(s) : s[i] \in T
         /\ s = <<>> <=> Len(s) = 0
         /\ s # <<>> => Head(s) = s[1] /\ Len(s) > 0 /\ Head(s) \in T
OBVIOUS

LEMMA SeqTail ==
  ASSUME NEW T, NEW s \in Seq(T), s # <<>>
  PROVE  /\ Tail(s) \in Seq(T) /\ Len(Tail(s)) = Len(s) - 1
         /\ \A i \in 1..(Len(s) - 1) : Tail(s)[i] = s[i + 1]
OBVIOUS

LEMMA SeqAppend ==
  ASSUME NEW T, NEW s \in Seq(T), NEW x \in T
  PROVE  /\ Append(s, x) \in Seq(T) /\ Len(Append(s, x)) = Len(s) + 1
         /\ \A i \in 1..Len(s) : Append(s, x)[i] = s[i]
         /\ Append(s, x)[Len(s) + 1] = x
OBVIOUS

LEMMA InputNumber == \A in \in Input : in.seq \in Nat /\ in.key \in Keys /\ in.kind \in Kinds
BY DEF Input

LEMMA QueueHead ==
  ASSUME queue \in Seq(Input), queue # <<>>
  PROVE  /\ Head(queue) = queue[1] /\ 1 \in DOMAIN queue /\ Len(queue) \in Nat
         /\ DOMAIN queue = 1..Len(queue) /\ queue[1].seq \in Nat
BY SeqParts, InputNumber

\* Without the oldest input, or with a new one, the queue is still in order.
LEMMA QueuedTail ==
  ASSUME Typed, Queued, queue # <<>>, queue' = Tail(queue), serial <= serial',
         serial' \in Nat, tree' = tree
  PROVE  Queued' /\ (queue' # <<>> => Head(queue).seq < Head(queue').seq)
<1>1. /\ queue \in Seq(Input) /\ Len(queue) \in Nat /\ Len(queue) > 0
      /\ queue' \in Seq(Input) /\ Len(queue') = Len(queue) - 1 /\ Head(queue) = queue[1]
      /\ \A i \in 1..(Len(queue) - 1) : queue'[i] = queue[i + 1]
      /\ DOMAIN queue = 1..Len(queue) /\ DOMAIN queue' = 1..(Len(queue) - 1)
      /\ \A i \in 1..Len(queue) : queue[i].seq \in Nat
  BY Fields, SeqParts, SeqTail, InputNumber
<1>2. queue' # <<>> => Head(queue') = queue[2] /\ Len(queue) > 1
  BY <1>1, SeqParts
<1>3. serial \in Nat
  BY Fields
<1>4. Queued'
  <2>1. \A i, j \in 1..Len(queue) : i < j => queue[i].seq < queue[j].seq
    BY <1>1 DEF Queued
  <2>2. \A i \in 1..Len(queue) : queue[i].seq <= serial' /\ queue[i].key \in tree'.keys
    BY <1>1, <1>3 DEF Queued
  <2>3. \A i \in 1..(Len(queue) - 1) : i + 1 \in 1..Len(queue)
    BY <1>1
  <2> QED BY <1>1, <2>1, <2>2, <2>3 DEF Queued
<1>5. queue' # <<>> => Head(queue).seq < Head(queue').seq
  BY <1>1, <1>2 DEF Queued
<1> QED BY <1>4, <1>5

LEMMA QueuedAppend ==
  ASSUME Typed, Queued, NEW in \in Input, in.seq = serial + 1, in.key \in tree.keys,
         queue' = Append(queue, in), serial' = serial + 1, tree' = tree
  PROVE  /\ Queued' /\ queue' # <<>>
         /\ Head(queue') = IF queue = <<>> THEN in ELSE Head(queue)
<1>1. /\ queue \in Seq(Input) /\ Len(queue) \in Nat
      /\ queue' \in Seq(Input) /\ Len(queue') = Len(queue) + 1
      /\ \A i \in 1..Len(queue) : queue'[i] = queue[i]
      /\ queue'[Len(queue) + 1] = in
      /\ DOMAIN queue = 1..Len(queue) /\ DOMAIN queue' = 1..(Len(queue) + 1)
      /\ \A i \in 1..Len(queue) : queue[i].seq \in Nat
  BY Fields, SeqParts, SeqAppend, InputNumber
<1>2. queue' # <<>> /\ Head(queue') = queue'[1]
  BY <1>1, SeqParts
<1>3. queue # <<>> => Head(queue) = queue[1] /\ Len(queue) > 0
  BY <1>1, SeqParts
<1>4. queue = <<>> => Len(queue) = 0
  OBVIOUS
<1>5. serial \in Nat
  BY Fields
<1>6. Queued'
  BY <1>1, <1>5 DEF Queued
<1> QED BY <1>1, <1>2, <1>3, <1>4, <1>6

\* What adopt keeps of the queue is in order, for the widgets that are left.
LEMMA QueuedKept ==
  ASSUME Typed, Queued, NEW n \in Nat, serial <= n
  PROVE  /\ Kept \in Seq(Input)
         /\ \A i, j \in DOMAIN Kept : i < j => Kept[i].seq < Kept[j].seq
         /\ \A i \in DOMAIN Kept : Kept[i].seq <= n /\ Kept[i].key \in New.keys
         /\ Kept # <<>> => /\ queue # <<>> /\ Head(queue).seq <= Head(Kept).seq
                           /\ Head(queue).key \notin New.keys =>
                                Head(queue).seq < Head(Kept).seq
         /\ queue # <<>> /\ Head(queue).key \in New.keys =>
              Kept # <<>> /\ Head(Kept) = Head(queue)
<1> DEFINE S == [seq: Nat, key: New.keys, kind: Kinds]
           k == Among(queue, S)
<1>1. Kept = k
  BY DEF Kept
<1>2. \A x \in S : x.key \in New.keys
  OBVIOUS
<1>3. \A x \in Input : x.key \in New.keys => x \in S
  BY DEF Input
<1> HIDE DEF S
<1>4. queue \in Seq(Input) /\ serial \in Nat
  BY Fields
<1>5. k \in Seq(Input \cap S) /\ k \in Seq(Input) /\ k \in Seq(S)
  <2>1. k \in Seq(Input \cap S)
    BY <1>4, AmongType
  <2> HIDE DEF k
  <2>2. k \in Seq(Input)
    BY <2>1, SeqMonotonic
  <2>3. k \in Seq(S)
    BY <2>1, SeqMonotonic
  <2> QED BY <2>1, <2>2, <2>3
<1>6. PICK at \in [1..Len(k) -> 1..Len(queue)] :
           /\ \A i \in DOMAIN at : k[i] = queue[at[i]]
           /\ \A i, j \in DOMAIN at : i < j => at[i] < at[j]
  BY <1>4, AmongOrder
<1> HIDE DEF k
<1>7. /\ DOMAIN at = 1..Len(k) /\ DOMAIN k = 1..Len(k) /\ DOMAIN queue = 1..Len(queue)
      /\ Len(k) \in Nat /\ Len(queue) \in Nat
      /\ \A i \in 1..Len(k) : at[i] \in 1..Len(queue) /\ k[i] \in S
      /\ \A i \in 1..Len(queue) : queue[i].seq \in Nat /\ queue[i] \in Input
  BY <1>4, <1>5, <1>6, SeqParts, InputNumber
<1>8. \A i, j \in DOMAIN k : i < j => k[i].seq < k[j].seq
  BY <1>6, <1>7 DEF Queued
<1>9. \A i \in DOMAIN k : k[i].seq <= n /\ k[i].key \in New.keys
  BY <1>2, <1>4, <1>6, <1>7 DEF Queued
<1>10. ASSUME k # <<>>
       PROVE  /\ queue # <<>> /\ Head(queue).seq <= Head(k).seq
              /\ Head(queue).key \notin New.keys => Head(queue).seq < Head(k).seq
  <2>1. Len(k) > 0 /\ Head(k) = k[1] /\ 1 \in 1..Len(k)
    BY <1>5, <1>7, <1>10, SeqParts
  <2>2. at[1] \in 1..Len(queue) /\ k[1] = queue[at[1]] /\ k[1].key \in New.keys
    BY <1>2, <1>6, <1>7, <2>1
  <2>3. queue # <<>>
    BY <2>2, <1>4, SeqParts
  <2>4. Head(queue) = queue[1]
    BY <2>3, <1>4, SeqParts
  <2>5. CASE at[1] = 1
    BY <1>7, <2>1, <2>2, <2>3, <2>4, <2>5
  <2>6. CASE at[1] > 1
    <3>1. 1 \in DOMAIN queue /\ at[1] \in DOMAIN queue /\ 1 < at[1]
      BY <1>7, <2>2, <2>6
    <3>2. queue[1].seq < queue[at[1]].seq
      BY <3>1 DEF Queued
    <3>3. queue[1].seq \in Nat /\ queue[at[1]].seq \in Nat
      BY <1>7, <3>1
    <3> QED BY <2>1, <2>2, <2>3, <2>4, <3>2, <3>3
  <2> QED BY <1>7, <2>2, <2>5, <2>6
<1>11. queue # <<>> /\ Head(queue).key \in New.keys => k # <<>> /\ Head(k) = Head(queue)
  <2>1. queue # <<>> => Head(queue) \in Input
    BY <1>4, SeqParts
  <2> QED BY <1>3, <1>4, <2>1, AmongHead DEF k
<1> QED BY <1>1, <1>5, <1>8, <1>9, <1>10, <1>11

\* The lane without the turns of a tick, and the guest's part of it.
LaneSafe ==
  /\ Opened /\ Phasing /\ Posed /\ Queued
  /\ CommitLast /\ Flying /\ Heard

LEMMA HeardNumber == Typed => \A i \in DOMAIN heard : heard[i].input \in Nat
<1> DEFINE H == [what: {"Commit", "Interaction", "Fault", "Cancelled"},
                 id: TxnId, origin: Kinds \cup {None}, input: Nat]
<1>1. \A h \in H : h.input \in Nat
  OBVIOUS
<1>2. Typed => heard \in Seq(H)
  BY TypedParts DEF GuestTypeOK
<1> HIDE DEF H
<1> QED BY <1>1, <1>2, SeqParts

LEMMA FlightKept ==
  ASSUME Typed, Typed', CommitLast, Flying, Adds(Quiet), UNCHANGED <<queue, pending, doc, loaded>>,
         phase.at \in Stopped => phase'.at \in Stopped
  PROVE  CommitLast' /\ Flying' /\ InFlight("Commit")' = InFlight("Commit")
<1>1. events \in Seq(Event) /\ events' \in Seq(Event)
  BY Fields, FieldsNext
<1>2. InFlight("Commit")' = InFlight("Commit")
  BY <1>1, AddsInFlight DEF Quiet
<1>3. \A i \in DOMAIN events' : events'[i].type \in {"Commit", "Request"} =>
        i \in DOMAIN events /\ events'[i] = events[i]
  <2>1. Quiet \cap {"Commit", "Request"} = {}
    BY DEF Quiet
  <2> QED BY <1>1, <2>1, AddsKeeps
<1>4. CommitLast'
  BY <1>3 DEF CommitLast
<1>5. Flying'
  BY <1>2 DEF Flying
<1> QED BY <1>2, <1>4, <1>5

\* No commit is under way while the lane moves.
LEMMA NoneFlying == Flying /\ phase.at \notin Stopped => InFlight("Commit") = {}
BY DEF Flying

LEMMA NoFlight ==
  ASSUME Typed, Typed', InFlight("Commit") = {},
         events' = events \/ \E e \in Event : e.type # "Commit" /\ events' = Append(events, e)
  PROVE  CommitLast' /\ Flying' /\ InFlight("Commit")' = {}
<1>1. events \in Seq(Event) /\ events' \in Seq(Event)
  BY Fields, FieldsNext
<1>2. InFlight("Commit")' = {}
  <2>1. CASE events' = events
    BY <2>1 DEF InFlight, Events
  <2>2. ASSUME NEW e \in Event, e.type # "Commit", events' = Append(events, e)
        PROVE  InFlight("Commit")' = {}
    BY <1>1, <2>2, AddsToFlight
  <2> QED BY <2>1, <2>2
<1>3. \A i \in DOMAIN events' : events'[i].type # "Commit"
  BY <1>2 DEF InFlight, Events
<1> QED BY <1>2, <1>3 DEF CommitLast, Flying

LEMMA HeardKept ==
  ASSUME Typed, Typed', Heard, UNCHANGED <<heard, queue>>, serial <= serial',
         phase'.at \in Moving => phase.at \in Moving,
         InFlight("Commit")' = {} \/ InFlight("Commit")' = InFlight("Commit")
           \/ phase.at \in Moving
  PROVE  Heard'
<1>1. serial \in Nat /\ serial' \in Nat /\ \A i \in DOMAIN heard : heard[i].input \in Nat
  BY Fields, FieldsNext, HeardNumber
<1> QED BY <1>1 DEF Heard

LEMMA StaysLane ==
  ASSUME Typed, Typed', LaneSafe, UNCHANGED heard, Stays
  PROVE  LaneSafe'
<1>1. /\ UNCHANGED <<queue, pending, bypass, committed, doc, loaded, edRev, available, tree>>
      /\ serial <= serial' /\ incoming' \in {incoming, None} /\ Adds(Quiet)
      /\ serial \in Nat /\ serial' \in Nat
  BY Fields DEF Stays, LaneKept, HostKept
<1>2. \/ phase' = phase
      \/ phase'.at \in {"Identity", "Overflow"}
      \/ phase.at = "Decision" /\ phase'.at \in {"Timeout", "Conflicts"}
      \/ /\ phase.at = "Timeout" /\ pending # None
         /\ phase'.at = "Decision" /\ phase'.attempt = pending.id.attempt
  BY DEF Stays, Faulted, Decision
<1>3. Opened'
  BY <1>1 DEF LaneSafe, Opened
<1>4. Phasing'
  BY <1>1, <1>2 DEF LaneSafe, Phasing, Asking
<1>5. Posed'
  <2>1. pending # None => pending.id.seq \in Nat
    BY Fields
  <2>2. phase'.at \in Asking => phase.at \in Asking
    BY <1>2 DEF Asking
  <2>3. phase'.at = "Ready" => phase.at = "Ready"
    BY <1>2
  <2> QED BY <1>1, <2>1, <2>2, <2>3 DEF LaneSafe, Posed
<1>6. Queued'
  <2>1. \A i \in DOMAIN queue : queue[i].seq \in Nat
    BY Fields, SeqParts, InputNumber
  <2> QED BY <1>1, <2>1 DEF LaneSafe, Queued
<1>7. CommitLast' /\ Flying' /\ InFlight("Commit")' = InFlight("Commit")
  <2>1. phase.at \in Stopped => phase'.at \in Stopped
    BY <1>2 DEF Stopped
  <2> QED BY <1>1, <2>1, FlightKept DEF LaneSafe
<1>8. Heard'
  <2>1. phase'.at \in Moving => phase.at \in Moving
    BY <1>2 DEF Moving
  <2> QED BY <1>1, <1>7, <2>1, HeardKept DEF LaneSafe
<1> QED BY <1>3, <1>4, <1>5, <1>6, <1>7, <1>8 DEF LaneSafe

LEMMA EntersLane ==
  ASSUME Typed, Typed', LaneSafe, UNCHANGED heard, NEW in \in Input, Enters(in)
  PROVE  LaneSafe'
<1>1. /\ UNCHANGED <<phase, pending, bypass, committed, doc, loaded, edRev, events,
                     available, tree, incoming>>
      /\ in.seq = serial + 1 /\ in.key \in tree.keys /\ queue' = Append(queue, in)
      /\ serial' = serial + 1 /\ serial \in Nat
  BY Fields DEF Enters
<1>2. /\ Queued' /\ queue' # <<>>
      /\ Head(queue') = IF queue = <<>> THEN in ELSE Head(queue)
  BY <1>1, QueuedAppend DEF LaneSafe
<1>3. Opened' /\ Phasing'
  BY <1>1 DEF LaneSafe, Opened, Phasing
<1>4. Posed'
  <2>1. pending # None => pending.id.seq \in Nat
    BY Fields
  <2> QED BY <1>1, <1>2, <2>1 DEF LaneSafe, Posed
<1>5. CommitLast' /\ InFlight("Commit")' = InFlight("Commit")
  BY <1>1 DEF LaneSafe, CommitLast, InFlight, Events
<1>6. Flying'
  BY <1>1, <1>2, <1>5 DEF LaneSafe, Flying
<1>7. Heard'
  <2>1. InFlight("Commit") # {} => queue # <<>>
    BY DEF LaneSafe, Flying
  <2>2. \A i \in DOMAIN heard : heard[i].input \in Nat
    BY HeardNumber
  <2> QED BY <1>1, <1>2, <1>5, <2>1, <2>2 DEF LaneSafe, Heard
<1> QED BY <1>2, <1>3, <1>4, <1>5, <1>6, <1>7 DEF LaneSafe

LEMMA RequestsLane ==
  ASSUME Typed, Typed', LaneSafe, UNCHANGED heard, Requests(Head(queue))
  PROVE  LaneSafe'
<1> DEFINE in == Head(queue)
           req == [id |-> Txn(in.seq, 1, Ref(doc)), kind |-> in.kind, state |-> Ref(doc)]
<1>1. /\ UNCHANGED <<queue, bypass, committed, doc, loaded, edRev, available, tree, serial>>
      /\ incoming' \in {incoming, None}
      /\ queue # <<>> /\ phase.at = "Ready" /\ available
      /\ phase'.at = "Decision" /\ phase'.attempt = 1
      /\ in.kind \in {"key", "click"}
      /\ pending' = req /\ events' = Append(events, [type |-> "Request", req |-> req])
  BY DEF Requests, Requested, HostKept, Ready, Decision, document
<1>2. /\ req \in Request /\ req.id.seq = in.seq /\ req.id.attempt = 1 /\ req.kind = in.kind
      /\ req.state = Ref(doc) /\ RefOf(req.id) = Ref(doc)
  <2>1. in.seq \in Nat /\ in.kind \in Kinds /\ Ref(doc) \in DocRef
    BY <1>1, Fields, SeqParts, InputNumber
  <2>2. Txn(in.seq, 1, Ref(doc)) \in TxnId
    BY <2>1, TxnType
  <2> QED BY <2>1, <2>2 DEF Request, Txn, RefOf, Ref
<1>3. [type |-> "Request", req |-> req] \in Event
  BY <1>2, RequestEvent
<1> HIDE DEF req
<1>4. in.seq <= serial /\ in.seq \in Nat
  BY <1>1, QueueHead, Fields DEF LaneSafe, Queued
<1>5. Opened'
  BY <1>1 DEF LaneSafe, Opened
<1>6. Phasing'
  BY <1>1, <1>2 DEF LaneSafe, Phasing, Asking
<1>7. Posed'
  BY <1>1, <1>2, <1>4 DEF Posed, Asking
<1>8. Queued'
  BY <1>1 DEF LaneSafe, Queued
<1>9. CommitLast' /\ Flying' /\ InFlight("Commit")' = {}
  <2>1. InFlight("Commit") = {}
    BY <1>1, NoneFlying DEF LaneSafe, Stopped
  <2> DEFINE e == [type |-> "Request", req |-> req]
  <2>2. e \in Event /\ e.type # "Commit" /\ events' = Append(events, e)
    BY <1>1, <1>3
  <2> HIDE DEF e
  <2> QED BY <2>1, <2>2, NoFlight
<1>10. Heard'
  BY <1>1, <1>9, HeardKept, Fields DEF LaneSafe, Moving
<1> QED BY <1>5, <1>6, <1>7, <1>8, <1>9, <1>10 DEF LaneSafe

LEMMA RetriesLane ==
  ASSUME Typed, Typed', LaneSafe, UNCHANGED heard, Retries
  PROVE  LaneSafe'
<1> DEFINE n == phase.attempt + 1
           req == [id |-> Txn(pending.id.seq, n, Ref(doc)),
                   kind |-> pending.kind, state |-> Ref(doc)]
<1>1. /\ UNCHANGED <<queue, bypass, committed, doc, loaded, edRev, available, tree, serial>>
      /\ incoming' \in {incoming, None} /\ pending # None
      /\ phase.at = "Decision" /\ phase'.at = "Decision" /\ phase'.attempt = n
      /\ pending' = req /\ events' = Append(events, [type |-> "Request", req |-> req])
  BY DEF Retries, Retry, HostKept, Decision, document
<1>2. /\ req \in Request /\ req.id.seq = pending.id.seq /\ req.id.attempt = n
      /\ req.kind = pending.kind /\ req.state = Ref(doc) /\ RefOf(req.id) = Ref(doc)
  <2>1. pending.id.seq \in Nat /\ pending.kind \in Kinds /\ Ref(doc) \in DocRef
    BY <1>1, Fields
  <2>2. n \in Nat
    BY TypedParts DEF LaneTypes, Phases
  <2>3. Txn(pending.id.seq, n, Ref(doc)) \in TxnId
    BY <2>1, <2>2, TxnType
  <2> QED BY <2>1, <2>3 DEF Request, Txn, RefOf, Ref
<1>3. [type |-> "Request", req |-> req] \in Event
  BY <1>2, RequestEvent
<1> HIDE DEF req, n
<1>4. Opened'
  BY <1>1 DEF LaneSafe, Opened
<1>5. Phasing'
  BY <1>1, <1>2 DEF LaneSafe, Phasing, Asking
<1>6. Posed'
  BY <1>1, <1>2 DEF LaneSafe, Posed, Asking
<1>7. Queued'
  BY <1>1 DEF LaneSafe, Queued
<1>8. CommitLast' /\ Flying' /\ InFlight("Commit")' = {}
  <2>1. InFlight("Commit") = {}
    BY <1>1, NoneFlying DEF LaneSafe, Stopped
  <2> DEFINE e == [type |-> "Request", req |-> req]
  <2>2. e \in Event /\ e.type # "Commit" /\ events' = Append(events, e)
    BY <1>1, <1>3
  <2> HIDE DEF e
  <2> QED BY <2>1, <2>2, NoFlight
<1>9. Heard'
  BY <1>1, <1>8, HeardKept, Fields DEF LaneSafe, Moving
<1> QED BY <1>4, <1>5, <1>6, <1>7, <1>8, <1>9 DEF LaneSafe

LEMMA CommitsLane ==
  ASSUME Typed, Typed', LaneSafe, UNCHANGED heard, NEW r \in Results, Commits(r)
  PROVE  LaneSafe'
<1> DEFINE c == CommitEvent(r)
           id == IF pending # None THEN pending.id ELSE Txn(Head(queue).seq, 0, Ref(doc))
<1>1. /\ UNCHANGED <<queue, pending, loaded, available, tree, serial>>
      /\ incoming' \in {incoming, None}
      /\ queue # <<>> /\ phase.at \in Moving /\ phase'.at = "AwaitingGuest"
      /\ doc' = After(r) /\ edRev' = edRev + 1
      /\ events' = Append(events, c)
  BY DEF Commits, HostKept, AwaitingGuest
<1>2. /\ c.type = "Commit" /\ c.id = id /\ c.before = Ref(doc) /\ c.after = After(r)
      /\ c.input = Head(queue).seq
  BY DEF CommitEvent
<1>3. /\ doc'.reset = doc.reset /\ doc'.rev = edRev + 1 /\ doc.trev <= doc'.trev
      /\ edRev \in Nat /\ doc.rev <= edRev /\ doc.rev \in Nat
  <2>1. /\ doc \in Doc /\ edRev \in Nat /\ doc.rev \in Nat /\ doc.trev \in Nat
        /\ doc.rev <= edRev
    BY Fields DEF LaneSafe, Opened
  <2>2. doc' = After(r)
    BY <1>1
  <2> QED BY <2>1, <2>2 DEF After, Doc
<1>4. /\ pending # None => id = pending.id /\ RefOf(id) = Ref(doc)
      /\ pending = None => id.seq = Head(queue).seq /\ RefOf(id) = Ref(doc)
  BY <1>1 DEF LaneSafe, Posed, Moving, Asking, Txn, RefOf, Ref
<1>5. c \in Event
  BY <1>1, CommitIsEvent, TypedParts
<1> HIDE DEF c, id
<1>6. Opened'
  BY <1>1, <1>3 DEF LaneSafe, Opened
<1>7. Phasing'
  BY <1>1 DEF Phasing, Asking
<1>8. Posed'
  BY <1>1 DEF LaneSafe, Posed, Asking
<1>9. Queued'
  BY <1>1 DEF LaneSafe, Queued
<1>10. InFlight("Commit") = {}
  BY <1>1, NoneFlying DEF LaneSafe, Stopped, Moving
<1>11. InFlight("Commit")' = {c}
  BY <1>1, <1>2, <1>5, <1>10, Fields, AddsToFlight
<1>12. CommitLast'
  <2>1. \A i \in DOMAIN events : events[i].type # "Commit"
    BY <1>10 DEF InFlight, Events
  <2>2. /\ Len(events') = Len(events) + 1 /\ Len(events) \in Nat
        /\ \A i \in 1..Len(events) : events'[i] = events[i]
        /\ DOMAIN events = 1..Len(events) /\ DOMAIN events' = 1..(Len(events) + 1)
    BY <1>1, <1>5, Fields, SeqAppend, SeqParts
  <2> QED BY <2>1, <2>2 DEF CommitLast
<1>13. Flying'
  <2>1. /\ phase'.at \in Stopped /\ queue' # <<>> /\ c.input = Head(queue').seq
        /\ c.after = doc' /\ c.before = RefOf(c.id)
    BY <1>1, <1>2, <1>4 DEF Stopped
  <2>0. loaded'
    BY <1>1 DEF LaneSafe, Opened, Commits
  <2>2. c.before.reset = doc'.reset /\ c.before.rev < doc'.rev /\ c.before.trev <= doc'.trev
    BY <1>2, <1>3 DEF Ref
  <2>3. IF pending' = None THEN c.id.seq = c.input ELSE c.id = pending'.id
    BY <1>1, <1>2, <1>4
  <2> QED BY <1>11, <2>0, <2>1, <2>2, <2>3 DEF Flying
<1>14. Heard'
  BY <1>1, HeardKept, Fields DEF LaneSafe, Moving
<1> QED BY <1>6, <1>7, <1>8, <1>9, <1>12, <1>13, <1>14 DEF LaneSafe

LEMMA DropsLane ==
  ASSUME Typed, Typed', LaneSafe, UNCHANGED heard, Drops
  PROVE  LaneSafe'
<1>1. /\ UNCHANGED <<pending, bypass, committed, doc, loaded, edRev, events,
                     available, tree, serial>>
      /\ incoming' \in {incoming, None} /\ queue # <<>> /\ phase.at = "Ready"
      /\ phase'.at = "Ready" /\ queue' = Tail(queue)
  BY DEF Drops, HostKept, Ready
<1>2. Queued' /\ (queue' # <<>> => Head(queue).seq < Head(queue').seq)
  BY <1>1, Fields, FieldsNext, QueuedTail DEF LaneSafe
<1>3. Opened' /\ Phasing'
  BY <1>1 DEF LaneSafe, Opened, Phasing
<1>4. /\ Head(queue).seq \in Nat /\ (queue' # <<>> => Head(queue').seq \in Nat)
  BY <1>1, Fields, FieldsNext, SeqParts, InputNumber
<1>5. Posed'
  <2>1. pending # None => pending.id.seq \in Nat
    BY Fields
  <2>2. phase'.at \in Asking => phase.at \in Asking
    BY <1>1
  <2>3. pending # None /\ queue' # <<>> => pending.id.seq < Head(queue').seq
    BY <1>1, <1>2, <1>4, <2>1 DEF LaneSafe, Posed
  <2> QED BY <1>1, <1>2, <1>4, <2>1, <2>2, <2>3 DEF LaneSafe, Posed
<1>6. InFlight("Commit") = {}
  BY <1>1, NoneFlying DEF LaneSafe, Stopped
<1>7. CommitLast' /\ Flying' /\ InFlight("Commit")' = {}
  BY <1>1, <1>6, NoFlight
<1>8. Heard'
  <2>1. \A i \in DOMAIN heard : heard[i].input \in Nat
    BY HeardNumber
  <2> QED BY <1>1, <1>2, <1>4, <2>1 DEF LaneSafe, Heard, Moving
<1> QED BY <1>2, <1>3, <1>5, <1>7, <1>8 DEF LaneSafe

LEMMA DefaultsLane ==
  ASSUME Typed, Typed', LaneSafe, UNCHANGED heard, Defaults
  PROVE  LaneSafe'
<1>1. /\ UNCHANGED <<queue, pending, committed, doc, loaded, edRev, events,
                     available, tree, serial>>
      /\ incoming' \in {incoming, None} /\ phase.at \in Moving
      /\ phase'.at = "Ready" /\ bypass' = TRUE
      /\ pending # None /\ pending.kind # "click"
  BY DEF Defaults, HostKept, Ready
<1>2. Opened' /\ Phasing' /\ Queued'
  BY <1>1 DEF LaneSafe, Opened, Phasing, Queued, Moving, Asking
<1>3. Posed'
  <2>1. pending.kind = "key"
    BY <1>1, Fields DEF LaneSafe, Posed, Kinds
  <2> QED BY <1>1, <2>1 DEF LaneSafe, Posed, Moving, Asking
<1>4. InFlight("Commit") = {}
  BY <1>1, NoneFlying DEF LaneSafe, Stopped, Moving
<1>5. CommitLast' /\ Flying' /\ InFlight("Commit")' = {}
  BY <1>1, <1>4, NoFlight
<1>6. Heard'
  BY <1>1, <1>5, HeardKept, Fields DEF LaneSafe
<1> QED BY <1>2, <1>3, <1>5, <1>6 DEF LaneSafe

LEMMA GesturesLane ==
  ASSUME Typed, Typed', LaneSafe, UNCHANGED heard, Gestures
  PROVE  LaneSafe'
<1> DEFINE e == [type |-> "Interaction", id |-> pending.id, state |-> pending.state]
<1>1. /\ UNCHANGED <<queue, pending, bypass, doc, loaded, edRev, available, tree, serial>>
      /\ incoming' \in {incoming, None} /\ phase.at \in Moving
      /\ phase'.at = "AwaitingGuest" /\ pending # None
      /\ events' = Append(events, e) /\ e.type # "Commit"
  BY DEF Gestures, HostKept, AwaitingGuest
<1>2. e \in Event
  BY <1>1, Fields, ReportEvent
<1> HIDE DEF e
<1>3. Opened' /\ Phasing' /\ Queued' /\ Posed'
  BY <1>1 DEF LaneSafe, Opened, Phasing, Queued, Posed, Asking
<1>4. InFlight("Commit") = {}
  BY <1>1, NoneFlying DEF LaneSafe, Stopped, Moving
<1>5. CommitLast' /\ Flying' /\ InFlight("Commit")' = {}
  BY <1>1, <1>2, <1>4, NoFlight
<1>6. Heard'
  BY <1>1, <1>5, HeardKept, Fields DEF LaneSafe, Moving
<1> QED BY <1>3, <1>5, <1>6 DEF LaneSafe

LEMMA InstallsLane ==
  ASSUME Typed, Typed', LaneSafe, Turns, IInv, UNCHANGED heard, Installs
  PROVE  LaneSafe'
<1> DEFINE e == Acknowledged(incoming.id)
<1>1. /\ UNCHANGED <<queue, phase, pending, bypass, committed, tree, serial>>
      /\ incoming # None /\ incoming' = None /\ loaded' = TRUE /\ available' = TRUE
      /\ doc' = [reset |-> incoming.target.reset, trev |-> incoming.target.trev,
                 rev |-> incoming.target.rev, text |-> Message.text]
      /\ edRev' = IF edRev < doc'.rev THEN doc'.rev ELSE edRev
      /\ events' = Append(events, e) /\ e.type # "Commit"
  BY DEF Installs, Install, Incoming, lane, control, Acknowledged
<1>2. e \in Event
  BY <1>1, TypedParts, DocumentTypes DEF RestTypes
<1> HIDE DEF e
<1>3. pending = None /\ ~available /\ queue = <<>>
  BY <1>1 DEF LaneSafe, Opened, IInv, Epochs
<1>4. tree.keys # {} /\ incoming.target = tree.ref
  BY <1>1 DEF IInv, Targeted
<1>5. Opened'
  <2>1. doc'.reset = tree.ref.reset /\ doc'.rev \in Nat /\ tree.ref.reset \in Nat
        /\ edRev \in Nat
    BY <1>1, <1>4, Fields DEF DocRef
  <2>2. doc'.rev <= edRev'
    BY <1>1, <2>1
  <2> QED BY <1>1, <1>3, <1>4, <2>1, <2>2 DEF Opened
<1>6. Phasing' /\ Queued' /\ Posed'
  BY <1>1, <1>3 DEF LaneSafe, Phasing, Queued, Posed
<1>7. InFlight("Commit") = {}
  BY <1>3 DEF LaneSafe, Flying
<1>8. CommitLast' /\ Flying' /\ InFlight("Commit")' = {}
  BY <1>1, <1>2, <1>7, NoFlight
<1>9. Heard'
  BY <1>1, <1>8, HeardKept, Fields DEF LaneSafe
<1> QED BY <1>5, <1>6, <1>8, <1>9 DEF LaneSafe

\* What adopt does to the lane: it keeps a request only with its document.
LEMMA AdoptCases ==
  ASSUME Adopt, Typed, Turns, Opened
  PROVE  /\ tree' = New /\ New.ref = Ref(editor) /\ events' = events /\ events = <<>>
         /\ edRev' = edRev /\ serial <= serial' /\ serial' \in {serial, serial + 1}
         /\ New.ref.reset \in Nat /\ tree.ref.reset <= New.ref.reset
         /\ \/ /\ Releases /\ pending' = None /\ committed' = None /\ bypass' = FALSE
               /\ phase' = Ready
               /\ queue' = IF NewEpoch THEN <<>> ELSE Kept
            \/ /\ ~Releases /\ UNCHANGED <<pending, committed, bypass, phase>>
               /\ queue' = Kept
         /\ \/ /\ tree.keys = {} \/ New.keys = {}
               /\ loaded' = FALSE
               /\ \/ doc' = Fresh(0)
                  \/ New.keys # {} /\ doc' = Fresh(New.ref.reset)
            \/ /\ tree.keys # {} /\ New.keys # {} /\ doc' = doc /\ loaded' = loaded
         /\ available' <=> New.keys # {} /\ loaded' /\ doc'.reset = New.ref.reset
         /\ \/ incoming' = Fetch /\ ~available' /\ serial' = serial + 1
            \/ /\ incoming' # None => /\ incoming' = incoming /\ New.keys # {}
                                      /\ incoming.target = New.ref
               /\ serial' = serial
<1>1. turn = "adopt"
  BY DEF Adopt
<1>2. New.ref = Ref(editor) /\ events = <<>>
  BY <1>1 DEF Turns, New
<1>3. /\ editor.reset \in Nat /\ serial \in Nat /\ Ref(editor).reset = editor.reset
      /\ tree.ref.reset <= editor.reset
  BY Fields DEF Ref, Turns
<1>4. serial' \in {serial, serial + 1} /\ tree' = New /\ events' = events /\ edRev' = edRev
  BY DEF Adopt
<1>5. \/ /\ Releases /\ pending' = None /\ committed' = None /\ bypass' = FALSE
         /\ phase' = Ready
         /\ queue' = IF NewEpoch THEN <<>> ELSE Kept
      \/ /\ ~Releases /\ UNCHANGED <<pending, committed, bypass, phase>>
         /\ queue' = Kept
  BY DEF Adopt, AdoptLane, control
<1>6. \/ /\ tree.keys = {} \/ New.keys = {}
         /\ loaded' = FALSE
         /\ \/ doc' = Fresh(0)
            \/ New.keys # {} /\ doc' = Fresh(New.ref.reset)
      \/ /\ tree.keys # {} /\ New.keys # {} /\ doc' = doc /\ loaded' = loaded
  <2>1. AdoptControl
    BY DEF Adopt
  <2>2. CASE New.keys = {}
    <3>1. doc' = Fresh(0) /\ loaded' = FALSE
      BY <2>1, <2>2 DEF AdoptControl
    <3> QED BY <2>2, <3>1
  <2>3. CASE New.keys # {} /\ tree.keys = {}
    <3>1. doc' = Fresh(New.ref.reset) /\ loaded' = FALSE
      BY <2>1, <2>3 DEF AdoptControl
    <3> QED BY <2>3, <3>1
  <2>4. CASE New.keys # {} /\ tree.keys # {}
    BY <2>1, <2>4 DEF AdoptControl
  <2> QED BY <2>2, <2>3, <2>4
<1>7. available' <=> New.keys # {} /\ loaded' /\ doc'.reset = New.ref.reset
  BY DEF Adopt, Available
<1>8. \/ incoming' = Fetch /\ ~available' /\ serial' = serial + 1
      \/ /\ incoming' # None => /\ incoming' = incoming /\ New.keys # {}
                                /\ incoming.target = New.ref
         /\ serial' = serial
  <2>1. \/ /\ incoming' = Fetch /\ ~available' /\ serial' = serial + 1
        \/ /\ incoming' = IF incoming # None /\ Stale(incoming.target) THEN None ELSE incoming
           /\ serial' = serial
    BY DEF Adopt, Wanted
  <2> QED BY <2>1 DEF Stale
<1> QED BY <1>2, <1>3, <1>4, <1>5, <1>6, <1>7, <1>8

LEMMA AdoptLaneSafe ==
  ASSUME Typed, Typed', LaneSafe, Turns, IInv, UNCHANGED heard, Adopt
  PROVE  LaneSafe'
<1>1. Opened
  BY DEF LaneSafe
<1> DEFINE ref == New.ref
<1>2. /\ tree' = New /\ events' = events /\ events = <<>>
      /\ edRev' = edRev /\ serial <= serial' /\ serial' \in Nat
      /\ ref.reset \in Nat /\ tree.ref.reset <= ref.reset
      /\ \/ /\ Releases /\ pending' = None /\ committed' = None /\ phase'.at = "Ready"
            /\ queue' = IF NewEpoch THEN <<>> ELSE Kept
         \/ /\ ~Releases /\ UNCHANGED <<pending, committed, bypass, phase>>
            /\ queue' = Kept
      /\ \/ /\ tree.keys = {} \/ New.keys = {}
            /\ loaded' = FALSE
            /\ doc'.reset = 0 \/ doc'.reset = ref.reset
            /\ doc'.rev = 0
         \/ /\ tree.keys # {} /\ New.keys # {} /\ doc' = doc /\ loaded' = loaded
      /\ available' <=> New.keys # {} /\ loaded' /\ doc'.reset = ref.reset
      /\ \/ incoming' = Fetch /\ ~available'
         \/ incoming' # None => /\ incoming' = incoming /\ New.keys # {}
                                /\ incoming.target = ref
  <2>1. Ready.at = "Ready"
    BY DEF Ready
  <2>2. \A r : Fresh(r).reset = r /\ Fresh(r).rev = 0
    BY DEF Fresh
  <2>3. \/ /\ tree.keys = {} \/ New.keys = {}
           /\ loaded' = FALSE
           /\ doc'.reset = 0 \/ doc'.reset = ref.reset
           /\ doc'.rev = 0
        \/ /\ tree.keys # {} /\ New.keys # {} /\ doc' = doc /\ loaded' = loaded
    BY <1>1, <2>2, AdoptCases
  <2>4. \/ /\ Releases /\ pending' = None /\ committed' = None /\ phase'.at = "Ready"
           /\ queue' = IF NewEpoch THEN <<>> ELSE Kept
        \/ /\ ~Releases /\ UNCHANGED <<pending, committed, bypass, phase>>
           /\ queue' = Kept
    BY <1>1, <2>1, AdoptCases
  <2>5. \/ incoming' = Fetch /\ ~available'
        \/ incoming' # None => /\ incoming' = incoming /\ New.keys # {}
                               /\ incoming.target = ref
    BY <1>1, AdoptCases
  <2>6. /\ tree' = New /\ events' = events /\ events = <<>>
        /\ edRev' = edRev /\ serial <= serial'
        /\ ref.reset \in Nat /\ tree.ref.reset <= ref.reset
        /\ available' <=> New.keys # {} /\ loaded' /\ doc'.reset = ref.reset
    BY <1>1, AdoptCases
  <2>7. serial' \in Nat
    BY FieldsNext
  <2> HIDE DEF ref
  <2> QED BY <2>3, <2>4, <2>5, <2>6, <2>7
<1>3. /\ tree.ref.reset \in Nat /\ doc.reset \in Nat /\ doc.rev \in Nat /\ edRev \in Nat
      /\ serial \in Nat
  BY Fields
<1>4. Releases <=> NewEpoch \/ OwnerRemoved
  BY DEF Releases
<1>5. NewEpoch <=> New.keys = {} \/ ref.reset # doc.reset
  BY DEF NewEpoch
<1>6. Opened'
  <2>1. loaded' => tree'.keys # {}
    BY <1>1, <1>2 DEF Opened
  <2>2. doc'.reset <= tree'.ref.reset /\ doc'.rev <= edRev'
    BY <1>1, <1>2, <1>3 DEF Opened
  <2>3. incoming' # None => ~available'
    <3>1. CASE incoming' = Fetch /\ ~available'
      BY <3>1
    <3>2. CASE incoming' = incoming /\ incoming # None /\ incoming.target = ref
      <4>1. ~available /\ incoming.target = tree.ref /\ tree.keys # {}
        BY <3>2, <1>1 DEF Opened, IInv, Targeted
      <4>2. ~(loaded /\ doc.reset = tree.ref.reset)
        BY <1>1, <4>1 DEF Opened
      <4>3. doc.reset = ref.reset => doc.reset = tree.ref.reset
        BY <3>2, <4>1
      <4> QED BY <1>2, <4>1, <4>2, <4>3
    <3> QED BY <1>2, <3>1, <3>2
  <2>4. pending' # None => available'
    <3> SUFFICES ASSUME pending' # None PROVE available'
      OBVIOUS
    <3>1. ~NewEpoch /\ pending' = pending
      BY <1>2, <1>4
    <3>2. available /\ tree.keys # {} /\ loaded
      BY <3>1, <1>1 DEF Opened
    <3>3. New.keys # {} /\ ref.reset = doc.reset
      BY <3>1, <1>5
    <3> QED BY <1>2, <3>2, <3>3
  <2>5. available' <=> tree'.keys # {} /\ loaded' /\ doc'.reset = tree'.ref.reset
    BY <1>2
  <2> QED BY <2>1, <2>2, <2>3, <2>4, <2>5 DEF Opened
<1>7. Phasing'
  BY <1>2 DEF LaneSafe, Phasing
<1>8. /\ \A i, j \in DOMAIN Kept : i < j => Kept[i].seq < Kept[j].seq
      /\ \A i \in DOMAIN Kept : Kept[i].seq <= serial' /\ Kept[i].key \in New.keys
      /\ Kept # <<>> => /\ queue # <<>> /\ Head(queue).seq <= Head(Kept).seq
                        /\ Head(queue).key \notin New.keys =>
                             Head(queue).seq < Head(Kept).seq
      /\ queue # <<>> /\ Head(queue).key \in New.keys =>
           Kept # <<>> /\ Head(Kept) = Head(queue)
      /\ Kept \in Seq(Input)
  BY <1>2, <1>3, QueuedKept DEF LaneSafe
<1> HIDE DEF ref
<1>9. queue' = <<>> \/ queue' = Kept
  BY <1>2
<1>10. Queued'
  BY <1>2, <1>8, <1>9 DEF Queued
<1>11. Posed'
  <2> SUFFICES ASSUME pending' # None PROVE Posed'
    BY DEF Posed
  <2>1. ~Releases /\ UNCHANGED <<pending, committed, bypass, phase>> /\ queue' = Kept
    BY <1>2
  <2>2. ~NewEpoch /\ ~OwnerRemoved
    BY <2>1, <1>4
  <2>3. available
    BY <1>1, <2>1 DEF Opened
  <2>4. doc' = doc
    BY <1>1, <1>2, <2>2, <2>3, <1>5 DEF Opened
  <2>5. queue' # <<>> => queue # <<>> /\ Head(queue') = Head(queue)
    BY <1>8, <2>1, <2>2 DEF OwnerRemoved
  <2>6. pending.id.seq \in Nat
    BY <2>1, Fields
  <2> QED BY <1>2, <1>3, <2>1, <2>4, <2>5, <2>6 DEF LaneSafe, Posed
<1>12. CommitLast' /\ Flying' /\ InFlight("Commit")' = {}
  <2>1. InFlight("Commit") = {}
    BY <1>2 DEF InFlight, Events
  <2> QED BY <1>2, <2>1, NoFlight
<1>13. Heard'
  <2>1. \A i \in DOMAIN heard : heard[i].input \in Nat
    BY HeardNumber
  <2>2. CASE queue' = <<>>
    BY <1>2, <1>3, <2>1, <2>2 DEF LaneSafe, Heard
  <2>3. CASE queue' # <<>>
    <3>1. queue' = Kept /\ queue # <<>> /\ Head(queue).seq <= Head(queue').seq
          /\ (Head(queue).key \notin New.keys => Head(queue).seq < Head(queue').seq)
      BY <1>8, <1>9, <2>3
    <3>2. Head(queue).seq \in Nat /\ Head(queue').seq \in Nat
      BY <2>3, <3>1, Fields, FieldsNext, SeqParts, InputNumber
    <3>3. CASE phase' = phase
      BY <1>2, <1>3, <1>12, <2>1, <3>1, <3>2, <3>3 DEF LaneSafe, Heard
    <3>4. CASE Releases
      <4>1. ~NewEpoch
        BY <1>2, <2>3, <3>4
      <4>2. Head(queue).key \notin New.keys
        BY <1>4, <3>4, <4>1 DEF OwnerRemoved
      <4> QED BY <1>2, <1>3, <2>1, <3>1, <3>2, <4>2 DEF LaneSafe, Heard
    <3> QED BY <1>2, <3>3, <3>4
  <2> QED BY <2>2, <2>3
<1> QED BY <1>6, <1>7, <1>10, <1>11, <1>12, <1>13 DEF LaneSafe

\* What a tick sends after the document message.
Sent == {"Part", "Failed", "Cancelled", "Ask"}

LEMMA AllIn ==
  ASSUME NEW T, NEW S, NEW s \in Seq(T), \A i \in 1..Len(s) : s[i] \in S
  PROVE  s \in Seq(S)
BY SeqParts

LEMMA ConcatIn ==
  ASSUME NEW S, NEW s \in Seq(S), NEW t \in Seq(S)
  PROVE  /\ s \o t \in Seq(S) /\ Len(s \o t) = Len(s) + Len(t)
         /\ \A i \in 1..Len(s) : (s \o t)[i] = s[i]
         /\ \A i \in 1..Len(t) : (s \o t)[i + Len(s)] = t[i]
OBVIOUS

LEMMA ConcatAssoc ==
  ASSUME NEW S, NEW s \in Seq(S), NEW t \in Seq(S), NEW u \in Seq(S)
  PROVE  (s \o t) \o u = s \o (t \o u)
OBVIOUS

LEMMA OneIn == ASSUME NEW S, NEW x \in S PROVE <<x>> \in Seq(S)
OBVIOUS

LEMMA NoneIn == \A S, s : <<>> \in Seq(S) /\ (s \in Seq(S) => <<>> \o s = s)
OBVIOUS

LEMMA ProgressCases ==
  ASSUME Typed, Typed', Turns, Progress
  PROVE  /\ Adds(Sent) /\ InFlight("Commit") = {}
         /\ UNCHANGED <<doc, loaded, edRev, available, tree, bypass>>
         /\ serial' \in {serial, serial + 1}
         /\ incoming' = incoming \/ ~available
         /\ \/ UNCHANGED <<queue, phase, pending, committed>>
            \/ /\ queue # <<>> /\ committed # None
               /\ pending' = None /\ committed' = None
               /\ \/ phase = AwaitingGuest /\ queue' = Tail(queue) /\ phase' = Ready
                  \/ UNCHANGED <<queue, phase>>
<1>1. LaneTypes /\ RestTypes
  BY TypedParts
<1>2. turn = "mirror" /\ InFlight("Commit") = {}
  BY DEF Progress, Turns
<1>3. UNCHANGED <<doc, loaded, edRev, available, tree>>
  BY DEF Progress, document
<1>4. /\ \/ UNCHANGED <<queue, phase, pending, committed>>
         \/ /\ queue # <<>> /\ committed # None
            /\ pending' = None /\ committed' = None
            /\ \/ phase = AwaitingGuest /\ queue' = Tail(queue) /\ phase' = Ready
               \/ UNCHANGED <<queue, phase>>
      /\ bypass' = bypass
  BY DEF Progress, AckLane, Observed, Popped, lane, control
<1>5. serial' \in {serial, serial + 1} /\ (incoming' = incoming \/ ~available)
  BY DEF Progress, Wanted
<1> DEFINE S == {e \in Event : e.type \in Sent}
<1>6. events \in Seq(Event) /\ notes \in Seq(S)
  <2>1. notes \in Seq(Event) /\ DOMAIN notes = 1..Len(notes)
    BY Fields, SeqParts
  <2>2. \A i \in 1..Len(notes) : notes[i] \in S
    BY <2>1, SeqParts DEF Turns, Sent
  <2> HIDE DEF S
  <2> QED BY <2>1, <2>2, AllIn, Fields
<1>7. MirrorSent \in Seq(S)
  <2>1. CASE outgoing = None \/ MirrorEnded
    BY <2>1 DEF MirrorSent
  <2>2. CASE outgoing # None /\ ~MirrorEnded
    <3> DEFINE p == Part(outgoing.id, MirrorPart, doc.text)
               f == Failed(outgoing.id)
    <3>1. outgoing.id \in TransferId /\ doc.text \in Nat \X Nat
      BY <1>1, <2>2 DEF RestTypes, LaneTypes, Doc
    <3>2. MirrorPart \in {"more", "last", "abort"}
      BY DEF MirrorPart
    <3>3. p \in S /\ f \in S
      BY <3>1, <3>2, DocumentTypes DEF Part, Failed, Sent
    <3>4. MirrorSent = <<p>> \/ MirrorSent = <<f>>
      BY <2>2 DEF MirrorSent
    <3> HIDE DEF p, f, S
    <3> QED BY <3>3, <3>4, OneIn
  <2> QED BY <2>1, <2>2
<1>8. Adds(Sent)
  <2> DEFINE ask == Ask(Fetch.id, Fetch.target)
             m == MirrorSent
             s == m \o notes
  <2>1. ask \in S
    <3>1. /\ [serial |-> serial + 1, attempt |-> 0, reset |-> tree'.ref.reset] \in TransferId
          /\ tree'.ref \in DocRef
      BY <1>1, <1>3 DEF TransferId, RestTypes, Tree, DocRef
    <3> QED BY <3>1, DocumentTypes DEF Fetch, Ask, Sent
  <2>2. \/ events' = events \o m \o notes
        \/ events' = events \o m \o notes \o <<ask>>
    BY DEF Progress
  <2>3. m \in Seq(S) /\ S \subseteq Event
    BY <1>7
  <2>4. \A e \in S : e.type \in Sent
    OBVIOUS
  <2> HIDE DEF ask, m, S
  <2>5. /\ m \in Seq(Event) /\ notes \in Seq(Event) /\ <<ask>> \in Seq(S)
        /\ <<ask>> \in Seq(Event)
    BY <1>6, <2>1, <2>3, OneIn, SeqMonotonic
  <2>6. s \in Seq(S) /\ s \o <<ask>> \in Seq(S) /\ s \in Seq(Event) /\ s \o <<ask>> \in Seq(Event)
    BY <1>6, <2>3, <2>5, ConcatIn
  <2>7. events \o m \o notes = events \o s
    BY <1>6, <2>5, ConcatAssoc
  <2> HIDE DEF s
  <2>8. events' = events \o s \/ events' = events \o (s \o <<ask>>)
    <3> DEFINE one == <<ask>>
    <3>1. /\ events \in Seq(Event) /\ s \in Seq(Event) /\ one \in Seq(Event)
          /\ events' = events \o s \/ events' = (events \o s) \o one
      BY <1>6, <2>2, <2>5, <2>6, <2>7
    <3> HIDE DEF one
    <3>2. (events \o s) \o one = events \o (s \o one)
      BY <3>1, ConcatAssoc
    <3> QED BY <3>1, <3>2 DEF one
  <2> DEFINE t == s \o <<ask>>
  <2>9. t \in Seq(S) /\ t \in Seq(Event) /\ (events' = events \o s \/ events' = events \o t)
    BY <2>6, <2>8
  <2> HIDE DEF t
  <2>10. /\ \A i \in 1..Len(s) : s[i].type \in Sent
         /\ \A i \in 1..Len(t) : t[i].type \in Sent
    BY <2>4, <2>6, <2>9, SeqParts
  <2> QED BY <1>6, <2>6, <2>9, <2>10, AddsSequence
<1> QED BY <1>2, <1>3, <1>4, <1>5, <1>8

LEMMA ProgressLane ==
  ASSUME Typed, Typed', LaneSafe, Turns, UNCHANGED heard, Progress
  PROVE  LaneSafe'
<1>1. /\ Adds(Sent) /\ InFlight("Commit") = {}
      /\ UNCHANGED <<doc, loaded, edRev, available, tree, bypass>>
      /\ serial' \in {serial, serial + 1} /\ serial \in Nat
      /\ incoming' = incoming \/ ~available
      /\ \/ UNCHANGED <<queue, phase, pending, committed>>
         \/ /\ queue # <<>> /\ committed # None
            /\ pending' = None /\ committed' = None
            /\ \/ phase = AwaitingGuest /\ queue' = Tail(queue) /\ phase' = Ready
               \/ UNCHANGED <<queue, phase>>
  BY ProgressCases, Fields
<1>2. InFlight("Commit")' = {}
  BY <1>1, Fields, FieldsNext, AddsInFlight DEF Sent
<1>3. CommitLast' /\ Flying'
  BY <1>2 DEF CommitLast, Flying, InFlight, Events
<1>4. Opened'
  BY <1>1 DEF LaneSafe, Opened
<1>5. \A i \in DOMAIN heard : heard[i].input \in Nat
  BY HeardNumber
<1>6. serial <= serial' /\ serial' \in Nat
  BY <1>1
<1>7. CASE UNCHANGED <<queue, phase, pending, committed>>
  <2>1. Phasing' /\ Queued'
    <3>1. \A i \in DOMAIN queue : queue[i].seq \in Nat
      BY Fields, SeqParts, InputNumber
    <3> QED BY <1>1, <1>6, <1>7, <3>1 DEF LaneSafe, Phasing, Queued
  <2>2. Posed'
    <3>1. pending # None => pending.id.seq \in Nat
      BY Fields
    <3> QED BY <1>1, <1>6, <1>7, <3>1 DEF LaneSafe, Posed
  <2>3. Heard'
    BY <1>2, <1>6, <1>7, HeardKept DEF LaneSafe
  <2> QED BY <1>3, <1>4, <2>1, <2>2, <2>3 DEF LaneSafe
<1>8. CASE /\ queue # <<>> /\ pending' = None /\ committed' = None
           /\ phase = AwaitingGuest /\ queue' = Tail(queue) /\ phase' = Ready
  <2>1. Queued' /\ (queue' # <<>> => Head(queue).seq < Head(queue').seq)
    BY <1>1, <1>6, <1>8, QueuedTail DEF LaneSafe
  <2>2. Phasing' /\ Posed'
    BY <1>8 DEF Phasing, Posed
  <2>3. Head(queue).seq \in Nat /\ (queue' # <<>> => Head(queue').seq \in Nat)
    BY <1>8, Fields, FieldsNext, SeqParts, InputNumber
  <2>4. Heard'
    <3>1. \A i \in DOMAIN heard : heard[i].what = "Commit" =>
            heard[i].input <= serial /\ heard[i].input <= Head(queue).seq
      BY <1>8 DEF LaneSafe, Heard
    <3> QED BY <1>1, <1>2, <1>5, <1>6, <2>1, <2>3, <3>1 DEF Heard
  <2> QED BY <1>3, <1>4, <2>1, <2>2, <2>4 DEF LaneSafe
<1>9. CASE pending' = None /\ committed' = None /\ UNCHANGED <<queue, phase>>
  <2>1. Phasing' /\ Queued' /\ Posed'
    <3>1. \A i \in DOMAIN queue : queue[i].seq \in Nat
      BY Fields, SeqParts, InputNumber
    <3> QED BY <1>1, <1>6, <1>9, <3>1 DEF LaneSafe, Phasing, Queued, Posed
  <2>2. Heard'
    BY <1>2, <1>6, <1>9, HeardKept DEF LaneSafe
  <2> QED BY <1>3, <1>4, <2>1, <2>2 DEF LaneSafe
<1> QED BY <1>1, <1>7, <1>8, <1>9

-----------------------------------------------------------------------------
\* Whose step it is, and what a step of the host does to it.
LEMMA TurnCases ==
  ASSUME HostNext
  PROVE  \/ Adopt \/ Documents \/ Progress
         \/ /\ turn = "host" /\ turn' \in {"host", "guest"}
            /\ UNCHANGED <<tree, notes, frame>>
         \/ /\ turn = "decide" /\ turn' \in {"decide", "host"}
            /\ UNCHANGED <<tree, notes>>
<1>1. ASSUME NEW k \in Keys, NEW kind \in Kinds, Admit(k, kind)
      PROVE  turn = "host" /\ UNCHANGED <<turn, tree, notes, frame>>
  BY <1>1 DEF Admit, Widget
<1>2. ASSUME NEW k \in Keys, Replay(k)
      PROVE  turn = "host" /\ UNCHANGED <<turn, tree, notes, frame>>
  BY <1>2 DEF Replay, Widget
<1>3. CASE Deadline
  BY <1>3 DEF Deadline, Widget
<1>4. CASE BeginTick
  BY <1>4 DEF BeginTick, host
<1>5. CASE Answer \/ EndTick
  BY <1>5 DEF Answer, EndTick
<1> QED BY <1>1, <1>2, <1>3, <1>4, <1>5 DEF HostNext

\* What adopt tells the guest of.
LEMMA AdoptNotes ==
  ASSUME Typed, Typed', Adopt, notes = <<>>
  PROVE  \A i \in DOMAIN notes' : notes'[i].type \in {"Cancelled", "Failed", "Ask"}
<1> DEFINE c == IF Releases THEN Cancellation ELSE <<>>
           aborted == incoming # None /\ Stale(incoming.target)
           f == IF aborted THEN <<Failed(incoming.id)>> ELSE <<>>
           ask == Ask(Fetch.id, Fetch.target)
           cancel == [type |-> "Cancelled", id |-> pending.id, state |-> pending.state]
           S == {cancel, Failed(incoming.id), ask}
<1>1. \A e \in S : e.type \in {"Cancelled", "Failed", "Ask"}
  BY DEF Failed, Ask
<1>2. cancel \in S /\ Failed(incoming.id) \in S /\ ask \in S
  OBVIOUS
<1>3. c = <<>> \/ c = <<cancel>>
  BY DEF Cancellation
<1>4. f = <<>> \/ f = <<Failed(incoming.id)>>
  OBVIOUS
<1>5. notes' = notes \o c \o f \/ notes' = Append(notes \o c \o f, ask)
  BY DEF Adopt
<1> DEFINE m == Failed(incoming.id)
<1> HIDE DEF S, c, f, cancel, ask, m
<1>6. c \in Seq(S) /\ f \in Seq(S)
  BY <1>2, <1>3, <1>4, OneIn, NoneIn DEF m
<1>7. notes \o c = c
  BY <1>6, NoneIn
<1>8. notes \o c \o f \in Seq(S)
  BY <1>6, <1>7, ConcatIn
<1>9. notes' \in Seq(S)
  BY <1>2, <1>5, <1>8, SeqAppend
<1> QED BY <1>1, <1>9, SeqParts

LEMMA HostTurns ==
  ASSUME Typed, Typed', Turns, IInv, Opened, HostNext, UNCHANGED guest
  PROVE  Turns'
<1>0. UNCHANGED <<editor, older>>
  BY DEF guest
<1>1. CASE Adopt
  <2>1. /\ turn = "adopt" /\ turn' = "documents" /\ notes = <<>>
    BY <1>1 DEF Adopt, Turns
  <2>2. /\ tree' = New /\ New.ref = Ref(editor) /\ events' = <<>>
    BY <1>1, AdoptCases
  <2>3. \A i \in DOMAIN notes' : notes'[i].type \in {"Cancelled", "Failed", "Ask"}
    BY <1>1, <2>1, AdoptNotes
  <2>4. Ref(editor).reset = editor.reset /\ editor.reset \in Nat
    BY Fields DEF Ref
  <2> QED BY <1>0, <2>1, <2>2, <2>3, <2>4 DEF Turns
<1>2. CASE Documents
  <2>1. turn = "documents" /\ turn' = "mirror" /\ events = <<>> /\ UNCHANGED <<tree, notes>>
    BY <1>2 DEF Documents, Turns
  <2>2. InFlight("Commit") = {}
    BY <2>1 DEF InFlight, Events
  <2>3. InFlight("Commit")' = {}
    <3>1. Stays \/ Retries \/ Installs
      BY <1>2, TypedParts, DocumentsCases
    <3>2. CASE Stays
      BY <2>2, <3>2, Fields, FieldsNext, AddsInFlight DEF Stays, Quiet
    <3>3. CASE Retries
      <4>1. \E req : events' = Append(events, [type |-> "Request", req |-> req])
        BY <3>3 DEF Retries, Retry
      <4> QED BY <2>1, <4>1 DEF InFlight, Events
    <3>4. CASE Installs
      BY <2>1, <3>4 DEF Installs, Install, Acknowledged, InFlight, Events
    <3> QED BY <3>1, <3>2, <3>3, <3>4
  <2> QED BY <1>0, <2>1, <2>3 DEF Turns
<1>3. CASE Progress
  <2>1. turn = "mirror" /\ turn' = "decide" /\ tree' = tree /\ notes' = <<>>
    BY <1>3 DEF Progress
  <2> QED BY <1>0, <2>1 DEF Turns
<1>4. CASE /\ turn = "host" /\ turn' \in {"host", "guest"}
           /\ UNCHANGED <<tree, notes, frame>>
  BY <1>0, <1>4 DEF Turns
<1>5. CASE /\ turn = "decide" /\ turn' \in {"decide", "host"}
           /\ UNCHANGED <<tree, notes>>
  BY <1>0, <1>5 DEF Turns
<1> QED BY <1>1, <1>2, <1>3, <1>4, <1>5, TurnCases

\* An event is taken from the front of the tick, and the binding may hear of
\* it: of a commit that fits the Editor, or of something else.
Takes ==
  /\ turn = "guest" /\ events # <<>> /\ events' = Tail(events)
  /\ UNCHANGED <<turn, frame, program>>
HearsOther ==
  \/ UNCHANGED heard
  \/ \E h : h.what # "Commit" /\ heard' = Append(heard, h)
HearsCommit ==
  \E h : /\ heard' = Append(heard, h) /\ h.what = "Commit"
         /\ Head(events).type = "Commit" /\ h.input = Head(events).input

LEMMA GuestCases ==
  ASSUME GuestNext
  PROVE  \/ (Replace \/ MoveTo \/ Rollback \/ Remount \/ FlipEditable)
              /\ UNCHANGED <<wire, slots, heard>>
         \/ View /\ UNCHANGED heard
         \/ AcceptCommit /\ Takes /\ (HearsCommit \/ UNCHANGED heard)
         \/ ReceiveMirror /\ Takes /\ UNCHANGED heard
         \/ /\ AcceptRequest \/ AcceptInteraction \/ AcceptFault \/ AcceptCancelled
                 \/ StartTransfer \/ EndTransfer
            /\ Takes /\ HearsOther /\ UNCHANGED <<editor, older>>
<1>1. CASE Replace \/ MoveTo \/ Rollback \/ Remount \/ FlipEditable
  BY <1>1 DEF Replace, MoveTo, Rollback, Remount, FlipEditable, Program
<1>2. CASE View
  BY <1>2 DEF View
<1>3. CASE AcceptCommit
  <2>1. Takes /\ Head(events).type = "Commit"
    BY <1>3 DEF AcceptCommit, Consume, Takes
  <2> DEFINE h == [what |-> "Commit", id |-> Head(events).id,
                   origin |-> Head(events).origin, input |-> Head(events).input]
  <2>2. heard' = Append(heard, h) \/ UNCHANGED heard
    BY <1>3 DEF AcceptCommit, Hear
  <2>3. h.what = "Commit" /\ h.input = Head(events).input
    OBVIOUS
  <2> HIDE DEF h
  <2> QED BY <1>3, <2>1, <2>2, <2>3 DEF HearsCommit
<1>4. CASE ReceiveMirror
  BY <1>4 DEF ReceiveMirror, Consume, Takes
<1>5. ASSUME NEW what \in {"Interaction", "Fault", "Cancelled"}, NEW id, NEW n,
             Hear(what, id, None, n) \/ UNCHANGED heard
      PROVE  HearsOther
  <2> DEFINE h == [what |-> what, id |-> id, origin |-> None, input |-> n]
  <2>1. heard' = Append(heard, h) \/ UNCHANGED heard
    BY <1>5 DEF Hear
  <2>2. h.what # "Commit"
    BY <1>5
  <2> HIDE DEF h
  <2> QED BY <2>1, <2>2 DEF HearsOther
<1>6. CASE AcceptInteraction
  <2>1. Takes /\ UNCHANGED <<editor, older>>
    BY <1>6 DEF AcceptInteraction, Consume, Takes
  <2>2. \E id, n : Hear("Interaction", id, None, n) \/ UNCHANGED heard
    BY <1>6 DEF AcceptInteraction
  <2>3. HearsOther
    BY <1>5, <2>2
  <2> QED BY <1>6, <2>1, <2>3
<1>7. CASE AcceptFault
  <2>1. Takes /\ UNCHANGED <<editor, older>>
    BY <1>7 DEF AcceptFault, Consume, Takes
  <2>2. \E id, n : Hear("Fault", id, None, n) \/ UNCHANGED heard
    BY <1>7 DEF AcceptFault
  <2>3. HearsOther
    BY <1>5, <2>2
  <2> QED BY <1>7, <2>1, <2>3
<1>8. CASE AcceptCancelled
  <2>1. Takes /\ UNCHANGED <<editor, older>>
    BY <1>8 DEF AcceptCancelled, Consume, Takes
  <2>2. \E id, n : Hear("Cancelled", id, None, n) \/ UNCHANGED heard
    BY <1>8 DEF AcceptCancelled
  <2>3. HearsOther
    BY <1>5, <2>2
  <2> QED BY <1>8, <2>1, <2>3
<1>9. CASE AcceptRequest \/ StartTransfer \/ EndTransfer
  BY <1>9 DEF AcceptRequest, StartTransfer, EndTransfer, Consume, Takes, HearsOther
<1> QED BY <1>1, <1>2, <1>3, <1>4, <1>6, <1>7, <1>8, <1>9 DEF GuestNext, GuestEvent

LEMMA HeardAppend ==
  ASSUME Typed, NEW h, heard' = Append(heard, h)
  PROVE  /\ Len(heard) \in Nat /\ DOMAIN heard = 1..Len(heard)
         /\ Len(heard') = Len(heard) + 1 /\ DOMAIN heard' = 1..Len(heard')
         /\ \A i \in 1..Len(heard) : heard'[i] = heard[i]
         /\ heard'[Len(heard')] = h
<1> DEFINE H == [what: {"Commit", "Interaction", "Fault", "Cancelled"},
                 id: TxnId, origin: Kinds \cup {None}, input: Nat]
           J == H \cup {h}
<1>1. heard \in Seq(H)
  BY TypedParts DEF GuestTypeOK
<1>2. H \subseteq J /\ h \in J
  OBVIOUS
<1> HIDE DEF H, J
<1>3. heard \in Seq(J)
  BY <1>1, <1>2, SeqMonotonic
<1>4. heard' \in Seq(J)
  BY <1>2, <1>3, SeqAppend
<1> QED BY <1>2, <1>3, <1>4, SeqAppend, SeqParts

\* The lane takes no notice of what the guest hears, but of its commit.
LEMMA TakesLane ==
  ASSUME Typed, Typed', LaneSafe, UNCHANGED host, Takes, HearsOther \/ HearsCommit
  PROVE  LaneSafe'
<1>1. UNCHANGED <<queue, phase, pending, bypass, committed, doc, loaded, edRev,
                  available, tree, serial, incoming>>
  BY DEF host, lane, control, document, transfers
<1>2. /\ Head(events) = events[1] /\ 1 \in DOMAIN events
      /\ Head(events) \in Events
      /\ \A i \in DOMAIN events' : i + 1 \in DOMAIN events /\ events'[i] = events[i + 1]
      /\ Events' \subseteq Events
      /\ DOMAIN events' \subseteq Nat
  BY Fields, FieldsNext, SeqParts, TakesOne DEF Takes
<1>3. Opened' /\ Phasing' /\ Posed' /\ Queued'
  BY <1>1 DEF LaneSafe, Opened, Phasing, Posed, Queued
<1>4. CommitLast'
  BY <1>2 DEF LaneSafe, CommitLast
<1>5. InFlight("Commit")' \subseteq InFlight("Commit")
  BY <1>2 DEF InFlight
<1>6. Flying'
  BY <1>1, <1>5 DEF LaneSafe, Flying
<1>7. Heard'
  <2>1. CASE UNCHANGED heard
    BY <1>1, <1>5, <2>1 DEF LaneSafe, Heard
  <2>2. ASSUME NEW h, h.what # "Commit", heard' = Append(heard, h)
        PROVE  Heard'
    BY <1>1, <1>5, <2>2, HeardAppend DEF LaneSafe, Heard
  <2>3. CASE HearsCommit
    <3>1. PICK h : /\ heard' = Append(heard, h) /\ h.what = "Commit"
                   /\ Head(events).type = "Commit" /\ h.input = Head(events).input
      BY <2>3 DEF HearsCommit
    <3>2. Head(events) \in InFlight("Commit")
      BY <1>2, <3>1 DEF InFlight
    <3>3. /\ phase.at \in Stopped /\ queue # <<>> /\ h.input = Head(queue).seq
      BY <3>1, <3>2 DEF LaneSafe, Flying
    <3>4. InFlight("Commit")' = {}
      <4> SUFFICES ASSUME NEW i \in DOMAIN events', events'[i].type = "Commit"
                   PROVE  FALSE
        BY DEF InFlight, Events
      <4>1. i \in Nat /\ i + 1 \in DOMAIN events /\ events[i + 1].type = "Commit"
        BY <1>2
      <4>2. i # 0
        BY FieldsNext, SeqParts
      <4>3. i + 1 <= 1
        BY <1>2, <3>1, <4>1 DEF LaneSafe, CommitLast
      <4> QED BY <4>1, <4>2, <4>3
    <3>5. phase'.at \notin Moving
      BY <1>1, <3>3 DEF Stopped, Moving
    <3>6. Head(queue).seq <= serial /\ Head(queue).seq \in Nat /\ serial \in Nat
      BY <3>3, Fields, QueueHead DEF LaneSafe, Queued
    <3> QED BY <1>1, <3>1, <3>3, <3>4, <3>5, <3>6, HeardAppend DEF LaneSafe, Heard
  <2> QED BY <2>1, <2>2, <2>3 DEF HearsOther
<1> QED BY <1>3, <1>4, <1>6, <1>7 DEF LaneSafe

\* The program assigns newer epochs, and the guest accepts no other.
LEMMA EditorEpoch ==
  ASSUME Typed, Turns, LaneSafe, GuestNext
  PROVE  editor.reset <= editor'.reset /\ older'.reset = editor'.reset
<1>1. editor \in Doc /\ editor.reset \in Nat /\ older.reset = editor.reset
  BY Fields DEF Turns
<1>2. CASE UNCHANGED <<editor, older>>
  BY <1>1, <1>2
<1>3. CASE Replace
  <2>1. editor'.reset = editor.reset + 1 /\ older' = editor'
    BY <1>3 DEF Replace
  <2> QED BY <1>1, <2>1
<1>4. CASE MoveTo
  <2>1. editor'.reset = editor.reset + 1 /\ older' = editor'
    BY <1>1, <1>4 DEF MoveTo, Doc
  <2> QED BY <1>1, <2>1
<1>5. CASE Rollback
  BY <1>1, <1>5 DEF Rollback
<1>6. CASE Remount \/ FlipEditable \/ View
  BY <1>2, <1>6 DEF Remount, FlipEditable, View
<1>7. CASE AcceptCommit
  <2> DEFINE e == Head(events)
  <2>1. CASE ~Fits(e)
    BY <1>2, <1>7, <2>1 DEF AcceptCommit
  <2>2. CASE Fits(e)
    <3>1. e.type = "Commit" /\ events # <<>>
      BY <1>7 DEF AcceptCommit, Consume
    <3>2. e \in Event /\ e \in InFlight("Commit")
      BY <3>1, Fields, SeqParts DEF InFlight, Events
    <3>3. e.after \in Doc /\ e.after.reset = editor.reset
      <4>1. e.after \in Doc
        BY <3>1, <3>2, EventParts
      <4>2. e.after = doc /\ e.before.reset = doc.reset
        BY <3>2 DEF LaneSafe, Flying
      <4>3. e.before = Ref(editor)
        BY <2>2 DEF Fits
      <4> QED BY <4>1, <4>2, <4>3 DEF Ref
    <3>4. older' \in {older, editor} /\ \E x : editor' = [e.after EXCEPT !.text = x]
      BY <1>7, <2>2 DEF AcceptCommit
    <3> HIDE DEF e
    <3>5. editor'.reset = e.after.reset
      BY <3>3, <3>4 DEF Doc
    <3> QED BY <1>1, <3>3, <3>4, <3>5
  <2> QED BY <2>1, <2>2
<1>8. CASE ReceiveMirror
  <2>1. \/ UNCHANGED <<editor, older>>
        \/ /\ mirror.target.reset = editor.reset /\ editor'.reset = mirror.target.reset
           /\ older' \in {older, editor}
    BY <1>8 DEF ReceiveMirror
  <2> QED BY <1>1, <1>2, <2>1
<1> QED BY <1>2, <1>3, <1>4, <1>5, <1>6, <1>7, <1>8, GuestCases

LEMMA GuestLane ==
  ASSUME Typed, Typed', Turns, LaneSafe, GuestNext, UNCHANGED host
  PROVE  LaneSafe' /\ Turns'
<1>1. editor.reset <= editor'.reset /\ older'.reset = editor'.reset
      /\ editor.reset \in Nat /\ editor'.reset \in Nat /\ tree.ref.reset \in Nat
  BY EditorEpoch, Fields DEF Typed, TypeOK, GuestTypeOK, Doc
<1>2. UNCHANGED <<queue, phase, pending, bypass, committed, doc, loaded, edRev,
                  available, tree, serial, incoming, notes>>
  BY DEF host, lane, control, document, transfers
<1>3. CASE UNCHANGED <<events, heard>> /\ turn = "guest" /\ turn' = "guest"
  <2>1. LaneSafe'
    BY <1>2, <1>3 DEF LaneSafe, Opened, Phasing, Posed, Queued, CommitLast, Flying,
      Heard, InFlight, Events
  <2>2. Turns'
    BY <1>1, <1>2, <1>3 DEF Turns
  <2> QED BY <2>1, <2>2
<1>4. CASE View /\ UNCHANGED heard
  <2>1. turn = "guest" /\ turn' = "adopt" /\ events = <<>> /\ events' = <<>>
        /\ frame'.tree.ref = Ref(editor) /\ editor' = editor
    BY <1>4 DEF View
  <2>2. LaneSafe'
    BY <1>2, <1>4, <2>1 DEF LaneSafe, Opened, Phasing, Posed, Queued, CommitLast, Flying,
      Heard, InFlight, Events
  <2>3. Turns'
    BY <1>1, <1>2, <2>1 DEF Turns
  <2> QED BY <2>2, <2>3
<1>5. CASE Takes /\ (HearsOther \/ HearsCommit)
  <2>1. LaneSafe'
    BY <1>5, TakesLane
  <2>2. turn = "guest" /\ turn' = "guest"
    BY <1>5 DEF Takes
  <2>3. Turns'
    BY <1>1, <1>2, <2>2 DEF Turns
  <2> QED BY <2>1, <2>3
<1>6. CASE /\ Replace \/ MoveTo \/ Rollback \/ Remount \/ FlipEditable
           /\ UNCHANGED <<wire, slots, heard>>
  BY <1>3, <1>6 DEF wire, Replace, MoveTo, Rollback, Remount, FlipEditable, Program
<1> QED BY <1>4, <1>5, <1>6, GuestCases DEF HearsOther

LEMMA HostLane ==
  ASSUME Typed, Typed', IInv, Turns, LaneSafe, HostNext, UNCHANGED guest
  PROVE  LaneSafe' /\ Turns'
<1>1. UNCHANGED heard
  BY DEF guest
<1>2. Turns'
  BY HostTurns DEF LaneSafe
<1>3. LaneSafe'
  <2>1. queue # <<>> => available
    BY DEF IInv, Epochs
  <2> QED BY <1>1, <2>1, TypedParts, HostCases, AdoptLaneSafe, ProgressLane, StaysLane,
             RetriesLane, InstallsLane, DropsLane, DefaultsLane, GesturesLane,
             RequestsLane, EntersLane, CommitsLane
<1> QED BY <1>2, <1>3

-----------------------------------------------------------------------------
LEMMA InitLane == Init => LaneSafe /\ Turns
<1> SUFFICES ASSUME Init PROVE LaneSafe /\ Turns
  OBVIOUS
<1>1. /\ turn = "host" /\ events = <<>> /\ queue = <<>> /\ phase = Ready
      /\ pending = None /\ committed = None /\ incoming = None /\ loaded = FALSE
      /\ available = FALSE /\ tree = NoTree /\ serial = 0 /\ edRev = 0 /\ notes = <<>>
      /\ doc = Fresh(0) /\ heard = <<>> /\ older = editor
      /\ editor = [reset |-> 0, trev |-> 0, rev |-> 0, text |-> <<0, 0>>]
  BY DEF Init, WireInit, HostInit, GuestInit
<1>2. doc.reset = 0 /\ doc.rev = 0 /\ tree.ref = Ref(editor) /\ tree.ref.reset = 0
  BY <1>1 DEF Fresh, NoTree, NoRef, Ref
<1>3. Turns
  <2>1. InFlight("Commit") = {}
    BY <1>1 DEF InFlight, Events
  <2> QED BY <1>1, <1>2, <2>1 DEF Turns
<1>4. Opened /\ Phasing /\ Posed /\ Queued
  BY <1>1, <1>2 DEF Opened, Phasing, Posed, Queued
<1>5. CommitLast /\ Flying /\ Heard
  BY <1>1 DEF CommitLast, Flying, Heard, InFlight, Events
<1> QED BY <1>3, <1>4, <1>5 DEF LaneSafe

LInv == Typed /\ IInv /\ Turns /\ LaneSafe

LEMMA StepLane == LInv /\ [Next]_vars => LInv'
<1> SUFFICES ASSUME LInv, [Next]_vars PROVE LInv'
  OBVIOUS
<1>1. Typed' /\ IInv'
  BY StepTyped, StepIInv DEF LInv
<1>2. CASE HostNext /\ UNCHANGED guest
  BY <1>1, <1>2, HostLane DEF LInv
<1>3. CASE GuestNext /\ UNCHANGED host
  BY <1>1, <1>3, GuestLane DEF LInv
<1>4. CASE UNCHANGED vars
  <2>1. Turns'
    BY <1>4 DEF vars, wire, host, guest, lane, control, document, transfers, LInv, Turns,
      InFlight, Events
  <2>2. LaneSafe'
    BY <1>4 DEF vars, wire, host, guest, lane, control, document, transfers, LInv,
      LaneSafe, Opened, Phasing, Posed, Queued, CommitLast, Flying, Heard, InFlight, Events
  <2> QED BY <1>1, <2>1, <2>2 DEF LInv
<1> QED BY <1>2, <1>3, <1>4 DEF Next

\* What the lane relies on, within a tick and between ticks.
THEOREM LaneInvariance == Spec => []LInv
<1>1. Init => LInv
  BY InitTyped, InitIInv, InitLane DEF LInv
<1> QED BY <1>1, StepLane, PTL DEF Spec

\* An input reaches the program's history once, after all that were admitted
\* before it.
THEOREM CommitsInOrderCorrect == Spec => CommitsInOrder
<1> DEFINE Later == LET c == heard'[Len(heard')] IN
                    heard' # heard /\ c.what = "Commit" =>
                      \A i \in DOMAIN heard :
                        heard[i].what = "Commit" => heard[i].input < c.input
<1>1. LInv /\ [Next]_vars => [Later]_heard
  <2> SUFFICES ASSUME LInv, [Next]_vars, heard' # heard PROVE Later
    OBVIOUS
  <2>1. GuestNext
    BY DEF Next, vars, guest
  <2>2. CASE Takes /\ HearsCommit
    <3>1. PICK h : /\ heard' = Append(heard, h) /\ h.what = "Commit"
                   /\ Head(events).type = "Commit" /\ h.input = Head(events).input
      BY <2>2 DEF HearsCommit
    <3>2. Head(events) \in InFlight("Commit")
      BY <2>2, <3>1, Fields, TakesOne DEF Takes, InFlight, LInv
    <3>3. queue # <<>> /\ h.input = Head(queue).seq
      BY <3>1, <3>2 DEF LInv, LaneSafe, Flying
    <3>4. heard'[Len(heard')] = h
      BY <3>1, HeardAppend DEF LInv
    <3> QED BY <3>1, <3>2, <3>3, <3>4 DEF LInv, LaneSafe, Heard
  <2>3. ASSUME NEW h, h.what # "Commit", heard' = Append(heard, h) PROVE Later
    <3>1. heard'[Len(heard')] = h
      BY <2>3, HeardAppend DEF LInv
    <3> QED BY <2>3, <3>1
  <2> QED BY <2>1, <2>2, <2>3, GuestCases DEF HearsOther
<1> QED BY <1>1, LaneInvariance, PTL DEF Spec, CommitsInOrder

-----------------------------------------------------------------------------
(***************************************************************************)
(* The request the lane waits on.                                          *)
(***************************************************************************)
\* As long as the program has not made the document read-only, every tree is
\* editable, no input is dropped with a request, and a claim is bypassed
\* only while its key is replayed.
Front ==
  NeverFlipped =>
    /\ writable /\ tree.editable /\ (turn = "adopt" => frame.tree.editable)
    /\ pending # None => queue # <<>> /\ Head(queue).seq = pending.id.seq
    /\ bypass => /\ pending # None /\ pending.kind = "key" /\ committed = None
                 /\ phase.at \notin {"Decision", "Timeout"}

LEMMA Flips ==
  ASSUME Typed, Typed', GuestNext, NeverFlipped'
  PROVE  NeverFlipped /\ writable' = writable
<1>1. budget.flips \in 0..ReadOnlyFlips /\ budget'.flips \in 0..ReadOnlyFlips
      /\ budget \in [flips: 0..ReadOnlyFlips, rollbacks: 0..Rollbacks, remounts: 0..Remounts]
  BY DEF Typed, TypeOK, GuestTypeOK
<1>2. CASE UNCHANGED program
  BY <1>2 DEF program, NeverFlipped
<1>3. CASE FlipEditable
  <2>1. budget'.flips = budget.flips - 1
    BY <1>1, <1>3 DEF FlipEditable
  <2> QED BY <1>1, <2>1, GuestAssumption DEF NeverFlipped
<1>4. CASE Rollback
  BY <1>1, <1>4 DEF Rollback, NeverFlipped
<1>5. CASE Remount
  BY <1>1, <1>5 DEF Remount, NeverFlipped
<1>6. CASE Replace \/ MoveTo \/ View
  BY <1>2, <1>6 DEF Replace, MoveTo, View
<1> QED BY <1>2, <1>3, <1>4, <1>5, <1>6, GuestCases DEF Takes

LEMMA StepFront == LInv /\ Front /\ [Next]_vars => Front'
<1> SUFFICES ASSUME LInv, Front, [Next]_vars, NeverFlipped' PROVE Front'
  BY DEF Front
<1>1. Typed /\ Typed' /\ IInv /\ Turns /\ LaneSafe
  BY StepTyped DEF LInv
<1>2. CASE GuestNext /\ UNCHANGED host
  <2>1. NeverFlipped /\ writable' = writable
    BY <1>1, <1>2, Flips
  <2>2. UNCHANGED <<tree, phase, pending, queue, bypass, committed>>
    BY <1>2 DEF host, lane, control
  <2>3. turn' = "adopt" => frame'.tree.editable
    <3>1. CASE View
      BY <2>1, <3>1 DEF View, Front
    <3>2. CASE UNCHANGED <<turn, frame>>
      BY <2>1, <3>2 DEF Front
    <3> QED BY <1>2, <3>1, <3>2, GuestCases DEF Takes, wire
  <2> QED BY <2>1, <2>2, <2>3 DEF Front
<1>3. CASE UNCHANGED vars
  BY <1>3 DEF vars, wire, host, guest, lane, control, program, Front, NeverFlipped
<1>4. CASE HostNext /\ UNCHANGED guest
  <2>1. NeverFlipped /\ writable /\ writable' /\ tree.editable
        /\ (turn = "adopt" => frame.tree.editable)
        /\ (pending # None => queue # <<>> /\ Head(queue).seq = pending.id.seq)
        /\ (bypass => /\ pending # None /\ pending.kind = "key" /\ committed = None
                      /\ phase.at \notin {"Decision", "Timeout"})
    BY <1>4 DEF guest, program, NeverFlipped, Front
  <2>2. tree'.editable /\ turn' # "adopt"
    <3>1. CASE Adopt
      <4>1. turn = "adopt" /\ turn' = "documents" /\ tree' = frame.tree
        BY <3>1 DEF Adopt, New
      <4> QED BY <2>1, <4>1
    <3>2. CASE Documents \/ Progress
      BY <2>1, <3>2 DEF Documents, Progress
    <3> QED BY <1>4, <2>1, <3>1, <3>2, TurnCases
  <2>3. /\ pending' # None => queue' # <<>> /\ Head(queue').seq = pending'.id.seq
        /\ bypass' => /\ pending' # None /\ pending'.kind = "key" /\ committed' = None
                      /\ phase'.at \notin {"Decision", "Timeout"}
    <3>1. CASE Adopt
      <4>1. CASE pending' = None /\ bypass' = FALSE
        BY <4>1
      <4>2. CASE ~Releases /\ UNCHANGED <<pending, committed, bypass, phase>> /\ queue' = Kept
        <5>1. queue # <<>> => Kept # <<>> /\ Head(Kept) = Head(queue)
          <6>1. queue # <<>> => Head(queue).key \in New.keys
            BY <4>2 DEF Releases, OwnerRemoved
          <6> QED BY <1>1, <6>1, QueuedKept, Fields DEF LaneSafe
        <5> QED BY <2>1, <4>2, <5>1
      <4> QED BY <1>1, <3>1, <4>1, <4>2, AdoptCases DEF LaneSafe
    <3>2. CASE Progress
      BY <1>1, <2>1, <3>2, ProgressCases
    <3>3. CASE Stays
      BY <2>1, <3>3 DEF Stays, LaneKept, Faulted
    <3>4. CASE Retries
      <4> DEFINE id == Txn(pending.id.seq, phase.attempt + 1, Ref(doc))
                 req == [id |-> id, kind |-> pending.kind, state |-> Ref(doc)]
      <4>1. /\ pending # None /\ pending' = req /\ UNCHANGED <<queue, bypass>>
            /\ phase.at = "Decision"
        BY <3>4 DEF Retries, Retry
      <4>2. req.id = id /\ id.seq = pending.id.seq
        BY DEF Txn
      <4> HIDE DEF id, req
      <4> QED BY <2>1, <4>1, <4>2
    <3>5. CASE Installs
      BY <2>1, <3>5 DEF Installs, Install, lane, control
    <3>6. CASE Drops
      BY <2>1, <3>6 DEF Drops
    <3>7. CASE Defaults
      <4>1. phase.at \in Moving /\ pending # None /\ pending.kind # "click"
        BY <3>7 DEF Defaults
      <4>2. committed = None /\ pending.kind = "key"
        BY <1>1, <4>1, Fields DEF LaneSafe, Phasing, Posed, Moving, Asking, Kinds
      <4> QED BY <2>1, <3>7, <4>1, <4>2 DEF Defaults, Ready
    <3>8. CASE Gestures
      BY <2>1, <3>8 DEF Gestures
    <3>9. CASE Requests(Head(queue))
      <4> DEFINE id == Txn(Head(queue).seq, 1, Ref(doc))
                 req == [id |-> id, kind |-> Head(queue).kind, state |-> Ref(doc)]
      <4>1. /\ queue # <<>> /\ pending' = req /\ UNCHANGED <<queue, bypass, committed>>
            /\ (Head(queue).kind = "key" /\ ~bypass) \/ Head(queue).kind = "click"
        BY <3>9 DEF Requests, Requested
      <4>2. req.id = id /\ req.kind = Head(queue).kind /\ id.seq = Head(queue).seq
        BY DEF Txn
      <4>3. ~bypass
        BY <1>1, <2>1, <4>1 DEF LaneSafe, Posed
      <4> HIDE DEF id, req
      <4> QED BY <2>1, <4>1, <4>2, <4>3
    <3>10. ASSUME NEW in \in Input, Enters(in) PROVE <2>3
      <4>1. queue # <<>> => queue' # <<>> /\ Head(queue') = Head(queue)
        BY <1>1, <3>10, QueuedAppend DEF Enters, LaneSafe
      <4> QED BY <2>1, <3>10, <4>1 DEF Enters
    <3>11. ASSUME NEW r \in Results, Commits(r) PROVE <2>3
      BY <2>1, <3>11 DEF Commits
    <3>12. queue # <<>> => available
      BY <1>1 DEF IInv, Epochs
    <3> QED BY <1>1, <1>4, <3>1, <3>2, <3>3, <3>4, <3>5, <3>6, <3>7, <3>8, <3>9, <3>10, <3>11,
               <3>12, TypedParts, HostCases
  <2> QED BY <2>1, <2>2, <2>3 DEF Front
<1> QED BY <1>2, <1>3, <1>4 DEF Next

LEMMA InitFront == Init => Front
BY DEF Init, HostInit, GuestInit, WireInit, NoTree, Front

\* The host never waits for a request of an input that is not its oldest, nor
\* bypasses a claim nobody asked about: the lane and the request change
\* together in every step, as long as the document stays editable.
THEOREM PendingNamesFrontCorrect == Spec => []PendingNamesFront
<1>1. Front => PendingNamesFront
  BY DEF Front, PendingNamesFront
<1> QED BY <1>1, InitFront, StepFront, LaneInvariance, PTL DEF Spec
===============================================================================
