------------------------------ MODULE EditorHost ------------------------------
(***************************************************************************)
(* The host side of one editor document: the ordered lane of native input, *)
(* its Control, and the document transfers that feed it (`Inputs`).  A     *)
(* widget's outputs are applied before anything else runs, so a widget     *)
(* update is one step; the frame of a tick is taken in over several.       *)
(***************************************************************************)
EXTENDS EditorWire, Filter

CONSTANTS Navigation   \* the presentation has affordances to click on

ASSUME HostAssumption == Navigation \in BOOLEAN

VARIABLES
  queue,      \* lane: inputs, oldest first
  phase,      \* lane: what the oldest input waits for
  pending,    \* the request sent for the oldest input
  bypass,     \* bypass_claim: the next replay must not be claimed again
  committed,  \* revision the guest has to report before the next input
  told,       \* fault_reported
  faultKey,   \* fault_key
  doc,        \* the canonical document, last_text included
  loaded,     \* a transfer for doc.reset has completed
  available,  \* loaded for the epoch the tree renders
  tree,       \* the accepted tree
  serial,     \* editor_sequence
  edRev,      \* editor_revision
  notes,      \* editor_notifications
  incoming,   \* editor_transfer
  outgoing,   \* editor_outgoing
  docFault    \* editor_document_fault

control == <<pending, bypass, committed, told, faultKey>>
lane == <<queue, phase>>
document == <<doc, loaded, edRev>>
transfers == <<incoming, outgoing, docFault>>
host == <<lane, control, document, available, tree, serial, notes, transfers>>

Faults == {"Timeout", "Conflicts", "Identity", "Overflow"}
Ready == [at |-> "Ready", attempt |-> 0]
AwaitingGuest == [at |-> "AwaitingGuest", attempt |-> 0]
Decision(n) == [at |-> "Decision", attempt |-> n]
Faulted(f) == [at |-> f, attempt |-> 0]
IsFaulted(p) == p.at \in Faults

Input == [seq: Nat, key: Keys, kind: Kinds]

HostTypeOK ==
  /\ queue \in Seq(Input) /\ Len(queue) <= MaxInputs
  /\ phase \in [at: {"Ready", "AwaitingGuest", "Decision"} \cup Faults,
                attempt: 0 .. MaxAttempts]
  /\ pending \in Request \cup {None}
  /\ bypass \in BOOLEAN /\ committed \in Nat \cup {None} /\ told \in BOOLEAN
  /\ faultKey \in Keys \cup {None}
  /\ doc \in Doc /\ loaded \in BOOLEAN /\ available \in BOOLEAN
  /\ tree \in Tree /\ serial \in Nat /\ edRev \in Nat
  /\ notes \in Seq(Event)
  /\ incoming \in [id: TransferId, target: DocRef] \cup {None}
  /\ outgoing \in [id: TransferId, target: DocRef, stage: 0 .. TransferFrames]
                    \cup {None}
  /\ docFault \in DocRef \cup {None}

Fresh(r) == [reset |-> r, trev |-> 0, rev |-> 0, text |-> <<r, 0>>]

HostInit ==
  /\ queue = <<>> /\ phase = Ready
  /\ pending = None /\ bypass = FALSE /\ committed = None
  /\ told = FALSE /\ faultKey = None
  /\ doc = Fresh(0) /\ loaded = FALSE /\ available = FALSE
  /\ tree = NoTree /\ serial = 0 /\ edRev = 0 /\ notes = <<>>
  /\ incoming = None /\ outgoing = None /\ docFault = None

-----------------------------------------------------------------------------
(***************************************************************************)
(* editor_fault reports the lane's fault once, to the widget that admitted *)
(* the oldest input, as long as the tree still has it.                     *)
(***************************************************************************)
FaultOwner(q, k) == IF q # <<>> THEN Head(q).key ELSE k
FaultId(q) ==
  IF pending # None THEN pending.id
  ELSE Txn(IF q # <<>> THEN Head(q).seq ELSE serial', 0, Ref(doc))
FaultEvents(q, k, t) ==
  IF t \/ FaultOwner(q, k) \notin tree.keys THEN <<>>
  ELSE <<[type |-> "Fault", id |-> FaultId(q), state |-> Ref(doc)]>>

EditorFault(t) ==   \* t: whether it was reported before
  /\ events' = events \o FaultEvents(queue, faultKey', t)
  /\ told' = (t \/ FaultEvents(queue, faultKey', t) # <<>>)

Fail(f, t) ==
  /\ phase' = Faulted(f)
  /\ UNCHANGED <<pending, bypass, committed, faultKey, document, queue>>
  /\ EditorFault(t)

-----------------------------------------------------------------------------
(***************************************************************************)
(* commit_editor: the oldest input changes the document, unless a patch is *)
(* invalid or the text would outgrow its limit.                            *)
(***************************************************************************)
Results == {"text", "caret", "tooBig", "invalid"}

After(result) ==
  IF result = "text"
  THEN [doc EXCEPT !.rev = edRev + 1, !.trev = @ + 1,
                   !.text = <<doc.reset, edRev + 1>>]
  ELSE [doc EXCEPT !.rev = edRev + 1]

CommitEvent(result) ==
  [type |-> "Commit",
   id |-> IF pending # None THEN pending.id ELSE Txn(Head(queue).seq, 0, Ref(doc)),
   origin |-> IF pending # None THEN pending.kind ELSE None,
   before |-> Ref(doc), after |-> After(result), input |-> Head(queue).seq]

CommitEditor(result, t) ==
  \/ result = "invalid" /\ Fail("Identity", t)
  \/ result = "tooBig" /\ Fail("Overflow", t)
  \/ /\ result \in {"text", "caret"}
     /\ phase' = AwaitingGuest
     /\ doc' = After(result) /\ edRev' = edRev + 1
     /\ committed' = edRev + 1 /\ bypass' = FALSE /\ told' = t
     /\ events' = Append(events, CommitEvent(result))
     /\ UNCHANGED <<queue, pending, faultKey, loaded>>

Pop ==   \* lane.commit and lane.acknowledge at once: nothing to commit
  /\ queue' = Tail(queue) /\ phase' = Ready
  /\ UNCHANGED <<control, document, events>>

-----------------------------------------------------------------------------
(***************************************************************************)
(* The widgets.                                                            *)
(***************************************************************************)
Widget ==
  /\ turn = "host" /\ available /\ tree.keys # {}
  /\ tree.editable \/ Navigation
  /\ UNCHANGED <<turn, frame, available, tree, notes, transfers>>

AdmissibleMutant == ~IsFaulted(phase)   \* mutant: the length is not checked
Admissible == ~IsFaulted(phase) /\ Len(queue) < MaxInputs   \* Lane::admit

\* An input is numbered and queued.  What carries text, a key or a paste, may
\* exceed the lane's bytes.
Admit(k, kind) ==
  /\ Widget /\ k \in tree.keys
  /\ serial < MaxSerial
  /\ serial' = serial + 1
  /\ UNCHANGED <<pending, bypass, committed, document>>
  /\ \/ /\ Admissible
        /\ queue' = Append(queue, [seq |-> serial + 1, key |-> k, kind |-> kind])
        /\ UNCHANGED <<phase, told, faultKey, events>>
     \/ /\ ~Admissible \/ kind # "click"
        /\ phase' = IF IsFaulted(phase) THEN phase ELSE Faulted("Overflow")
        /\ faultKey' = k
        /\ EditorFault(told)
        /\ UNCHANGED queue

Deadline ==   \* check_deadline, five seconds after the first request
  /\ Widget /\ phase.at = "Decision"
  /\ UNCHANGED serial
  /\ Fail("Timeout", told)

Requested(in) ==   \* apply_editor_batch with a request
  LET req == [id |-> Txn(in.seq, 1, Ref(doc)), kind |-> in.kind,
              state |-> Ref(doc)]
  IN /\ phase' = Decision(1) /\ pending' = req
     /\ events' = Append(events, [type |-> "Request", req |-> req])
     /\ UNCHANGED <<queue, bypass, committed, told, faultKey, document>>

\* The oldest input is played into the native editor, and the batch of what
\* that produced is applied: a request, a native commit, or nothing at all.
Replay(k) ==
  /\ Widget /\ phase = Ready /\ queue # <<>>
  /\ Head(queue).key = k /\ k \in tree.keys
  /\ UNCHANGED serial
  /\ LET in == Head(queue) IN
     \/ in.kind = "key" /\ tree.editable /\ ~bypass /\ Requested(in)
     \/ in.kind = "click" /\ Navigation /\ tree.ref = Ref(doc) /\ Requested(in)
     \/ /\ tree.editable
        /\ \E r \in IF in.kind = "click" THEN {"caret"} ELSE Results \ {"invalid"} :
             CommitEditor(r, told)
     \/ IF pending = None \/ ~tree.editable THEN Pop
        ELSE CommitEditor("caret", told)

BeginTick ==
  /\ turn = "host" /\ turn' = "guest"
  /\ UNCHANGED <<events, frame, host>>

-----------------------------------------------------------------------------
(***************************************************************************)
(* Adopting the tree of the frame: editor_transactions::adopt, then        *)
(* editor_documents::adopt.  A new epoch or the loss of the widget that    *)
(* owns the oldest input cancels; without any widget the Control goes.     *)
(***************************************************************************)
New == frame.tree
NewEpochMutant == New.keys = {}   \* mutant: the epochs are not compared
NewEpoch == New.keys = {} \/ New.ref.reset # doc.reset
OwnerRemoved == queue # <<>> /\ Head(queue).key \notin New.keys
ReleasesMutant == NewEpoch   \* mutant: the owner's removal is not noticed
Releases == NewEpoch \/ OwnerRemoved
Kept == Among(queue, [seq: Nat, key: New.keys, kind: Kinds])

CancellationMutant == <<>>   \* mutant: the guest is not told
Cancellation ==
  IF pending # None /\ queue # <<>> /\ Head(queue).key \in tree.keys
  THEN <<[type |-> "Cancelled", id |-> pending.id, state |-> pending.state]>>
  ELSE <<>>

AdoptLane ==
  IF Releases
  THEN /\ queue' = IF NewEpoch THEN <<>> ELSE Kept
       /\ phase' = Ready
       /\ pending' = None /\ committed' = None /\ bypass' = FALSE
       /\ told' = FALSE /\ faultKey' = None
  ELSE /\ queue' = Kept
       /\ UNCHANGED <<phase, control>>

AdoptControl ==
  IF tree.keys = {} \/ New.keys = {}
  THEN doc' = Fresh(IF New.keys = {} THEN 0 ELSE New.ref.reset) /\ loaded' = FALSE
  ELSE UNCHANGED <<doc, loaded>>

Stale(target) == New.keys = {} \/ New.ref # target

\* Only a document loaded in the epoch of its widgets can be edited.
AvailableMutant == New.keys # {} /\ loaded'   \* mutant: in any epoch
Available == New.keys # {} /\ loaded' /\ doc'.reset = New.ref.reset

\* schedule asks the guest for a document that is not available.
WantedMutant(in, out, fault, avail) ==   \* mutant: only after a new epoch
  /\ in = None /\ out = None /\ fault = None /\ tree'.keys # {} /\ ~avail
  /\ tree'.ref.reset # doc'.reset
Wanted(in, out, fault, avail) ==
  in = None /\ out = None /\ fault = None /\ tree'.keys # {} /\ ~avail
Fetch == [id |-> [serial |-> serial + 1, attempt |-> 0, reset |-> tree'.ref.reset],
          target |-> tree'.ref]

Adopt ==
  /\ turn = "adopt" /\ turn' = "documents"
  /\ tree' = New
  /\ AdoptLane /\ AdoptControl
  /\ available' = Available
  /\ docFault' = IF docFault # None /\ Stale(docFault) THEN None ELSE docFault
  /\ LET aborted == incoming # None /\ Stale(incoming.target)
         left == IF aborted THEN None ELSE incoming
         cancelled == notes \o (IF Releases THEN Cancellation ELSE <<>>)
                        \o (IF aborted THEN <<Failed(incoming.id)>> ELSE <<>>)
     IN IF Wanted(left, outgoing, docFault', available')
        THEN /\ incoming' = Fetch /\ serial' = serial + 1
             /\ notes' = Append(cancelled, Ask(Fetch.id, Fetch.target))
        ELSE /\ incoming' = left /\ notes' = cancelled
             /\ UNCHANGED serial
  /\ UNCHANGED <<events, frame, edRev, outgoing>>

-----------------------------------------------------------------------------
(***************************************************************************)
(* The document message of the frame (editor_documents::frame).            *)
(***************************************************************************)
Message == frame.message
Outgoing(id) == outgoing # None /\ outgoing.id = id
Incoming(id) == incoming # None /\ incoming.id = id

RequestMirror ==   \* request_mirror
  /\ UNCHANGED <<lane, control, document, available, incoming, docFault>>
  /\ LET asked == /\ incoming = None /\ outgoing = None /\ tree.keys # {}
                  /\ pending # None /\ queue # <<>>
                  /\ Message.id = TransferOf(pending.id)
                  /\ Message.id.reset = doc.reset
                  /\ pending.state = Message.target
                  /\ Head(queue).key \in tree.keys
     IN IF asked /\ Ref(doc) = Message.target
        THEN /\ outgoing' = [id |-> Message.id, target |-> Message.target, stage |-> 0]
             /\ UNCHANGED events
        ELSE /\ events' = IF asked THEN Append(events, Failed(Message.id)) ELSE events
             /\ UNCHANGED outgoing

MirrorFailed ==   \* without a widget there is no Control and no lane to fail
  /\ outgoing' = None
  /\ IF tree.keys = {} THEN UNCHANGED <<lane, control, document, events>>
     ELSE Fail("Identity", told)
  /\ UNCHANGED <<available, incoming, docFault>>

Retry ==   \* the same input, asked again about the current document
  LET req == [id |-> Txn(pending.id.seq, phase.attempt + 1, Ref(doc)),
              kind |-> pending.kind, state |-> Ref(doc)]
  IN /\ phase' = Decision(phase.attempt + 1) /\ pending' = req
     /\ events' = Append(events, [type |-> "Request", req |-> req])
     /\ UNCHANGED <<queue, bypass, committed, told, faultKey, document>>

MirrorInstalled ==   \* retry_editor_after_mirror
  /\ outgoing' = None
  /\ UNCHANGED <<available, incoming, docFault>>
  /\ IF /\ pending # None /\ TransferOf(pending.id) = outgoing.id
        /\ pending.state = outgoing.target
        /\ queue # <<>> /\ Head(queue).key \in tree.keys
     THEN IF phase.at # "Decision"
          THEN /\ UNCHANGED <<lane, pending, bypass, committed, faultKey, document>>
               /\ EditorFault(told)
          ELSE \/ Fail("Timeout", told)
               \/ phase.attempt = MaxAttempts /\ Fail("Conflicts", told)
               \/ phase.attempt < MaxAttempts /\ Retry
     ELSE UNCHANGED <<lane, control, document, events>>

Install ==   \* the complete document, and nothing less, becomes editable
  /\ doc' = [reset |-> incoming.target.reset, trev |-> incoming.target.trev,
             rev |-> incoming.target.rev, text |-> Message.text]
  /\ loaded' = TRUE /\ available' = TRUE
  /\ edRev' = IF edRev < doc'.rev THEN doc'.rev ELSE edRev
  /\ events' = Append(events, Acknowledged(incoming.id))
  /\ incoming' = None
  /\ UNCHANGED <<lane, control, outgoing, docFault>>

Abandon ==
  /\ docFault' = incoming.target /\ incoming' = None
  /\ events' = Append(events, Failed(incoming.id))
  /\ UNCHANGED <<lane, control, document, available, outgoing>>

Ignore == UNCHANGED <<lane, control, document, available, transfers, events>>

Documents ==
  /\ turn = "documents" /\ turn' = "mirror"
  /\ UNCHANGED <<frame, tree, serial, notes>>
  /\ \/ Message = None /\ Ignore
     \/ /\ Message # None /\ Message.type = "Ask"
        /\ RequestMirror
     \/ /\ Message # None /\ Message.type = "Failed"
        /\ IF Outgoing(Message.id) THEN MirrorFailed
           ELSE IF Incoming(Message.id) THEN Abandon ELSE Ignore
     \/ /\ Message # None /\ Message.type = "Acknowledged"
        /\ IF Outgoing(Message.id) THEN MirrorInstalled ELSE Ignore
     \/ /\ Message # None /\ Message.type = "Part"
        /\ IF ~Incoming(Message.id) \/ Message.part = "more" THEN Ignore
           ELSE IF Message.part = "last" THEN Install ELSE Abandon

-----------------------------------------------------------------------------
(***************************************************************************)
(* The rest of editor_documents::frame, and the acknowledgment that lets   *)
(* the lane go on: the guest reports a revision as new as the commit.      *)
(***************************************************************************)
MirrorActive ==
  /\ tree.keys # {} /\ doc.reset = outgoing.id.reset
  /\ phase.at = "Decision"
  /\ pending # None /\ TransferOf(pending.id) = outgoing.id

MirrorEnded == MirrorActive /\ outgoing.stage = TransferFrames
MirrorPart ==   \* EditorTransferSender::next_frame
  IF Ref(doc) # outgoing.target THEN "abort"
  ELSE IF outgoing.stage + 1 = TransferFrames THEN "last" ELSE "more"
MirrorSent ==
  IF outgoing = None \/ MirrorEnded THEN <<>>
  ELSE IF MirrorActive THEN <<Part(outgoing.id, MirrorPart, doc.text)>>
  ELSE <<Failed(outgoing.id)>>
MirrorLeft ==
  IF outgoing = None \/ MirrorEnded THEN outgoing
  ELSE IF MirrorActive /\ MirrorPart # "abort"
  THEN [outgoing EXCEPT !.stage = @ + 1] ELSE None

ObservedMutant ==   \* mutant: waits for a revision past the commit
  /\ ~frame.busy /\ queue # <<>> /\ committed # None
  /\ Head(queue).key \in tree.keys
  /\ tree.ref.reset = doc.reset /\ tree.ref.rev > committed
Observed ==
  /\ ~frame.busy /\ queue # <<>> /\ committed # None
  /\ Head(queue).key \in tree.keys
  /\ tree.ref.reset = doc.reset /\ tree.ref.rev >= committed

PoppedMutant == queue   \* mutant: the phase moves on, the input stays
Popped == Tail(queue)   \* Lane::acknowledge

AckLane ==
  IF Observed
  THEN /\ queue' = IF phase = AwaitingGuest THEN Popped ELSE queue
       /\ phase' = IF phase = AwaitingGuest THEN Ready ELSE phase
       /\ pending' = None /\ committed' = None
       /\ UNCHANGED <<bypass, told, faultKey>>
  ELSE UNCHANGED <<lane, control>>

Progress ==
  /\ turn = "mirror" /\ turn' = "decide"
  /\ outgoing' = MirrorLeft
  /\ UNCHANGED <<frame, document, available, tree, docFault>>
  /\ IF Wanted(incoming, outgoing', docFault, available)
     THEN /\ incoming' = Fetch /\ serial' = serial + 1
          /\ events' = events \o MirrorSent \o notes
                         \o <<Ask(Fetch.id, Fetch.target)>>
     ELSE /\ events' = events \o MirrorSent \o notes
          /\ UNCHANGED <<incoming, serial>>
  /\ notes' = <<>>
  /\ AckLane

-----------------------------------------------------------------------------
(***************************************************************************)
(* The decisions of the frame, and the sweep of unreported faults.         *)
(***************************************************************************)
Answered == Head(frame.answers)
Addressed ==
  /\ pending # None /\ Answered.id = pending.id
  /\ Answered.id.reset = doc.reset
  /\ queue # <<>> /\ Head(queue).key \in tree.keys
Conflicting == doc.rev # Answered.id.rev \/ doc.trev # Answered.id.trev

Quietly(p) ==   \* the lane changes phase and the sweep reports it
  /\ phase' = p
  /\ UNCHANGED <<queue, control, document, events>>

Conflict ==
  IF phase.at # "Decision" THEN Quietly(phase)
  ELSE \/ Quietly(Faulted("Timeout"))
       \/ phase.attempt = MaxAttempts /\ Quietly(Faulted("Conflicts"))
       \/ phase.attempt < MaxAttempts /\ Retry

Clicked == pending.kind = "click"
AnsweredBy(a) == Answered.answer = a

Defaulted(t) ==   \* the key is replayed natively, unclaimed
  /\ AnsweredBy("Default") /\ told' = t
  /\ phase' = IF Clicked THEN Faulted("Identity") ELSE Ready
  /\ bypass' = (bypass \/ ~Clicked)
  /\ UNCHANGED <<queue, pending, committed, faultKey, document, events>>

Interacted(t) ==   \* the gesture is only reported
  /\ AnsweredBy("Noop") /\ Clicked /\ told' = t
  /\ UNCHANGED <<queue, pending, bypass, faultKey, document>>
  /\ IF Head(queue).seq = pending.id.seq
     THEN /\ phase' = AwaitingGuest /\ committed' = doc.rev
          /\ events' = Append(events,
               [type |-> "Interaction", id |-> pending.id, state |-> pending.state])
     ELSE /\ phase' = IF IsFaulted(phase) THEN Decision(pending.id.attempt)
                      ELSE phase
          /\ UNCHANGED <<committed, events>>

Applied(t) ==
  /\ AnsweredBy("Apply") \/ AnsweredBy("BadApply")
  /\ \/ /\ ~tree.editable
        /\ phase' = Faulted("Identity") /\ told' = t
        /\ UNCHANGED <<queue, pending, bypass, committed, faultKey, document,
                       events>>
     \/ /\ tree.editable /\ AnsweredBy("BadApply")
        /\ CommitEditor("invalid", t)
     \/ /\ tree.editable /\ AnsweredBy("Apply")
        /\ \E r \in Results \ {"invalid"} : CommitEditor(r, t)

Decided(t) ==
  \/ Defaulted(t) \/ Interacted(t) \/ Applied(t)
  \/ AnsweredBy("Noop") /\ ~Clicked /\ CommitEditor("caret", t)

Answer ==
  /\ turn = "decide" /\ frame.answers # <<>>
  /\ frame' = [frame EXCEPT !.answers = Tail(@)]
  /\ UNCHANGED <<turn, available, tree, serial, notes, transfers>>
  /\ IF ~Addressed THEN UNCHANGED <<lane, control, document, events>>
     ELSE IF Conflicting THEN Conflict
     ELSE IF phase.at = "Timeout" THEN Decided(FALSE)
     ELSE IF phase.at \in {"Ready", "Decision"} THEN Decided(told)
     ELSE UNCHANGED <<lane, control, document, events>>

SweptMutant == FALSE   \* mutant: faults raised by a decision stay quiet
Swept == IsFaulted(phase)

EndTick ==
  /\ turn = "decide" /\ frame.answers = <<>>
  /\ turn' = "host"
  /\ UNCHANGED <<frame, available, tree, serial, notes, transfers>>
  /\ IF Swept
     THEN /\ UNCHANGED <<lane, pending, bypass, committed, faultKey, document>>
          /\ EditorFault(told)
     ELSE UNCHANGED <<lane, control, document, events>>

HostNext ==
  \/ \E k \in Keys, kind \in Kinds : Admit(k, kind)
  \/ \E k \in Keys : Replay(k)
  \/ Deadline \/ BeginTick
  \/ Adopt \/ Documents \/ Progress \/ Answer \/ EndTick
===============================================================================
