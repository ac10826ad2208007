---------------------------- MODULE EditorSession -----------------------------
(***************************************************************************)
(* One editor document across the host and the guest.                      *)
(***************************************************************************)
EXTENDS EditorHost, EditorGuest

vars == <<wire, host, guest>>

Init == WireInit /\ HostInit /\ GuestInit
Next ==
  \/ HostNext /\ UNCHANGED guest
  \/ GuestNext /\ UNCHANGED host
Spec == Init /\ [][Next]_vars

(***************************************************************************)
(* Fairness: the driver hands every event over and renders, the host takes *)
(* every frame in, redraws while the lane wants it and ticks; a guest with *)
(* tasks or withheld responses does not stay busy for ever.                *)
(***************************************************************************)
Ticks ==
  \/ (GuestEvent \/ View) /\ UNCHANGED host
  \/ (BeginTick \/ Adopt \/ Documents \/ Progress \/ Answer \/ EndTick)
       /\ UNCHANGED guest
Fairness ==
  /\ WF_vars(Ticks)
  /\ SF_vars((\E k \in Keys : Replay(k)) /\ UNCHANGED guest)
  /\ SF_vars(View /\ ~frame'.busy /\ UNCHANGED host)
FairSpec == Spec /\ Fairness

-----------------------------------------------------------------------------
\* Every variable of the three modules keeps its type, and the lane its
\* length (MAX_INPUTS).
TypeOK == WireTypeOK /\ HostTypeOK /\ GuestTypeOK

AtRest == turn = "host"

\* What the program has not done so far.
NeverFlipped == budget.flips = ReadOnlyFlips
NeverRolledBack == budget.rollbacks = Rollbacks

Events == {events[i] : i \in DOMAIN events}
InFlight(what) == {e \in Events : e.type = what}

\* Between ticks the guest's Editor is the host's document, or exactly one
\* commit away from it and that commit is queued: commit_editor changes the
\* canonical document at once, EditorTransaction::apply follows a tick later.
\* A program that stores an older clone back has itself taken the step away.
MirrorInStep ==
  NeverRolledBack /\ AtRest /\ available =>
    IF InFlight("Commit") = {} THEN editor = doc
    ELSE \E c \in InFlight("Commit") :
           /\ InFlight("Commit") = {c}
           /\ c.before = Ref(editor) /\ c.after = doc

\* The two sides never disagree about one version of the text, whatever older
\* clone the program stored back and whatever a mirror transfer repaired:
\* accept_patch and install_mirror take over revisions with their text.
VersionsAgree ==
  loaded /\ editor.reset = doc.reset /\ editor.trev = doc.trev
    => editor.text = doc.text

\* The request the host waits on was sent for its oldest input, and a claim
\* is bypassed only while that key is replayed natively: adopt, editor_frame
\* and apply_editor_batch change the lane and the request together.  Only a
\* document made read-only drops an input and leaves its request behind.
PendingNamesFront ==
  NeverFlipped =>
    /\ pending # None => queue # <<>> /\ Head(queue).seq = pending.id.seq
    /\ bypass => pending # None /\ pending.kind = "key"

\* No input admitted in one epoch is still queued in another: adopt drops the
\* accepted queue with the document it was typed into.
InputsStayInEpoch == AtRest /\ queue # <<>> => available

\* A decision that keeps the guest from being snapshotted (editor_pending) is
\* one the host still waits for, or its cancellation is on the way.
BarrierHasOwner ==
  AtRest =>
    \A p \in gpending :
      \/ pending # None /\ pending.id.seq = p.seq
      \/ \E e \in InFlight("Cancelled") : e.id = p

\* So it is as long as the program neither stores an older clone back nor
\* makes the document read-only: with either, the guest can keep a decision
\* that nobody waits for.
BarrierIsHeld == NeverFlipped /\ NeverRolledBack => BarrierHasOwner

\* A faulted lane has told the widget that owns the fault, if it is still
\* there: editor_fault at the fault, or the sweep that ends editor_frame.
NoSilentFault ==
  AtRest /\ IsFaulted(phase) =>
    told \/ FaultOwner(queue, faultKey) \notin tree.keys

\* Inputs reach the program's history in the order they were admitted, each
\* at most once: the lane replays its front only, and waits for the guest.
CommitsInOrder ==
  [][ LET c == heard'[Len(heard')] IN
      heard' # heard /\ c.what = "Commit" =>
        \A i \in DOMAIN heard :
          heard[i].what = "Commit" => heard[i].input < c.input ]_heard

\* A cancelled request does not also produce a commit
\* (docs/editor-transactions.md, "Presentation interactions").
CancelledNeverCommits ==
  \A i, j \in DOMAIN heard :
    heard[i].what = "Commit" /\ heard[j].what = "Cancelled" =>
      heard[i].id # heard[j].id

\* The lane of an editable document never waits for ever: its inputs are
\* replayed, decided, committed and acknowledged, or it faults.  A commit that
\* a guest refuses because its program stored an older clone back is excepted.
LaneProgresses ==
  []<>(queue = <<>> \/ IsFaulted(phase) \/ ~tree.editable \/ budget.rollbacks < Rollbacks)

\* A rendered document becomes available, or its transfer is known to have
\* failed for the version rendered.
DocumentArrives ==
  []<>(available \/ tree.keys = {} \/ docFault = tree.ref)
===============================================================================
