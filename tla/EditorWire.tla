------------------------------ MODULE EditorWire ------------------------------
(***************************************************************************)
(* What the host and the guest of one editor document exchange.  The host  *)
(* calls the guest once per tick: it hands over the queued events, the     *)
(* guest answers with a frame, and neither runs while the other does.      *)
(*                                                                         *)
(* One logical document is modelled, rendered by any of the widgets in     *)
(* Keys.  Its text is told apart by where it was last written, the pair of *)
(* the reset epoch and the revision of that write.  The cursor follows the *)
(* revision, so a reference to a document is its epoch and revisions.      *)
(***************************************************************************)
EXTENDS Naturals, Sequences, FiniteSets

CONSTANTS
  Keys,            \* widgets that may render the document
  None,            \* absence
  MaxInputs,       \* MAX_INPUTS, the length of the lane
  MaxAttempts,     \* MAX_ATTEMPTS, decisions asked for one input
  TransferFrames,  \* frames of a complete document transfer
  MaxSerial,       \* bound: inputs and transfers numbered in a behaviour
  MaxReset         \* bound: epochs of the document

ASSUME WireAssumption ==
  /\ MaxInputs \in Nat \ {0} /\ MaxAttempts \in Nat \ {0}
  /\ TransferFrames \in Nat \ {0}
  /\ MaxSerial \in Nat /\ MaxReset \in Nat

VARIABLES
  turn,    \* whose step it is, and of which part of the tick
  events,  \* pending: the events of the next tick, in order
  frame    \* the guest's answer to the last tick

wire == <<turn, events, frame>>

Kinds == {"key", "text", "click"}  \* a claimable key, other input, a gesture
Answers == {"Default", "Noop", "Apply", "BadApply"}

Doc == [reset: Nat, trev: Nat, rev: Nat, text: Nat \X Nat]
DocRef == [reset: Nat, trev: Nat, rev: Nat]
Ref(d) == [reset |-> d.reset, trev |-> d.trev, rev |-> d.rev]

\* A transaction is named by its input, the attempt and the state it was
\* asked about; a transfer by its serial number, the attempt and the epoch.
TxnId == [seq: Nat, attempt: Nat, reset: Nat, trev: Nat, rev: Nat]
TransferId == [serial: Nat, attempt: Nat, reset: Nat]
Txn(n, a, r) ==
  [seq |-> n, attempt |-> a, reset |-> r.reset, trev |-> r.trev, rev |-> r.rev]
TransferOf(id) ==
  [serial |-> id.seq, attempt |-> id.attempt, reset |-> id.reset]

Request == [id: TxnId, kind: Kinds, state: DocRef]
Response == [id: TxnId, answer: Answers]

ASSUME NoneAssumption == None \notin Request   \* absence is not a request

\* One frame of a transfer carries a part of the text, its end, or an abort.
Ask(id, target)        == [type |-> "Ask", id |-> id, target |-> target]
Part(id, part, text)   == [type |-> "Part", id |-> id, part |-> part, text |-> text]
Acknowledged(id)       == [type |-> "Acknowledged", id |-> id]
Failed(id)             == [type |-> "Failed", id |-> id]
Document ==
  [type: {"Ask"}, id: TransferId, target: DocRef]
    \cup [type: {"Part"}, id: TransferId, part: {"more", "last", "abort"},
          text: Nat \X Nat]
    \cup [type: {"Acknowledged", "Failed"}, id: TransferId]

Event ==
  Document
    \cup [type: {"Request"}, req: Request]
    \cup [type: {"Commit"}, id: TxnId, origin: Kinds \cup {None},
          before: DocRef, after: Doc, input: Nat]
    \cup [type: {"Interaction", "Fault", "Cancelled"}, id: TxnId, state: DocRef]

Tree == [keys: SUBSET Keys, editable: BOOLEAN, ref: DocRef]
Frame ==
  [tree: Tree, answers: Seq(Response), message: Document \cup {None},
   busy: BOOLEAN]

NoRef == [reset |-> 0, trev |-> 0, rev |-> 0]
NoTree == [keys |-> {}, editable |-> TRUE, ref |-> NoRef]
NoFrame == [tree |-> NoTree, answers |-> <<>>, message |-> None, busy |-> FALSE]

WireTypeOK ==
  /\ turn \in {"host", "guest", "adopt", "documents", "mirror", "decide"}
  /\ events \in Seq(Event)
  /\ frame \in Frame

WireInit == turn = "host" /\ events = <<>> /\ frame = NoFrame
===============================================================================
