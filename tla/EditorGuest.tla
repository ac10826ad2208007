----------------------------- MODULE EditorGuest ------------------------------
(***************************************************************************)
(* The guest side: application state owns the Editor, and the driver feeds *)
(* it the events of a tick one by one, then renders a frame.  The program  *)
(* may assign the document, move or remove its widgets and change whether  *)
(* they are editable at any point of a tick.                               *)
(***************************************************************************)
EXTENDS EditorWire, Filter

CONSTANTS
  ReadOnlyFlips,  \* bound: changes of the editable flag
  Rollbacks,      \* bound: assignments of an older clone of the Editor
  Remounts        \* bound: changes of the mounted widgets

ASSUME GuestAssumption ==
  ReadOnlyFlips \in Nat /\ Rollbacks \in Nat /\ Remounts \in Nat

VARIABLES
  editor,    \* the Editor in the application's state
  older,     \* a clone the program kept of this epoch, as old as it likes
  mounted,   \* the widgets the view renders for it
  writable,  \* their editable flag
  gpending,  \* editor_pending: decisions the guest still answers for
  outbox,    \* editor_responses not yet in a frame
  message,   \* editor_documents: at most one message per frame
  sender,    \* editor_sender: the transfer to the host
  mirror,    \* editor_receiver: the repair requested from the host
  heard,     \* what the binding's on_event was called with, in order
  budget     \* what the program may still do

program == <<mounted, writable, budget>>
slots == <<gpending, outbox, message, sender, mirror>>
guest == <<editor, older, program, slots, heard>>

GuestTypeOK ==
  /\ editor \in Doc /\ older \in Doc
  /\ mounted \subseteq Keys /\ writable \in BOOLEAN
  /\ gpending \subseteq TxnId /\ outbox \in Seq(Response)
  /\ message \in Document \cup {None}
  /\ sender \in [id: TransferId, target: DocRef, stage: 0 .. TransferFrames]
                  \cup {None}
  /\ mirror \in [id: TransferId, target: DocRef] \cup {None}
  /\ heard \in Seq([what: {"Commit", "Interaction", "Fault", "Cancelled"},
                    id: TxnId, origin: Kinds \cup {None}, input: Nat])
  /\ budget \in [flips: 0 .. ReadOnlyFlips, rollbacks: 0 .. Rollbacks,
                 remounts: 0 .. Remounts]

GuestInit ==
  /\ editor = [reset |-> 0, trev |-> 0, rev |-> 0, text |-> <<0, 0>>]
  /\ older = editor
  /\ mounted = Keys /\ writable = TRUE
  /\ gpending = {} /\ outbox = <<>> /\ message = None
  /\ sender = None /\ mirror = None /\ heard = <<>>
  /\ budget = [flips |-> ReadOnlyFlips, rollbacks |-> Rollbacks,
               remounts |-> Remounts]

-----------------------------------------------------------------------------
(***************************************************************************)
(* The program.                                                            *)
(***************************************************************************)
Program == turn = "guest" /\ UNCHANGED <<wire, slots, heard>>

Replace ==   \* an assignment opens a new epoch, even for the same text
  /\ Program /\ editor.reset < MaxReset
  /\ LET r == editor.reset + 1 IN
       editor' = [reset |-> r, trev |-> 0, rev |-> 0, text |-> <<r, 0>>]
  /\ older' = editor'
  /\ UNCHANGED program

MoveTo ==    \* the caret is moved from code: a new epoch of the same text
  /\ Program /\ editor.reset < MaxReset
  /\ editor' = [editor EXCEPT !.reset = @ + 1, !.trev = 0]
  /\ older' = editor'
  /\ UNCHANGED program

Rollback ==  \* the program stores an older clone back, in the same epoch
  /\ Program /\ budget.rollbacks > 0 /\ older # editor
  /\ editor' = older
  /\ budget' = [budget EXCEPT !.rollbacks = @ - 1]
  /\ UNCHANGED <<older, mounted, writable>>

Remount ==
  /\ Program /\ budget.remounts > 0
  /\ \E ks \in (SUBSET Keys) \ {mounted} : mounted' = ks
  /\ budget' = [budget EXCEPT !.remounts = @ - 1]
  /\ UNCHANGED <<editor, older, writable>>

FlipEditable ==
  /\ Program /\ budget.flips > 0
  /\ writable' = ~writable
  /\ budget' = [budget EXCEPT !.flips = @ - 1]
  /\ UNCHANGED <<editor, older, mounted>>

-----------------------------------------------------------------------------
(***************************************************************************)
(* The events of a tick.                                                   *)
(***************************************************************************)
Consume(type) ==
  /\ turn = "guest" /\ events # <<>> /\ Head(events).type = type
  /\ events' = Tail(events)
  /\ UNCHANGED <<turn, frame, program>>

\* editor_document_failure: a frame has room for one message.
Say(m) == message' = IF message = None THEN m ELSE message

EditorRequestCurrent(id) ==
  \A p \in gpending : p.seq = id.seq => p.attempt <= id.attempt
EditorMatchesPending(id) == \A p \in gpending : p.seq = id.seq => p = id
Replacing(id) == {p \in gpending : p.seq # id.seq} \cup {id}

Acknowledge(id) ==   \* editor_acknowledge
  /\ gpending' = gpending \ {id}
  /\ outbox' = Among(outbox, [id: TxnId \ {id}, answer: Answers])

Hear(what, id, origin, input) ==
  heard' = Append(heard, [what |-> what, id |-> id, origin |-> origin,
                          input |-> input])

AskMirror(req) ==   \* request_editor_mirror
  LET id == TransferOf(req.id) IN
  IF sender # None \/ message # None
  THEN Say(Failed(id)) /\ UNCHANGED <<gpending, mirror>>
  ELSE IF mirror # None
  THEN /\ IF mirror = [id |-> id, target |-> req.state]
          THEN UNCHANGED message
          ELSE Say(Failed(id))
       /\ UNCHANGED <<gpending, mirror>>
  ELSE /\ mirror' = [id |-> id, target |-> req.state]
       /\ gpending' = Replacing(req.id)
       /\ message' = Ask(id, req.state)

AcceptRequest ==
  /\ Consume("Request")
  /\ UNCHANGED <<editor, older, heard, sender>>
  /\ LET req == Head(events).req IN
     \/ /\ EditorRequestCurrent(req.id) /\ Ref(editor) = req.state
        /\ \E a \in Answers :
             outbox' = Append(outbox, [id |-> req.id, answer |-> a])
        /\ gpending' = Replacing(req.id)
        /\ UNCHANGED <<message, mirror>>
     \/ /\ EditorRequestCurrent(req.id) /\ Ref(editor) # req.state
        /\ req.state.reset = editor.reset
        /\ AskMirror(req) /\ UNCHANGED outbox
     \/ /\ EditorRequestCurrent(req.id) => req.state.reset # editor.reset
        /\ UNCHANGED <<gpending, outbox, message, mirror>>

FitsMutant(e) ==   \* mutant: the state it was made in is not compared
  EditorMatchesPending(e.id) /\ e.after.rev > editor.rev
Fits(e) ==
  /\ EditorMatchesPending(e.id)
  /\ e.before = [reset |-> e.id.reset, trev |-> e.id.trev, rev |-> e.id.rev]
  /\ e.before = Ref(editor) /\ e.after.rev > editor.rev

AcceptCommit ==   \* EditorTransactionEvent::Commit and Editor::accept_patch
  /\ Consume("Commit")
  /\ UNCHANGED <<message, sender, mirror>>
  /\ LET e == Head(events) IN
     IF Fits(e)
     THEN /\ editor' = [e.after EXCEPT !.text =
                           IF e.after.trev = e.before.trev THEN editor.text
                           ELSE @]
          /\ older' \in {older, editor}   \* it keeps its clone, or a new one
          /\ Hear("Commit", e.id, e.origin, e.input)
          /\ Acknowledge(e.id)
     ELSE UNCHANGED <<editor, older, heard, gpending, outbox>>

AcceptInteraction ==
  /\ Consume("Interaction")
  /\ UNCHANGED <<editor, older, message, sender, mirror>>
  /\ LET e == Head(events) IN
     IF EditorMatchesPending(e.id) /\ Ref(editor) = e.state
     THEN Hear("Interaction", e.id, None, e.id.seq) /\ Acknowledge(e.id)
     ELSE UNCHANGED <<heard, gpending, outbox>>

Finish(id) ==   \* finish_editor_transfer
  /\ mirror' = IF mirror # None /\ mirror.id = id THEN None ELSE mirror
  /\ sender' = IF sender # None /\ sender.id = id THEN None ELSE sender

AcceptFault ==
  /\ Consume("Fault")
  /\ UNCHANGED <<editor, older, message>>
  /\ LET e == Head(events) IN
     /\ Finish(TransferOf(e.id))
     /\ IF EditorMatchesPending(e.id) /\ e.state.reset = e.id.reset
           /\ e.state.reset = editor.reset
        THEN Hear("Fault", e.id, None, e.id.seq) /\ Acknowledge(e.id)
        ELSE UNCHANGED <<heard, gpending, outbox>>

AcceptCancelled ==   \* released by the driver before any callback runs
  /\ Consume("Cancelled")
  /\ UNCHANGED <<editor, older, message>>
  /\ LET e == Head(events) IN
     /\ Finish(TransferOf(e.id))
     /\ IF EditorMatchesPending(e.id)
        THEN /\ Acknowledge(e.id)
             /\ \/ Hear("Cancelled", e.id, None, e.id.seq)
                \/ UNCHANGED heard   \* the route left with its widget
        ELSE UNCHANGED <<heard, gpending, outbox>>

StartTransfer ==   \* the host asks for the document
  /\ Consume("Ask")
  /\ UNCHANGED <<editor, older, heard, gpending, outbox, mirror>>
  /\ LET e == Head(events) IN
     IF e.target # Ref(editor) \/ (sender # None /\ sender.id # e.id)
     THEN Say(Failed(e.id)) /\ UNCHANGED sender
     ELSE /\ sender' = IF sender # None THEN sender
                       ELSE [id |-> e.id, target |-> e.target, stage |-> 0]
          /\ UNCHANGED message

EndTransfer ==
  /\ Consume("Acknowledged") \/ Consume("Failed")
  /\ Finish(Head(events).id)
  /\ UNCHANGED <<editor, older, heard, gpending, outbox, message>>

ReceiveMirror ==   \* receive_editor_mirror, then Editor::install_mirror
  /\ Consume("Part")
  /\ UNCHANGED <<heard, gpending, outbox, sender>>
  /\ LET e == Head(events) IN
     IF mirror = None \/ mirror.id # e.id
     THEN Say(Failed(e.id)) /\ UNCHANGED <<editor, older, mirror>>
     ELSE IF e.part = "more" THEN UNCHANGED <<editor, older, message, mirror>>
     ELSE /\ mirror' = None
          /\ IF /\ e.part = "last" /\ mirror.target.reset = editor.reset
                /\ mirror.target.rev >= editor.rev
                /\ mirror.target.trev >= editor.trev
             THEN /\ editor' = [reset |-> mirror.target.reset,
                                trev |-> mirror.target.trev,
                                rev |-> mirror.target.rev, text |-> e.text]
                  /\ older' \in {older, editor}
                  /\ Say(Acknowledged(e.id))
             ELSE Say(Failed(e.id)) /\ UNCHANGED <<editor, older>>

-----------------------------------------------------------------------------
(***************************************************************************)
(* The frame.  A view that renders the document produces the next frame of *)
(* its transfer.  Responses wait while others fill the frame's budget, and *)
(* then the guest stays busy, as it does while tasks are left to run.      *)
(***************************************************************************)
Sending == sender # None /\ mounted # {} /\ message = None
             /\ sender.stage < TransferFrames

NextPart ==   \* EditorTransferSender::next_frame
  IF Ref(editor) # sender.target THEN Part(sender.id, "abort", editor.text)
  ELSE Part(sender.id,
            IF sender.stage + 1 = TransferFrames THEN "last" ELSE "more",
            editor.text)

View ==
  /\ turn = "guest" /\ events = <<>>
  /\ turn' = "adopt"
  /\ \E held, tasks \in BOOLEAN :
       /\ held => outbox # <<>>
       /\ frame' = [tree |-> [keys |-> mounted, editable |-> writable,
                              ref |-> Ref(editor)],
                    answers |-> IF held THEN <<>> ELSE outbox,
                    message |-> IF Sending THEN NextPart ELSE message,
                    busy |-> held \/ tasks]
       /\ outbox' = IF held THEN outbox ELSE <<>>
  /\ message' = None
  /\ sender' = IF ~Sending THEN sender
               ELSE [sender EXCEPT !.stage =
                       IF NextPart.part = "more" THEN @ + 1 ELSE TransferFrames]
  /\ UNCHANGED <<events, editor, older, program, gpending, mirror, heard>>

GuestEvent ==
  \/ AcceptRequest \/ AcceptCommit \/ AcceptInteraction
  \/ AcceptFault \/ AcceptCancelled
  \/ StartTransfer \/ EndTransfer \/ ReceiveMirror

GuestNext ==
  \/ Replace \/ MoveTo \/ Rollback \/ Remount \/ FlipEditable
  \/ GuestEvent \/ View
===============================================================================
