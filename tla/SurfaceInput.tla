---------------------------- MODULE SurfaceInput ----------------------------
(***************************************************************************)
(* What a window of the app store promises to the person in front of it:   *)
(* what is done to the tree on screen runs the app's handlers once, in     *)
(* order, whichever instance of the app is behind the window.  Replacing   *)
(* the instance by a rebuilt one is not visible here at all.  Only an app  *)
(* that ended loses what had not run yet, and only then may it start over. *)
(***************************************************************************)
EXTENDS Naturals, Sequences

VARIABLES
  done,   \* inputs whose handlers ran, in the state the app now has
  queue,  \* inputs not yet run
  count,  \* inputs so far
  ended   \* the app trapped, or its window is closed

vars == <<done, queue, count, ended>>

Init ==
  /\ done = <<>>
  /\ queue = <<>>
  /\ count = 0
  /\ ended = FALSE

\* An input on the tree the app last sent; one on an older tree is nobody's.
Input ==
  /\ ~ended
  /\ count' = count + 1
  /\ queue' \in {queue, Append(queue, count')}
  /\ UNCHANGED <<done, ended>>

\* The app runs all there is, and may end with it.
Run ==
  /\ done' = done \o queue
  /\ queue' = <<>>
  /\ ended' \in {ended, TRUE}
  /\ UNCHANGED count

End ==
  /\ queue' = <<>>
  /\ ended' = TRUE
  /\ UNCHANGED <<done, count>>

\* A fresh start, which may come too late for the window.
Restart ==
  /\ ended
  /\ done' = <<>>
  /\ ended' \in BOOLEAN
  /\ UNCHANGED <<queue, count>>

Next == Input \/ Run \/ End \/ Restart

Spec == Init /\ [][Next]_vars
=============================================================================
