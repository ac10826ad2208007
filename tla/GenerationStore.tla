--------------------------- MODULE GenerationStore ---------------------------
(***************************************************************************)
(* What the generated-output directory of ui-lang-build promises to those  *)
(* who only look at it: it holds one generation, which a publisher         *)
(* replaces for one source directory at a time.  While a publisher is at   *)
(* work, or after it was interrupted, what is there is not a generation,   *)
(* and can be told from one.  An interrupted replacement is never          *)
(* completed by somebody else: the whole store is discarded first.  So is  *)
(* a generation that a publisher cannot read, although it may be whole.    *)
(* What is being replaced is never discarded.                              *)
(***************************************************************************)
CONSTANTS
  Output,      \* names a generated file can have
  Content,     \* contents a generated file can have
  Directory,   \* source directories compiled into the store
  Within(_),   \* the outputs of the roots below a source directory
  Publisher,   \* processes that compile into the store
  None         \* no file, no publisher

VARIABLES
  gen,     \* the generation last published: the content of each output
  whole,   \* whether the directory holds exactly what gen says of its outputs
  writer   \* the publisher replacing it, or None

vars == <<gen, whole, writer>>

Blank == [o \in Output |-> None]

Init ==
  /\ gen = Blank
  /\ whole = TRUE
  /\ writer = None

\* A publisher begins to replace outputs of the generation.
Unsettle(b) ==
  /\ whole
  /\ whole' = FALSE
  /\ writer' = b
  /\ UNCHANGED gen

\* A new generation for the roots of one directory; the others' stay.
Publish(b, d) ==
  /\ whole \/ writer = b
  /\ gen' \in [Output -> Content \cup {None}]
  /\ \A o \in Output \ Within(d) : gen'[o] = gen[o]
  /\ whole' = TRUE
  /\ writer' = None

\* The publisher died or gave up half way.
Interrupt ==
  /\ ~whole
  /\ writer # None
  /\ writer' = None
  /\ UNCHANGED <<gen, whole>>

\* A publisher gives up what it cannot read, and begins to remove it.
Abandon ==
  /\ whole
  /\ whole' = FALSE
  /\ UNCHANGED <<gen, writer>>

\* The store was interrupted or cannot be read: all of it goes.
Discard ==
  /\ writer = None
  /\ gen' = Blank
  /\ whole' = TRUE
  /\ UNCHANGED writer

Next ==
  \/ \E b \in Publisher : Unsettle(b)
  \/ \E b \in Publisher, d \in Directory : Publish(b, d)
  \/ Interrupt
  \/ Abandon
  \/ Discard

Spec == Init /\ [][Next]_vars
=============================================================================
