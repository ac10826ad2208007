----------------------------- MODULE MCDevRunner -----------------------------
(***************************************************************************)
(* Editions for checking DevRunner on small instances.                     *)
(***************************************************************************)
EXTENDS DevRunner

Ice(checks, published, slots, json, handlers) ==
  [checks |-> checks, published |-> published, slots |-> slots,
   json |-> json, handlers |-> handlers]

Rust(readable, builds, starts, inputs) ==
  [readable |-> readable, builds |-> builds, starts |-> starts,
   graph |-> inputs]

Original   == Ice(TRUE, TRUE, "s1", "j1", "h1")
ViewEdit   == Ice(TRUE, TRUE, "s1", "j2", "h1")   \* another literal
StateEdit  == Ice(TRUE, TRUE, "s2", "j3", "h2")   \* reads new state
StateView  == Ice(TRUE, TRUE, "s2", "j4", "h2")   \* then another literal
MixedEdit  == Ice(TRUE, TRUE, "s1", "j2", "h2")   \* a literal and a handler
Unpublished == Ice(TRUE, FALSE, "s0", "j0", "h3") \* only compiled Rust
Broken     == Ice(FALSE, FALSE, "s0", "j0", "h0")

Good       == Rust(TRUE, TRUE, TRUE, "g1")
Manifest   == Rust(TRUE, TRUE, TRUE, "g2")        \* another input graph
Failing    == Rust(TRUE, FALSE, TRUE, "g1")
Crashing   == Rust(TRUE, TRUE, FALSE, "g1")
Unreadable == Rust(FALSE, FALSE, FALSE, "g1")

FailIce    == {Original, ViewEdit, Broken}
FailRust   == {Good, Manifest, Failing, Crashing, Unreadable}
SoundIce   == {Original, ViewEdit, StateEdit, Unpublished}
SoundRust  == {Good}
StateIce   == {Original, StateEdit, StateView}
StartRust  == {Good, Crashing}
MixedIce   == {Original, ViewEdit, MixedEdit}
=============================================================================
