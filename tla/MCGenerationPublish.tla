------------------------ MODULE MCGenerationPublish -------------------------
(***************************************************************************)
(* Sources for checking GenerationPublish on small instances.              *)
(***************************************************************************)
EXTENDS GenerationPublish, TLC

CONSTANTS app, case   \* roots: of the package, and of its test cases

Below == [r \in {app, case} |-> IF r = case THEN "cases" ELSE "ui"]

\* "second" changes the root file of "first", and has lost its group; "broken"
\* does not compile.
Split(root, group) ==
  [s \in {"root", "group"} |-> IF s = "root" THEN root ELSE group]

SomeRenderings ==
  [t \in {"first", "second", "broken"} |->
     IF t = "second" THEN Split("b", None) ELSE Split("a", "a")]

Builders == Permutations(Builder)
=============================================================================
