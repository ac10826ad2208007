--------------------------- MODULE MCDeliveryLanes ----------------------------
(***************************************************************************)
(* Windows and scopes for checking DeliveryLanes on small instances.       *)
(***************************************************************************)
EXTENDS DeliveryLanes, TLC

CONSTANTS main, side, panel, row
TwoWindows == panel :> main @@ row :> side
OneWindow == row :> main
Program(target, storage, mode) ==
  [target |-> target, storage |-> storage, mode |-> mode]
SomePrograms ==
  {Program("native", "mounted", "replace"), Program("native", "retained", "stream"),
   Program("tree", "mounted", "stream"), Program("tree", "mounted", "latest"),
   Program("native", "retained", "latest")}
NativeMounted == {Program("native", "mounted", "replace")}
=============================================================================
