SPECIFICATION Spec
CONSTANTS
  None = None
  IceEditions <- FailIce
  RustEditions <- FailRust
  MaxEdits = 2
  MaxFaults = 1
  Undo = TRUE
  Undisturbed = {}
CHECK_DEADLOCK FALSE
INVARIANT TypeOK
INVARIANT BuildMatchesStamps
INVARIANT NoOrphans
PROPERTY LastKnownGood
PROPERTY EveryEditObserved
