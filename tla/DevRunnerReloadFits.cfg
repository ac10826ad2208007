SPECIFICATION Spec
CONSTANTS
  None = None
  IceEditions <- StateIce
  RustEditions <- StartRust
  MaxEdits = 3
  MaxFaults = 0
  Undo = FALSE
  Undisturbed = {"initStage", "stage", "publish"}
CHECK_DEADLOCK FALSE
PROPERTY ReloadFitsRunningBinary
