SPECIFICATION Spec
CONSTANTS
  None = None
  IceEditions <- SoundIce
  RustEditions <- SoundRust
  MaxEdits = 3
  MaxFaults = 0
  Undo = FALSE
  Undisturbed = {"initStage", "stage", "publish"}
CHECK_DEADLOCK FALSE
PROPERTY Converges
