SPECIFICATION Spec
CONSTANTS
  None = None
  IceEditions <- MixedIce
  RustEditions <- SoundRust
  MaxEdits = 1
  MaxFaults = 0
  Undo = FALSE
  Undisturbed = {}
CHECK_DEADLOCK FALSE
PROPERTY ReloadIsViewOnly
