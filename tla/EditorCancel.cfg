SPECIFICATION Spec
CONSTANTS
  None = None
  Keys = {a}
  MaxInputs = 2
  MaxAttempts = 2
  TransferFrames = 2
  MaxSerial = 3
  MaxReset = 1
  ReadOnlyFlips = 0
  Rollbacks = 0
  Remounts = 1
  Navigation = TRUE
CHECK_DEADLOCK FALSE
INVARIANT CancelledNeverCommits
