SPECIFICATION FairSpec
CONSTANTS
  None = None
  Keys = {a}
  MaxInputs = 2
  MaxAttempts = 2
  TransferFrames = 2
  MaxSerial = 3
  MaxReset = 1
  ReadOnlyFlips = 1
  Rollbacks = 1
  Remounts = 1
  Navigation = TRUE
CHECK_DEADLOCK FALSE
INVARIANT MirrorInStep
INVARIANT VersionsAgree
INVARIANT InputsStayInEpoch
INVARIANT NoSilentFault
PROPERTY CommitsInOrder
PROPERTY LaneProgresses
PROPERTY DocumentArrives
