SPECIFICATION Spec
CONSTANTS
  None = None
  Keys = {a, b}
  MaxInputs = 2
  MaxAttempts = 2
  TransferFrames = 2
  MaxSerial = 4
  MaxReset = 1
  ReadOnlyFlips = 0
  Rollbacks = 0
  Remounts = 1
  Navigation = TRUE
SYMMETRY Widgets
CHECK_DEADLOCK FALSE
INVARIANT TypeOK
INVARIANT MirrorInStep
INVARIANT PendingNamesFront
INVARIANT InputsStayInEpoch
INVARIANT BarrierIsHeld
INVARIANT NoSilentFault
PROPERTY CommitsInOrder
