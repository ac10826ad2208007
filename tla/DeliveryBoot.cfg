SPECIFICATION Spec
CONSTANTS
  None = None
  main = main
  side = side
  panel = panel
  row = row
  Windows = {main}
  Scopes = {row}
  Deferred = {}
  Home <- OneWindow
  Programs <- NativeMounted
  MaxRuns = 1
  MaxMessages = 2
  MaxChanges = 2
CHECK_DEADLOCK FALSE
INVARIANT BootReachesApp
