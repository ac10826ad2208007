SPECIFICATION Spec
CONSTANTS
  None = None
  main = main
  side = side
  panel = panel
  row = row
  Windows = {main, side}
  Scopes = {panel, row}
  Deferred = {panel}
  Home <- TwoWindows
  Programs <- SomePrograms
  MaxRuns = 2
  MaxMessages = 2
  MaxChanges = 2
CHECK_DEADLOCK FALSE
INVARIANT TypeOK
INVARIANT GateIsExact
INVARIANT NewestIsAnswered
INVARIANT AbandonedWorkStops
INVARIANT BootsOnce
INVARIANT BootReachesGuest
PROPERTY StateKept
PROPERTY FreshOnReturn
