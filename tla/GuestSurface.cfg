SPECIFICATION Spec
CONSTANTS
  Tree = {"list", "editor"}
  EditorTree = {"editor"}
  NoTree = NoTree
  MaxInputs = 2
  MaxAsks = 1
  MaxInstances = 2
  MaxPresses = 2
CHECK_DEADLOCK FALSE
INVARIANT TypeOK
INVARIANT HeldIsBase
INVARIANT AwaitedIsHeld
INVARIANT KeptIsAwaited
PROPERTY RetiresNoWork
PROPERTY ImplementsSession
PROPERTY AnswerArrives
