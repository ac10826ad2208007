SPECIFICATION Spec
CONSTANTS
  None = None
  app = app
  case = case
  Builder = {p, q}
  Directory = {"ui", "cases"}
  Root = {app, case}
  DirectoryOf <- Below
  Text = {"first", "second", "broken"}
  Failing = {"broken"}
  Slot = {"root", "group"}
  Main = "root"
  Content = {"a", "b"}
  Rendering <- SomeRenderings
CHECK_DEADLOCK FALSE
SYMMETRY Builders
INVARIANT TypeOK
INVARIANT StagingIsKept
INVARIANT UnstagedIsInPlace
INVARIANT PublishedIsWhatWasRead
PROPERTY ImplementsStore
