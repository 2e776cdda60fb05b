\* One operation on a page that has loaded.
SPECIFICATION Spec
CONSTANTS
  Handlers = {h1, h2}
  BootHandler = h1
  Builtins = {main}
  Main = main
  ViewNames = {v}
  MaxOps = 1
  MaxChanges = 0
  NULL = NULL
INVARIANTS
  RequestsReachBackend
CHECK_DEADLOCK FALSE
