\* Two operations after the initial load, one change by another client.
SPECIFICATION FairSpec
CONSTANTS
  Handlers = {h1, h2}
  BootHandler = h1
  Builtins = {main}
  Main = main
  ViewNames = {v, w}
  MaxOps = 2
  MaxChanges = 1
  NULL = NULL
INVARIANTS
  TypeOK
  OneAtATime
  ResultIsLatest
PROPERTIES
  ConsistencyKept
  PageSettles
CHECK_DEADLOCK FALSE
