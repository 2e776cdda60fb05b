\* Two concurrent health requests, two lifespans of one process, with and without
\* the consumer; only timers and the server's wait for its requests are fair.
SPECIFICATION FairSpec
CONSTANTS
  h1 = h1
  h2 = h2
  Requests = {h1, h2}
  MaxLifespans = 2
  NULL = NULL
INVARIANTS
  TypeOK
  NoOkWhileDraining
  OkIsFresh
  DrainHolds

  
CHECK_DEADLOCK FALSE
