\* Does an acknowledgement always follow the store?
SPECIFICATION Spec
CONSTANTS
  p1 = p1  p2 = p2
  a1 = a1  a2 = a2  b1 = b1  bad = bad  huge = huge  wide = wide
  evA = evA  evB = evB  evW = evW
  NULL = NULL
  Procs = {p1}
  Payload = {a1, bad}
  Valid = {a1}
  Undecodable = {}
  Unstorable = {}
  EventId = {evA, evB, evW}
  EventIdOf <- MCEventIdOf
  BatchSize = 2
  MaxLen = 1
  Resends = 0
  MaxPublished = 3
  MaxCrashes = 1
  MaxRedisRestarts = 0
INVARIANTS
  AckOnlyAfterStore
