\* Two processes share the consumer name; duplicate event ids and invalid
\* payloads; two crashes or stops and one Redis restart.
SPECIFICATION Spec
CONSTANTS
  p1 = p1  p2 = p2
  a1 = a1  a2 = a2  b1 = b1  bad = bad  huge = huge  wide = wide
  evA = evA  evB = evB  evW = evW
  NULL = NULL
  Procs = {p1, p2}
  Payload = {a1, a2, bad}
  Valid = {a1, a2}
  Undecodable = {}
  Unstorable = {}
  EventId = {evA}
  EventIdOf <- MCEventIdOf
  BatchSize = 2
  MaxLen = 1
  Resends = 1
  MaxPublished = 2
  MaxCrashes = 2
  MaxRedisRestarts = 1
SYMMETRY ProcSymmetry
INVARIANTS
  TypeOK
  AckedOnlyWhenHandled
  NoEventLost
PROPERTIES
  RowsNeverChange
  ImplementsDelivery
