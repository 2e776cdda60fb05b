\* Is every invalid payload dropped in the end?
SPECIFICATION FairSpec
CONSTANTS
  p1 = p1  p2 = p2
  a1 = a1  a2 = a2  b1 = b1  bad = bad  huge = huge  wide = wide
  evA = evA  evB = evB  evW = evW
  NULL = NULL
  Procs = {p1}
  Payload = {a1, bad, huge}
  Valid = {a1}
  Undecodable = {huge}
  Unstorable = {}
  EventId = {evA}
  EventIdOf <- MCEventIdOf
  BatchSize = 1
  MaxLen = 2
  Resends = 0
  MaxPublished = 1
  MaxCrashes = 0
  MaxRedisRestarts = 0
PROPERTIES
  InvalidIsDropped
