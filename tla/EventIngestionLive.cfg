\* One process that Redis and PostgreSQL answer again and again, on the cluster client.
SPECIFICATION FairSpec
CONSTANTS
  p1 = p1  p2 = p2
  a1 = a1  a2 = a2  b1 = b1  bad = bad  huge = huge  wide = wide
  evA = evA  evB = evB  evW = evW
  NULL = NULL
  Procs = {p1}
  Payload = {a1, a2, bad}
  Valid = {a1, a2}
  Undecodable = {}
  Unstorable = {}
  EventId = {evA}
  EventIdOf <- MCEventIdOf
  BatchSize = 1
  MaxLen = 2
  Resends = 1
  MaxPublished = 2
  MaxCrashes = 1
  MaxRedisRestarts = 1
INVARIANTS
  NewOnlyWhenNonePending
PROPERTIES
  EveryEventStored
  PendingDrains
