\* Two processes whose cluster client sends a command again, more entries than their
\* four deliveries, payloads that cannot be decoded or stored; Redis keeps its state
\* but may, like PostgreSQL, stop answering for ever: only timers are fair.
SPECIFICATION HangSpec
CONSTANTS
  p1 = p1  p2 = p2
  a1 = a1  a2 = a2  b1 = b1  bad = bad  huge = huge  wide = wide
  evA = evA  evB = evB  evW = evW
  NULL = NULL
  Procs = {p1, p2}
  Payload = {wide, huge}
  Valid = {wide}
  Undecodable = {huge}
  Unstorable = {wide}
  EventId = {evW}
  EventIdOf <- MCEventIdOf
  BatchSize = 1
  MaxLen = 3
  Resends = 1
  MaxPublished = 5
  MaxCrashes = 1
  MaxRedisRestarts = 0
INVARIANTS
  PelBounded
PROPERTIES
  StopEndsTask
