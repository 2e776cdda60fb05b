SPECIFICATION FairSpec
CONSTANTS
  Configs <- MCConfigs
  Clock <- MCClock
  Draws <- MCDraws
  PrefixOf <- MCPrefixOf
  Phases = {"slow", "normal", "burst"}
  Rate <- MCRate
  LastHour = 1
  LastMs = 1
  Modulus = 4
  Multiplier = 3
  Resends = 1
  LandingPages = {"/"}
  Null = Null
  MaxRuns = 2
  MaxSequence = 2
CHECK_DEADLOCK FALSE
INVARIANTS
  TypeOK
  IdNamesOneEvent
  OccursInWindow
  ShutdownIsPrompt
  SummaryIsTrue
  EventIsWhole
PROPERTIES
  WindowKeepsRate
  ProcessEnds
