SPECIFICATION FairSpec
CONSTANTS
  Requests = {q1}
  Asks <- MCAsks
  Names = {"daily", "weekly"}
  Builtins = {"event_type_counts"}
  RawTables = {"events"}
  BaseColumns <- MCBaseColumns
  Sources <- MCSources
  Incomparable <- MCIncomparable
  Measures = {"amount", "count"}
  Times = {"hour"}
  MaxRows = 2
  MaxPreviewRows = 1
  Absent = Absent
  Nothing = Nothing
  Unqualified = ""
  NoAxis = ""
INVARIANTS
  TypeOK
  ShownQueriesAccepted
  AuditMatchesAnswer
  ChartFitsResult
PROPERTIES
  UnavailableHasCause
  
