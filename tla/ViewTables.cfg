SPECIFICATION FairSpec
CONSTANTS
  r1 = r1
  r2 = r2
  v = v
  w = w
  Requests = {r1, r2}
  Names = {v, w}
  Builtins <- MCBuiltins
  RawTables <- MCRawTables
  Sources <- AllSources
  Absent = Absent
  Untouched = Untouched
INVARIANTS
  TypeOK
  ListedViewsWork
  SourcesExist
PROPERTIES
  CirclesOnlyByReplacement
  ImplementsCatalog
  RequestsEnd
