SPECIFICATION Spec
CONSTANTS
  r1 = r1
  r2 = r2
  v = v
  w = w
  Requests = {r1, r2}
  Names = {v, w}
  Builtins <- MCBuiltins
  RawTables <- MCRawTables
  Sources <- FewSources
  Absent = Absent
  Untouched = Untouched
INVARIANTS
  ViewsAreListed
