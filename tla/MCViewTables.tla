--------------------------- MODULE MCViewTables ---------------------------
EXTENDS ViewTables, TLC

CONSTANTS r1, r2, v, w

\* One source over a table, one over a generated view with a further column, and
\* one over each of the saved views.
OverEvents == [reads |-> {"events"}, columns |-> <<"a">>]
OverBuiltin == [reads |-> {"event_type_counts"}, columns |-> <<"a", "b">>]
Over(n) == [reads |-> {n}, columns |-> <<"a">>]

MCBuiltins == {"event_type_counts"}
MCRawTables == {"events"}
AllSources == {OverEvents, OverBuiltin, Over(v), Over(w)}
FewSources == {OverEvents, Over(v), Over(w)}

RequestSymmetry == Permutations(Requests)
=============================================================================
