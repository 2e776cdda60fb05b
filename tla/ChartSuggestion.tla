-------------------------- MODULE ChartSuggestion --------------------------
(***************************************************************************)
(* The chart suggested for a query result: a function of the names of its   *)
(* columns, of those whose values are all numbers and of those whose name   *)
(* looks like a time.                                                       *)
(***************************************************************************)
EXTENDS SequencesExt

CONSTANT NoAxis

Chart(kind, x, y, series) == [kind |-> kind, x |-> x, y |-> y, series |-> series]

\* The columns whose values are all numbers: without rows there is none.
Numeric(columns, rowCount, numbers) ==
  IF rowCount = 0 THEN {} ELSE ToSet(columns) \cap numbers

\* The first of the columns that is wanted.
First(columns, wanted) ==
  LET found == {i \in DOMAIN columns : columns[i] \in wanted}
  IN  IF found = {} THEN NoAxis ELSE columns[Min(found)]

\* The first column that is neither axis.
MutSeriesAxis(columns, x, y) == columns[Len(columns)]
SeriesAxis(columns, x, y) == First(columns, ToSet(columns) \ {x, y})

Suggest(columns, numeric, temporal) ==
  LET single == Len(columns) = 1 \/ ToSet(columns) \subseteq numeric
      table == Chart("table", NoAxis, NoAxis, NoAxis)
      x == First(columns, ToSet(columns) \ numeric)
      y == First(columns, numeric)
  IN  CASE columns = <<>> -> table
        [] columns # <<>> /\ single ->
             Chart("metric", NoAxis, IF numeric = {} THEN Head(columns) ELSE y, NoAxis)
        [] columns # <<>> /\ ~single /\ numeric = {} -> table
        [] OTHER -> Chart(IF x \in temporal THEN "line" ELSE "bar",
                          x, y, SeriesAxis(columns, x, y))
=============================================================================
