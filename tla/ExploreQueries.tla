--------------------------- MODULE ExploreQueries ---------------------------
(***************************************************************************)
(* What build_explore_query decides about one structured query against the *)
(* dataset catalog, and the SELECT that is built from an accepted one.  A    *)
(* query is a record: its base dataset, the selectors of its columns, its    *)
(* joins (dataset, left, right), at most one selector to order by, and a     *)
(* row limit.  A catalog maps the name of a dataset to its columns.          *)
(***************************************************************************)
EXTENDS SequencesExt

CONSTANT Unqualified  \* a selector without a dataset

MaxJoins == 1

\* A bare column name belongs to the base dataset.
MutSelectorRef(base, s) == [dataset |-> base, column |-> s.column]
SelectorRef(base, s) == IF s.dataset = Unqualified
                          THEN [dataset |-> base, column |-> s.column]
                          ELSE s

ColumnRefs(q) == [i \in DOMAIN q.columns |-> SelectorRef(q.dataset, q.columns[i])]
OrderRefs(q) == {SelectorRef(q.dataset, s) : s \in q.order}
Joins(q) == ToSet(q.joins)
Selectable(q) == {q.dataset} \cup {j.dataset : j \in Joins(q)}
-----------------------------------------------------------------------------
ColumnNames(catalog, d) == IF d \in DOMAIN catalog THEN ToSet(catalog[d]) ELSE {}

CanSelect(q, catalog, ref) == /\ ref.dataset \in Selectable(q)
                              /\ ref.column \in ColumnNames(catalog, ref.dataset)

\* The first selector that cannot be selected decides how it is refused.
FirstUnselectable(q, catalog, i) ==
  /\ ~CanSelect(q, catalog, ColumnRefs(q)[i])
  /\ \A k \in 1 .. i - 1 : CanSelect(q, catalog, ColumnRefs(q)[k])

MutOrderUnknown(q, catalog) == FALSE
OrderUnknown(q, catalog) == \E ref \in OrderRefs(q) : ~CanSelect(q, catalog, ref)

\* What is checked, in the code's order; with one join at most its loop over
\* the joins is a quantifier.
Checks(q, catalog) == <<
  <<"unknown_dataset", q.dataset \notin DOMAIN catalog>>,
  <<"too_many_joins", Len(q.joins) > MaxJoins>>,
  <<"unknown_join_dataset", \E j \in Joins(q) : j.dataset \notin DOMAIN catalog>>,
  <<"self_join_not_supported", \E j \in Joins(q) : j.dataset = q.dataset>>,
  <<"unknown_join_left_column",
      \E j \in Joins(q) : j.left \notin ColumnNames(catalog, q.dataset)>>,
  <<"unknown_join_right_column",
      \E j \in Joins(q) : j.right \notin ColumnNames(catalog, j.dataset)>>,
  <<"missing_columns", q.columns = <<>> >>,
  <<"duplicate_columns", \E i, j \in DOMAIN q.columns :
                           i # j /\ ColumnRefs(q)[i] = ColumnRefs(q)[j]>>,
  <<"unknown_column_dataset",
      \E i \in DOMAIN q.columns : /\ FirstUnselectable(q, catalog, i)
                                  /\ ColumnRefs(q)[i].dataset \notin Selectable(q)>>,
  <<"unknown_column", \E i \in DOMAIN q.columns : ~CanSelect(q, catalog, ColumnRefs(q)[i])>>,
  <<"unknown_order_column", OrderUnknown(q, catalog)>> >>

Accepts(q, catalog) == \A i \in DOMAIN Checks(q, catalog) : ~Checks(q, catalog)[i][2]

RejectionReason ==
  {"unknown_dataset", "too_many_joins", "unknown_join_dataset",
   "self_join_not_supported", "unknown_join_left_column", "unknown_join_right_column",
   "missing_columns", "duplicate_columns", "unknown_column_dataset", "unknown_column",
   "unknown_order_column"}

\* The first check that applies gives the reason.
Reason(q, catalog) ==
  LET checks == Checks(q, catalog)
  IN  checks[Min({i \in DOMAIN checks : checks[i][2]})][1]

RowLimit(requested, maxRows) == Min({requested, maxRows})
-----------------------------------------------------------------------------
\* The columns of a dataset that the SELECT needs: projected, ordered by, joined.
Required(q, d) ==
  {ref.column : ref \in {x \in ToSet(ColumnRefs(q)) \cup OrderRefs(q) : x.dataset = d}}
    \cup {j.left : j \in {k \in Joins(q) : d = q.dataset}}
    \cup {j.right : j \in {k \in Joins(q) : k.dataset = d}}

OutputColumnName(ref) == ref.dataset \o "_" \o ref.column

\* The result's columns, labelled with their dataset when datasets are joined.
OutputColumns(q) ==
  [i \in DOMAIN q.columns |-> IF q.joins = <<>> THEN ColumnRefs(q)[i].column
                              ELSE OutputColumnName(ColumnRefs(q)[i])]
=============================================================================
