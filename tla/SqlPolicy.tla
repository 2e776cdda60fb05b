----------------------------- MODULE SqlPolicy -----------------------------
(***************************************************************************)
(* What the SQL policy decides about one text submitted to SQL Lab or as    *)
(* the source of a view table.  The parser is external: a statement is the *)
(* record of what the policy asks of its result,                            *)
(*   long        the text is longer than MAX_QUERY_TEXT_LENGTH,             *)
(*   parse       "tree", or the error the parser raised,                    *)
(*   statements  how many statements are not empty,                         *)
(*   select      the root of the first is a SELECT,                         *)
(*   holds       the kinds of node the policy looks for in it,              *)
(*   functions   the functions it calls,                                    *)
(*   ctes        the names its WITH clauses define,                         *)
(*   tables      its table references, each with its schema and catalog.    *)
(* Its columns, the columns it names and whether its expressions may raise   *)
(* concern PostgreSQL alone.                                                *)
(***************************************************************************)
EXTENDS SequencesExt

AllowedFunctions == {"avg", "count", "date_trunc", "max", "min", "round", "sum",
                     "timestamp_trunc"}
SystemCatalogs == {"information_schema", "pg_catalog"}

\* The table references that do not name a WITH clause, in the order found.
Tables(s) == SelectSeq(s.tables, LAMBDA t : t.name \notin s.ctes)

Relations(s) == {t.name : t \in {u \in ToSet(s.tables) : u.name \notin s.ctes}}

\* The first qualified reference decides how it is refused.
Qualified(s) == SelectSeq(Tables(s), LAMBDA t : t.qualifiers # {})

\* What the policy checks, in its order: a reason and whether it applies.
Checks(s, allowed) == <<
  <<"query_too_long", s.long>>,
  <<"parse_error", s.parse = "ParseError">>,
  <<"multiple_statements", s.statements # 1>>,
  <<"non_select_statement", ~s.select>>,
  <<"unsafe_cte", "mutation" \in s.holds>>,
  <<"disallowed_select_into", "into" \in s.holds>>,
  <<"disallowed_locking_read", "lock" \in s.holds>>,
  <<"disallowed_table_sample", "tablesample" \in s.holds>>,
  <<"disallowed_function", ~(s.functions \subseteq AllowedFunctions)>>,
  <<"disallowed_system_catalog", /\ Qualified(s) # <<>>
                                 /\ Head(Qualified(s)).qualifiers \cap SystemCatalogs # {}>>,
  <<"cross_schema_relation", Qualified(s) # <<>> >>,
  <<"missing_relation", Relations(s) = {}>>,
  <<"unknown_relation", ~(Relations(s) \subseteq allowed)>> >>

Accepts(s, allowed) == \A i \in DOMAIN Checks(s, allowed) : ~Checks(s, allowed)[i][2]

SqlPolicyRejectionReason ==
  {"query_too_long", "parse_error", "multiple_statements", "non_select_statement",
   "unsafe_cte", "disallowed_function", "disallowed_select_into",
   "disallowed_locking_read", "disallowed_table_sample", "disallowed_system_catalog",
   "cross_schema_relation", "unknown_relation", "missing_relation"}

\* The first check that applies gives the reason.
Reason(s, allowed) ==
  LET checks == Checks(s, allowed)
  IN  checks[Min({i \in DOMAIN checks : checks[i][2]})][1]

\* The parser's tokenizer error is not one of its parse errors: it leaves the
\* policy as it is, before any later check, unless the text was too long.
TokenizerRaises(s) == s.parse = "TokenError" /\ ~s.long

\* The rows an accepted statement may return at most.
RowLimit(requested, maxRows) == Min({requested, maxRows})
=============================================================================
