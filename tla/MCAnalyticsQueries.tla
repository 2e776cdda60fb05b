------------------------- MODULE MCAnalyticsQueries -------------------------
EXTENDS AnalyticsQueries

\* A saved SELECT over a table, one over a generated view with a further column
\* that may replace it and raises for some rows, and one over a saved view.
OverEvents == [reads |-> {"events"}, columns |-> <<"day">>, raises |-> FALSE]
OverBuiltin == [reads |-> {"event_type_counts"}, columns |-> <<"day", "amount">>,
                raises |-> TRUE]
OverDaily == [reads |-> {"daily"}, columns |-> <<"day">>, raises |-> FALSE]

MCSources == {OverEvents, OverBuiltin, OverDaily}
MCBaseColumns == [d \in {"event_type_counts", "events"} |->
                    IF d = "events" THEN <<"day", "amount", "type">>
                    ELSE <<"type", "count">>]

\* A day is no amount.
MCIncomparable == {<<"day", "amount">>, <<"amount", "day">>}

Bare(c) == [dataset |-> "", column |-> c]
Of(d, c) == [dataset |-> d, column |-> c]

Explored == [kind |-> "explore", dataset |-> "daily", columns |-> <<Bare("day")>>,
             joins |-> <<>>, order |-> {}, limit |-> 2]
JoinWith(d, l, r) == [dataset |-> d, left |-> l, right |-> r]
Joined == [Explored EXCEPT !.columns = <<Bare("day"), Of("weekly", "day")>>,
                           !.joins = <<JoinWith("weekly", "day", "day")>>]

\* Chart Builder: over a saved view, ordered by the column a replacement may
\* append, joined with another; over a generated view; and what is rejected.
MCExplores ==
  {Explored,
   [Explored EXCEPT !.order = {Bare("amount")}],
   Joined,
   [Explored EXCEPT !.dataset = "event_type_counts",
                    !.columns = <<Bare("type"), Bare("count")>>],
   [Explored EXCEPT !.columns = <<Bare("day"), Of("daily", "day")>>],
   [Explored EXCEPT !.columns = <<Of("weekly", "day")>>],
   [Explored EXCEPT !.joins = <<JoinWith("daily", "day", "day")>>],
   [Joined EXCEPT !.joins = <<JoinWith("weekly", "day", "amount")>>],
   [Joined EXCEPT !.joins = <<JoinWith("weekly", "amount", "day")>>],
   [Explored EXCEPT !.limit = 0]}

Table(n, q) == [name |-> n, qualifiers |-> q]
Plain == [long |-> FALSE, empty |-> FALSE, parse |-> "tree", statements |-> 1,
          select |-> TRUE, holds |-> {}, functions |-> {}, ctes |-> {},
          tables |-> <<Table("daily", {})>>, uses |-> {"day"}, columns |-> <<"day">>,
          raises |-> FALSE]

Sql(s, n) == [kind |-> "sql", statement |-> s, limit |-> n]
Preview(s, n) == [kind |-> "preview", statement |-> s, limit |-> n]

\* SQL text: what runs, and texts the policy rejects at each of its stages.
MCStatements ==
  {Plain,
   [Plain EXCEPT !.uses = {"amount"}, !.functions = {"sum"}, !.columns = <<"amount">>,
                 !.raises = TRUE],
   [Plain EXCEPT !.ctes = {"recent"}, !.functions = {"count"},
                 !.tables = <<Table("recent", {}), Table("event_type_counts", {})>>,
                 !.uses = {"type", "count"},
                 !.columns = <<"type", "hour", "count", "region">>],
   [Plain EXCEPT !.parse = "TokenError"],
   [Plain EXCEPT !.parse = "ParseError"],
   [Plain EXCEPT !.select = FALSE],
   [Plain EXCEPT !.holds = {"into", "lock"}],
   [Plain EXCEPT !.functions = {"pg_sleep"}],
   [Plain EXCEPT !.tables = <<Table("daily", {"public"}), Table("pg_roles", {"pg_catalog"})>>],
   [Plain EXCEPT !.tables = <<>>],
   [Plain EXCEPT !.long = TRUE]}

OverTable == [Plain EXCEPT !.tables = <<Table("events", {}), Table("daily", {})>>]

MCAsks == {[kind |-> "datasets"]} \cup MCExplores \cup {Sql(s, 9) : s \in MCStatements}
            \cup {Sql(OverTable, 2), Preview(OverTable, 9), Preview(Plain, 0)}
=============================================================================
