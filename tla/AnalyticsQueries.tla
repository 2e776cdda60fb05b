-------------------------- MODULE AnalyticsQueries --------------------------
(***************************************************************************)
(* The read side of the analytics API: SQL Lab, Chart Builder and preview   *)
(* queries and the dataset listing, from the request schema to the answer   *)
(* and its log lines.  A query reads the dataset catalog in one session, is *)
(* decided on, and runs in a read-only transaction of another; meanwhile     *)
(* other clients save and delete view tables, which are the steps of the    *)
(* abstract catalog that the requests of ViewTables implement.              *)
(***************************************************************************)
EXTENDS Integers, SequencesExt

CONSTANTS
  Requests,       \* the requests that may be in progress at once
  Asks,           \* what a client may submit
  Names,          \* the view table names in use
  RawTables,      \* {"events"}: what only a view table's source may read
  Builtins,       \* the generated views (ALLOWED_DATASET_NAMES)
  BaseColumns,    \* the columns of the generated views (DATASETS) and the tables
  Sources,        \* the SELECTs saved as view tables: what each reads, its columns, and
                  \* whether its expressions raise for some rows (division by zero)
  Incomparable,   \* the pairs of columns of types that = does not compare
  Measures,       \* the columns whose values are numbers, NULL apart
  Times,          \* the columns whose name looks like a time
  MaxRows,        \* MAX_QUERY_ROW_LIMIT, MAX_EXPLORE_QUERY_ROW_LIMIT
  MaxPreviewRows, \* MAX_VIEW_TABLE_ROW_LIMIT
  Absent,         \* no view, no row
  Nothing,        \* no request, no answer, no result
  Unqualified, NoAxis

Bases == Builtins \cup RawTables

ASSUME ConstantsAssumption ==
  /\ Names \cap Bases = {} /\ Absent \notin Sources /\ Nothing \notin Asks
  /\ MaxRows \in Nat /\ MaxPreviewRows \in Nat
  /\ \A s \in Sources : s.columns \in Seq(STRING)
  /\ \A a \in Asks :
       /\ a.kind \in {"datasets", "explore", "sql", "preview"}
       /\ a.kind # "datasets" => a.limit \in Int
       /\ a.kind = "explore" => a.columns \in Seq([dataset : STRING, column : STRING])
       /\ a.kind \in {"sql", "preview"} => a.statement.columns \in Seq(STRING)

Policy == INSTANCE SqlPolicy
Explore == INSTANCE ExploreQueries
Charts == INSTANCE ChartSuggestion

VARIABLES
  views,   \* the views PostgreSQL has: name -> source or Absent
  listed,  \* the view tables in the catalog: name -> source or Absent
  pc,      \* how far each request got
  ask,     \* what it asked for
  audit,   \* the lines it left in the SQL audit log
  answer,  \* its status, the event of its request log line, why it was rejected
  result,  \* the rows and the chart, or the datasets, of its answer
  shown,   \* the dataset catalog the client last was shown: name -> columns
  failed,  \* history: the database calls that failed it
  trusted, \* history: it was built from what the client was shown
  stale,   \* history: names of it unlisted since that catalog was read
  gone,    \* history: names unlisted since the catalog it was built from was read
  lost     \* history: names whose view was dropped since its catalog read

catalog == <<views, listed>>
request == <<pc, ask, audit, answer, result, failed, trusted>>
vars == <<catalog, request, shown, stale, gone, lost>>

\* The columns a relation has now.
Columns(d) == IF d \in Bases THEN BaseColumns[d]
              ELSE IF views[d] = Absent THEN <<>> ELSE views[d].columns

\* The dataset catalog: the generated views, and the saved view tables if the
\* query that lists them succeeds.
Generated == [d \in Builtins |-> BaseColumns[d]]
Datasets == [d \in Builtins \cup {n \in Names : listed[n] # Absent} |-> Columns(d)]

Init == /\ views = [n \in Names |-> Absent] /\ listed = [n \in Names |-> Absent]
        /\ pc = [r \in Requests |-> "idle"]
        /\ ask = [r \in Requests |-> Nothing]
        /\ audit = [r \in Requests |-> <<>>]
        /\ answer = [r \in Requests |-> Nothing]
        /\ result = [r \in Requests |-> Nothing]
        /\ shown = Generated
        /\ failed = [r \in Requests |-> {}]
        /\ trusted = [r \in Requests |-> FALSE]
        /\ stale = {}
        /\ gone = [r \in Requests |-> {}]
        /\ lost = [r \in Requests |-> {}]
-----------------------------------------------------------------------------
(* Deciding on a request                                                    *)

\* The request schema: no limit below one, no empty list of columns, no SQL
\* text that is empty or too long.
Malformed(a) ==
  CASE a.kind = "datasets" -> FALSE
    [] a.kind = "explore" -> a.limit < 1 \/ a.columns = <<>>
    [] OTHER -> a.limit < 1 \/ a.statement.empty \/ a.statement.long

\* The relations SQL may read: datasets, and tables for the source of a view.
Allowed(a, datasets) ==
  DOMAIN datasets \cup IF a.kind = "preview" THEN RawTables ELSE {}

Untokenizable(a) == /\ a.kind \in {"sql", "preview"}
                    /\ Policy!TokenizerRaises(a.statement)

Accepted(a, datasets) ==
  CASE a.kind = "datasets" -> TRUE
    [] a.kind = "explore" -> Explore!Accepts(a, datasets)
    [] OTHER -> ~Untokenizable(a) /\ Policy!Accepts(a.statement, Allowed(a, datasets))

ReasonOf(a, datasets) == IF a.kind = "explore" THEN Explore!Reason(a, datasets)
                         ELSE Policy!Reason(a.statement, Allowed(a, datasets))

\* The relations a query reads.
Needed(a) ==
  CASE a.kind = "datasets" -> {}
    [] a.kind = "explore" -> Explore!Selectable(a)
    [] OTHER -> Policy!Relations(a.statement)

MutRowLimit(a) == a.limit
RowLimit(a) ==
  CASE a.kind = "explore" -> Explore!RowLimit(a.limit, MaxRows)
    [] a.kind = "preview" -> Policy!RowLimit(Min({a.limit, MaxPreviewRows}), MaxRows)
    [] OTHER -> Policy!RowLimit(a.limit, MaxRows)

OutputOf(a) == IF a.kind = "explore" THEN Explore!OutputColumns(a)
               ELSE a.statement.columns

\* Only SQL Lab writes to the audit log.
MutAudited(a, line) == IF a.kind = "sql" /\ line # "rejected" THEN <<line>> ELSE <<>>
Audited(a, line) == IF a.kind = "sql" THEN <<line>> ELSE <<>>
-----------------------------------------------------------------------------
(* What PostgreSQL does with a SELECT                                       *)

Reads(n) == IF views[n] = Absent THEN {} ELSE views[n].reads \cap Names

\* n leads into views that read each other in a circle, which cannot be expanded.
Unexpandable(n) ==
  \E S \in SUBSET Names : n \in S /\ \A m \in S : Reads(m) \cap S # {}

Expandable(d) == d \in Names => views[d] # Absent /\ ~Unexpandable(d)

\* d leads into a view whose expressions may raise: every set of views that holds
\* d and what its views read has one.
Raising(d) ==
  \A S \in SUBSET Names :
    d \in S /\ (\A n \in S : Reads(n) \subseteq S) =>
      \E n \in S : views[n] # Absent /\ views[n].raises

\* The relations of a query are there and have the columns it names; SQL text
\* finds a column in any of them.
HasColumns(a) ==
  IF a.kind = "explore"
    THEN \A d \in Needed(a) : Explore!Required(a, d) \subseteq ToSet(Columns(d))
    ELSE a.statement.uses \subseteq UNION {ToSet(Columns(d)) : d \in Needed(a)}

\* The columns a join equates are of types PostgreSQL compares, which the
\* validation does not ask.
JoinsCompare(a) ==
  a.kind = "explore" => \A j \in ToSet(a.joins) : <<j.left, j.right>> \notin Incomparable

Runs(a) == (\A d \in Needed(a) : Expandable(d)) /\ HasColumns(a) /\ JoinsCompare(a)

\* An expression of the SQL text, or of a view behind a query, may be refused for
\* its types or raise for the rows it meets.
MayRaise(a) == \/ a.kind # "explore" /\ a.statement.raises
               \/ \E d \in Needed(a) \cap Names : Raising(d)
-----------------------------------------------------------------------------
(* Answering a request                                                      *)

LogEvent(status) == IF status >= 500 THEN "request_server_error" ELSE "request_completed"

\* The route, or its error mapping, answers; the middleware logs one line.
Respond(r, status, reason, body) ==
  /\ pc' = [pc EXCEPT ![r] = "answered"]
  /\ answer' = [answer EXCEPT ![r] =
       [status |-> status, reason |-> reason, event |-> LogEvent(status)]]
  /\ result' = [result EXCEPT ![r] = body]

\* Any other exception passes the route and is answered by the middleware.
Unhandled(r) ==
  /\ pc' = [pc EXCEPT ![r] = "answered"]
  /\ answer' = [answer EXCEPT ![r] =
       [status |-> 500, reason |-> "none", event |-> "request_failed"]]
  /\ UNCHANGED result

Log(r, lines) == audit' = [audit EXCEPT ![r] = @ \o lines]

Fails(r, call) == failed' = [failed EXCEPT ![r] = @ \cup {call}]

\* What a SELECT returns: some rows, and the columns whose values are all numbers.
Results(a) == [columns : {OutputOf(a)}, rows : 0..RowLimit(a),
               numbers : SUBSET (Measures \cap ToSet(OutputOf(a)))]

\* The chart suggested with a result.
ChartOf(found) ==
  Charts!Suggest(found.columns,
                 Charts!Numeric(found.columns, found.rows, found.numbers), Times)
-----------------------------------------------------------------------------
(* What the datasets a client was shown offer it                            *)

Resolved(a, s) ==
  <<IF s.dataset = Unqualified THEN a.dataset ELSE s.dataset, s.column>>

\* A Chart Builder query over the datasets shown, at most two of them, by columns
\* they have; a SQL text over their names that the policy has nothing against.
Offered(a, datasets) ==
  IF a.kind = "explore"
    THEN LET scope == {a.dataset} \cup {j.dataset : j \in ToSet(a.joins)}
             offer == UNION {{d} \X ToSet(datasets[d]) : d \in scope}
         IN  /\ scope \subseteq DOMAIN datasets
             /\ Len(a.joins) \in 0 .. 1
             /\ \A j \in ToSet(a.joins) : /\ j.dataset # a.dataset
                                         /\ <<a.dataset, j.left>> \in offer
                                         /\ <<j.dataset, j.right>> \in offer
             /\ \A s \in ToSet(a.columns) \cup a.order : Resolved(a, s) \in offer
             /\ \A i, j \in DOMAIN a.columns :
                  Resolved(a, a.columns[i]) = Resolved(a, a.columns[j]) => i = j
    ELSE Accepted(a, datasets)
-----------------------------------------------------------------------------
(* The steps of a request                                                   *)

Submit(r, a) ==
  /\ pc[r] = "idle"
  /\ pc' = [pc EXCEPT ![r] = "received"]
  /\ ask' = [ask EXCEPT ![r] = a]
  /\ trusted' = [trusted EXCEPT ![r] = ~Malformed(a) /\ Offered(a, shown)]
  /\ gone' = [gone EXCEPT ![r] = IF trusted'[r] THEN stale ELSE {}]
  /\ UNCHANGED <<catalog, audit, answer, result, failed, shown, stale, lost>>

RejectMalformed(r) ==
  /\ pc[r] = "received"
  /\ Malformed(ask[r])
  /\ Respond(r, 422, "schema", Nothing)
  /\ UNCHANGED <<catalog, ask, audit, failed, trusted, shown, stale, gone, lost>>

\* The catalog is read, the request decided on at once.
Decide(r, datasets) ==
  /\ pc[r] = "received"
  /\ ~Malformed(ask[r])
  /\ \/ /\ ask[r].kind = "datasets"
        /\ Respond(r, 200, "none", datasets)
        /\ gone' = [gone EXCEPT ![r] = {}]
        /\ UNCHANGED audit
     \/ /\ Untokenizable(ask[r])
        /\ Unhandled(r)
        /\ UNCHANGED <<audit, gone>>
     \/ /\ ask[r].kind # "datasets"
        /\ Accepted(ask[r], datasets)
        /\ Log(r, Audited(ask[r], "accepted"))
        /\ pc' = [pc EXCEPT ![r] = "select"]
        /\ gone' = [gone EXCEPT ![r] = {}]
        /\ UNCHANGED <<answer, result>>
     \/ /\ ~Untokenizable(ask[r]) /\ ~Accepted(ask[r], datasets)
        /\ Log(r, Audited(ask[r], "rejected"))
        /\ Respond(r, 400, ReasonOf(ask[r], datasets), Nothing)
        /\ UNCHANGED gone
  /\ UNCHANGED <<catalog, ask, trusted, shown, stale, lost>>

ReadCatalog(r) == Decide(r, Datasets) /\ UNCHANGED failed

\* A catalog query that SQLAlchemy reports as failed lists the generated views.
CatalogFails(r) == Decide(r, Generated) /\ Fails(r, "catalog")

\* An error of the driver that SQLAlchemy does not wrap, such as a refused
\* connection, is nobody's to map.
CatalogRaises(r) ==
  /\ pc[r] = "received" /\ ~Malformed(ask[r])
  /\ Unhandled(r) /\ Fails(r, "catalog")
  /\ UNCHANGED <<catalog, ask, audit, trusted, shown, stale, gone, lost>>

\* The guarded read-only transaction.
Select(r) ==
  /\ pc[r] = "select"
  /\ Runs(ask[r])
  /\ \E found \in Results(ask[r]) : Respond(r, 200, "none", found)
  /\ Log(r, Audited(ask[r], "completed"))
  /\ UNCHANGED <<catalog, ask, failed, trusted, shown, stale, gone, lost>>

SelectRefused(r) ==
  /\ pc[r] = "select"
  /\ ~Runs(ask[r]) \/ MayRaise(ask[r])
  /\ Respond(r, 503, "none", Nothing)
  /\ UNCHANGED <<catalog, ask, audit, failed, trusted, shown, stale, gone, lost>>

\* A timeout of the statement, of a lock or of the pool, a lost connection.
SelectFails(r) ==
  /\ pc[r] = "select"
  /\ Respond(r, 503, "none", Nothing) /\ Fails(r, "select")
  /\ UNCHANGED <<catalog, ask, audit, trusted, shown, stale, gone, lost>>

SelectRaises(r) ==
  /\ pc[r] = "select"
  /\ Unhandled(r) /\ Fails(r, "select")
  /\ UNCHANGED <<catalog, ask, audit, trusted, shown, stale, gone, lost>>

\* The request is over and forgotten ...
Forget(r) ==
  /\ pc[r] = "answered"
  /\ pc' = [pc EXCEPT ![r] = "idle"] /\ ask' = [ask EXCEPT ![r] = Nothing]
  /\ audit' = [audit EXCEPT ![r] = <<>>] /\ answer' = [answer EXCEPT ![r] = Nothing]
  /\ result' = [result EXCEPT ![r] = Nothing] /\ failed' = [failed EXCEPT ![r] = {}]
  /\ trusted' = [trusted EXCEPT ![r] = FALSE]
  /\ gone' = [gone EXCEPT ![r] = {}] /\ lost' = [lost EXCEPT ![r] = {}]
  /\ UNCHANGED catalog

\* ... and its answer reached the client,
Deliver(r) ==
  /\ Forget(r)
  /\ IF ask[r].kind = "datasets" /\ answer[r].status = 200
       THEN shown' = result[r] /\ stale' = gone[r]
       ELSE UNCHANGED <<shown, stale>>

\* or did not.
LoseAnswer(r) == Forget(r) /\ UNCHANGED <<shown, stale>>
-----------------------------------------------------------------------------
(* Other clients save and delete view tables.                               *)

Cat == INSTANCE Catalog WITH relations <- views, datasets <- listed

Unlisted == {n \in Names : listed[n] # Absent /\ listed'[n] = Absent}
Dropped == {n \in Names : views[n] # Absent /\ views'[n] = Absent}

\* A catalog is still to be relied on: one a request was built from, or its answer.
Relying(r) == \/ pc[r] = "received" /\ trusted[r]
              \/ pc[r] = "answered" /\ ask[r].kind = "datasets"

CatalogChanges ==
  /\ Cat!Next
  /\ stale' = stale \cup (Unlisted \cap DOMAIN shown)
  /\ gone' = [r \in Requests |-> IF Relying(r) THEN gone[r] \cup Unlisted ELSE gone[r]]
  /\ lost' = [r \in Requests |-> IF pc[r] = "select" THEN lost[r] \cup Dropped ELSE lost[r]]
  /\ UNCHANGED <<request, shown>>

Handle(r) == RejectMalformed(r) \/ ReadCatalog(r) \/ Select(r) \/ SelectRefused(r)

Disturb(r) == CatalogFails(r) \/ CatalogRaises(r) \/ SelectFails(r) \/ SelectRaises(r)

Next == \/ CatalogChanges
        \/ \E r \in Requests : \/ \E a \in Asks : Submit(r, a)
                               \/ Handle(r) \/ Disturb(r)
                               \/ Deliver(r) \/ LoseAnswer(r)

Spec == Init /\ [][Next]_vars

\* The guarded SELECT ends: PostgreSQL itself cuts it short after its timeout.  The
\* catalog query has none and may hang for ever; no fault has to happen, and no
\* client has to ask.
FairSpec == Spec /\ \A r \in Requests : WF_vars(Select(r) \/ SelectRefused(r))
-----------------------------------------------------------------------------
(* Properties                                                               *)

Queries == {a \in Asks : a.kind # "datasets"}
Answers == [status : {200, 400, 422, 500, 503},
            reason : {"none", "schema"} \cup Explore!RejectionReason
                       \cup Policy!SqlPolicyRejectionReason,
            event : {"request_completed", "request_server_error", "request_failed"}]
Found == [columns : {OutputOf(a) : a \in Queries}, rows : 0..MaxRows,
          numbers : SUBSET Measures]

\* A catalog as a client may see it.
IsCatalog(c) ==
  /\ Builtins \subseteq DOMAIN c /\ DOMAIN c \subseteq Builtins \cup Names
  /\ \A d \in DOMAIN c : c[d] \in {BaseColumns[b] : b \in Builtins} \cup {<<>>}
                                      \cup {s.columns : s \in Sources}
  /\ c = [d \in DOMAIN c |-> c[d]]

TypeOK ==
  /\ views \in [Names -> Sources \cup {Absent}]
  /\ listed \in [Names -> Sources \cup {Absent}]
  /\ pc \in [Requests -> {"idle", "received", "select", "answered"}]
  /\ ask \in [Requests -> Asks \cup {Nothing}]
  /\ \A r \in Requests : pc[r] # "idle" => ask[r] \in Asks
  /\ audit \in [Requests -> Seq({"accepted", "rejected", "completed"})]
  /\ answer \in [Requests -> Answers \cup {Nothing}]
  /\ \A r \in Requests : answer[r] # Nothing /\ answer[r].status = 400 =>
       answer[r].reason \in IF ask[r].kind = "explore" THEN Explore!RejectionReason
                           ELSE Policy!SqlPolicyRejectionReason
  /\ \A r \in Requests : result[r] \in Found \cup {Nothing} \/ IsCatalog(result[r])
  /\ IsCatalog(shown)
  /\ failed \in [Requests -> SUBSET {"catalog", "select"}]
  /\ trusted \in [Requests -> BOOLEAN]
  /\ stale \subseteq Names
  /\ gone \in [Requests -> SUBSET Names] /\ lost \in [Requests -> SUBSET Names]

\* A Chart Builder query that passed validation is answered "database unavailable"
\* only if a call to the database failed, its join equates columns that do not
\* compare, or, since its catalog read, a view table it names was dropped, or one
\* leads into a circle of views or into a view whose expressions raise: no
\* replacement of a view takes a relation or a column from a query in flight.  SQL
\* text may besides name a column that its relations lack, or raise itself.
UnavailableHasCause ==
  [][\A r \in Requests :
       pc[r] = "select" /\ answer'[r] # answer[r] /\ answer'[r].status = 503 =>
         \/ "select" \in failed'[r]
         \/ Needed(ask[r]) \cap lost[r] # {}
         \/ \E d \in Needed(ask[r]) \cap Names : Unexpandable(d)
         \/ ~JoinsCompare(ask[r]) \/ MayRaise(ask[r])
         \/ ask[r].kind # "explore" /\ ~HasColumns(ask[r])]_vars

\* A query that the datasets a client was shown allow is rejected only if the
\* catalog query failed for it, or a view table it names was unlisted since those
\* datasets were read, however the others changed and whichever was replaced.
ShownQueriesAccepted ==
  \A r \in Requests :
    pc[r] = "answered" /\ trusted[r] /\ answer[r].status \in {400, 422} =>
      "catalog" \in failed[r] \/ Needed(ask[r]) \cap gone[r] # {}

\* The SQL audit log tells the answers of SQL Lab apart: which text was rejected,
\* which ran to its end and which was cut short; text without a line failed the
\* request schema, the tokenizer or an unmapped call to the database.
AuditMatchesAnswer ==
  \A r \in Requests : pc[r] = "answered" =>
    /\ ask[r].kind # "sql" => audit[r] = <<>>
    /\ ask[r].kind = "sql" =>
         CASE answer[r].status = 200 -> audit[r] = <<"accepted", "completed">>
           [] answer[r].status = 400 -> audit[r] = <<"rejected">>
           [] answer[r].status = 422 -> audit[r] = <<>>
           [] answer[r].status = 503 -> audit[r] = <<"accepted">>
           [] OTHER -> /\ answer[r].event = "request_failed"
                       /\ audit[r] = <<>> => \/ "catalog" \in failed[r]
                                             \/ Untokenizable(ask[r])
                       /\ audit[r] # <<>> => audit[r] = <<"accepted">> /\ "select" \in failed[r]

\* The chart suggested with a result is one its rows can be drawn as: the axes are
\* columns of the result and differ, x is no measure and y is one, and only time
\* columns become lines.  The rows stay within what was asked for and allowed.
ChartFitsResult ==
  \A r \in Requests : result[r] # Nothing /\ ask[r].kind # "datasets" =>
    LET found == result[r]
        chart == ChartOf(found)
        measures == IF found.rows = 0 THEN {} ELSE found.numbers
    IN  /\ found.rows <= ask[r].limit
        /\ ask[r].kind = "preview" => found.rows <= MaxPreviewRows
        /\ {chart.x, chart.y, chart.series} \subseteq ToSet(found.columns) \cup {NoAxis}
        /\ chart.x # NoAxis => chart.x \notin measures /\ chart.y \in measures
        /\ chart.series # NoAxis => chart.series \notin {chart.x, chart.y}
        /\ chart.kind = "line" => chart.x \in Times
        /\ chart.kind = "metric" => chart.y \in measures \/ Len(found.columns) = 1

=============================================================================
