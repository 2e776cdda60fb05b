----------------------- MODULE AnalyticsResultsProofs -----------------------
(***************************************************************************)
(* Theorems about what AnalyticsQueries answers, for any requests, queries, *)
(* view tables and limits: every variable keeps its type, a rejection has a *)
(* reason of its kind, and the chart suggested with a result fits it.       *)
(***************************************************************************)
EXTENDS AnalyticsQueriesProofs, NaturalSets

-----------------------------------------------------------------------------
(* Least elements *)

\* The least number of a set of numbers that is not empty.
LEMMA MinOfNaturals ==
  ASSUME NEW S, S \subseteq Nat, S # {}
  PROVE  Min(S) \in S /\ \A n \in S : Min(S) <= n
<1>1. \E n \in S : \A m \in S : n <= m
  BY LeastNatural
<1> QED BY <1>1 DEF Min

\* The lesser of two numbers.
LEMMA MinOfTwo ==
  ASSUME NEW m \in Int, NEW n \in Int
  PROVE  Min({m, n}) \in Int /\ Min({m, n}) <= m /\ Min({m, n}) <= n
<1>1. \E x \in {m, n} : \A y \in {m, n} : x <= y
  OBVIOUS
<1> QED BY <1>1 DEF Min
-----------------------------------------------------------------------------
(* Why a request is rejected *)

\* A text that the policy refuses is given one of the reasons it declares.
LEMMA PolicyReason ==
  ASSUME NEW s, NEW allowed, ~Policy!Accepts(s, allowed)
  PROVE  Policy!Reason(s, allowed) \in Policy!SqlPolicyRejectionReason
<1> DEFINE applies == {i \in DOMAIN Policy!Checks(s, allowed) :
                         Policy!Checks(s, allowed)[i][2]}
<1>1. DOMAIN Policy!Checks(s, allowed) = 1 .. 13
  BY DEF Policy!Checks
<1>2. applies # {} /\ applies \subseteq Nat
  BY <1>1 DEF Policy!Accepts
<1>3. Min(applies) \in 1 .. 13
  BY <1>1, <1>2, MinOfNaturals
<1>4. \A i \in 1 .. 13 : Policy!Checks(s, allowed)[i][1] \in Policy!SqlPolicyRejectionReason
  <2>1. \A i \in 1 .. 13 : \/ i = 1 \/ i = 2 \/ i = 3 \/ i = 4 \/ i = 5 \/ i = 6 \/ i = 7
                           \/ i = 8 \/ i = 9 \/ i = 10 \/ i = 11 \/ i = 12 \/ i = 13
    OBVIOUS
  <2> QED BY <2>1 DEF Policy!Checks, Policy!SqlPolicyRejectionReason
<1>5. Policy!Reason(s, allowed) = Policy!Checks(s, allowed)[Min(applies)][1]
  BY DEF Policy!Reason, Policy!Min, Min
<1> QED BY <1>3, <1>4, <1>5

\* So is a Chart Builder query that is refused.
LEMMA ExploreReason ==
  ASSUME NEW q, NEW c, ~Explore!Accepts(q, c)
  PROVE  Explore!Reason(q, c) \in Explore!RejectionReason
<1> DEFINE applies == {i \in DOMAIN Explore!Checks(q, c) : Explore!Checks(q, c)[i][2]}
<1>1. DOMAIN Explore!Checks(q, c) = 1 .. 11
  BY DEF Explore!Checks
<1>2. applies # {} /\ applies \subseteq Nat
  BY <1>1 DEF Explore!Accepts
<1>3. Min(applies) \in 1 .. 11
  BY <1>1, <1>2, MinOfNaturals
<1>4. \A i \in 1 .. 11 : Explore!Checks(q, c)[i][1] \in Explore!RejectionReason
  <2>1. \A i \in 1 .. 11 : \/ i = 1 \/ i = 2 \/ i = 3 \/ i = 4 \/ i = 5 \/ i = 6 \/ i = 7
                           \/ i = 8 \/ i = 9 \/ i = 10 \/ i = 11
    OBVIOUS
  <2> QED BY <2>1 DEF Explore!Checks, Explore!RejectionReason
<1>5. Explore!Reason(q, c) = Explore!Checks(q, c)[Min(applies)][1]
  BY DEF Explore!Reason, Explore!Min, Min
<1> QED BY <1>3, <1>4, <1>5
-----------------------------------------------------------------------------
(* The chart of a result *)

\* The first wanted column, where there is one.
LEMMA FirstColumn ==
  ASSUME NEW S, NEW columns \in Seq(S), NEW wanted
  PROVE  /\ wanted \cap ToSet(columns) = {} => Charts!First(columns, wanted) = NoAxis
         /\ wanted \cap ToSet(columns) # {} =>
              Charts!First(columns, wanted) \in wanted \cap ToSet(columns)
<1> DEFINE found == {i \in DOMAIN columns : columns[i] \in wanted}
<1>1. found \subseteq Nat
  OBVIOUS
<1>2. found = {} <=> wanted \cap ToSet(columns) = {}
  BY DEF ToSet
<1>3. Charts!First(columns, wanted) = IF found = {} THEN NoAxis ELSE columns[Min(found)]
  BY DEF Charts!First, Charts!Min, Min
<1>4. ASSUME found # {}
      PROVE  columns[Min(found)] \in wanted \cap ToSet(columns)
  <2>1. Min(found) \in found
    BY <1>1, <1>4, MinOfNaturals
  <2> QED BY <2>1 DEF ToSet
<1> QED BY <1>2, <1>3, <1>4

\* What a suggestion promises.
Fits(chart, columns, measures, temporal) ==
  /\ {chart.x, chart.y, chart.series} \subseteq ToSet(columns) \cup {NoAxis}
  /\ chart.x # NoAxis => chart.x \notin measures /\ chart.y \in measures
  /\ chart.series # NoAxis => chart.series \notin {chart.x, chart.y}
  /\ chart.kind = "line" => chart.x \in temporal
  /\ chart.kind = "metric" => chart.y \in measures \/ Len(columns) = 1

\* What suggest_chart suggests can be drawn, whatever the columns of the result, the
\* numeric ones among them and the time columns.
THEOREM SuggestionFits ==
  ASSUME NEW S, NEW columns \in Seq(S), NEW numeric, numeric \subseteq ToSet(columns),
         NEW temporal
  PROVE  Fits(Charts!Suggest(columns, numeric, temporal), columns, numeric, temporal)
<1> DEFINE single == Len(columns) = 1 \/ ToSet(columns) \subseteq numeric
           x == Charts!First(columns, ToSet(columns) \ numeric)
           y == Charts!First(columns, numeric)
           series == Charts!SeriesAxis(columns, x, y)
           suggested == Charts!Suggest(columns, numeric, temporal)
<1>0. \A kind, u, v, w : /\ Charts!Chart(kind, u, v, w).kind = kind
                         /\ Charts!Chart(kind, u, v, w).x = u
                         /\ Charts!Chart(kind, u, v, w).y = v
                         /\ Charts!Chart(kind, u, v, w).series = w
  BY DEF Charts!Chart
<1>1. CASE suggested = Charts!Chart("table", NoAxis, NoAxis, NoAxis)
  BY <1>0, <1>1 DEF Fits
<1>2. CASE /\ columns # <<>> /\ single
           /\ suggested = Charts!Chart("metric", NoAxis,
                            IF numeric = {} THEN Head(columns) ELSE y, NoAxis)
  <2>1. CASE numeric = {}
    <3>1. Head(columns) \in ToSet(columns)
      BY <1>2 DEF ToSet
    <3>2. Len(columns) = 1
      BY <1>2, <2>1, <3>1
    <3> QED BY <1>0, <1>2, <2>1, <3>1, <3>2 DEF Fits
  <2>2. CASE numeric # {}
    <3>1. y \in numeric
      BY <2>2, FirstColumn
    <3> QED BY <1>0, <1>2, <2>2, <3>1 DEF Fits
  <2> QED BY <2>1, <2>2
<1>3. CASE /\ ~single /\ numeric # {}
           /\ suggested = Charts!Chart(IF x \in temporal THEN "line" ELSE "bar",
                                       x, y, series)
  <2>1. x \in ToSet(columns) \ numeric
    BY <1>3, FirstColumn
  <2>2. y \in numeric
    BY <1>3, FirstColumn
  <2>3. series = NoAxis \/ series \in ToSet(columns) \ {x, y}
    BY FirstColumn DEF Charts!SeriesAxis, Charts!ToSet, ToSet
  <2> QED BY <1>0, <1>3, <2>1, <2>2, <2>3 DEF Fits
<1> QED BY <1>1, <1>2, <1>3 DEF Charts!Suggest, Charts!ToSet, ToSet
-----------------------------------------------------------------------------
(* What a query returns *)

LEMMA RowLimits ==
  ASSUME NEW a \in Queries
  PROVE  /\ RowLimit(a) \in Int /\ RowLimit(a) <= MaxRows /\ RowLimit(a) <= a.limit
         /\ a.kind = "preview" => RowLimit(a) <= MaxPreviewRows
<1>1. a.limit \in Int /\ MaxRows \in Int /\ MaxPreviewRows \in Int
  BY ConstantsAssumption DEF ConstantsAssumption, Queries
<1>2. \A n : /\ Explore!RowLimit(n, MaxRows) = Min({n, MaxRows})
             /\ Policy!RowLimit(n, MaxRows) = Min({n, MaxRows})
  BY DEF Explore!RowLimit, Policy!RowLimit, Explore!Min, Policy!Min, Min
<1>3. CASE a.kind # "preview"
  <2>1. RowLimit(a) = Min({a.limit, MaxRows})
    BY <1>2, <1>3 DEF RowLimit
  <2> QED BY <1>1, <1>3, <2>1, MinOfTwo
<1>4. CASE a.kind = "preview"
  <2> DEFINE capped == Min({a.limit, MaxPreviewRows})
  <2>1. RowLimit(a) = Min({capped, MaxRows})
    BY <1>2, <1>4 DEF RowLimit
  <2>2. capped \in Int /\ capped <= a.limit /\ capped <= MaxPreviewRows
    BY <1>1, MinOfTwo
  <2>3. RowLimit(a) \in Int /\ RowLimit(a) <= capped /\ RowLimit(a) <= MaxRows
    BY <1>1, <2>1, <2>2, MinOfTwo
  <2> QED BY <1>1, <2>2, <2>3
<1> QED BY <1>3, <1>4

LEMMA OutputIsSequence ==
  ASSUME NEW a \in Queries
  PROVE  OutputOf(a) \in Seq(ToSet(OutputOf(a)))
<1>1. \E n \in Nat : DOMAIN OutputOf(a) = 1 .. n
      /\ OutputOf(a) = [i \in DOMAIN OutputOf(a) |-> OutputOf(a)[i]]
  <2>1. CASE a.kind = "explore"
    <3>1. a.columns \in Seq([dataset : STRING, column : STRING])
      BY <2>1, ConstantsAssumption DEF ConstantsAssumption, Queries
    <3>2. PICK n \in Nat : DOMAIN a.columns = 1 .. n
      BY <3>1
    <3>3. OutputOf(a) = Explore!OutputColumns(a)
      BY <2>1 DEF OutputOf
    <3> QED BY <3>2, <3>3 DEF Explore!OutputColumns
  <2>2. CASE a.kind # "explore"
    <3>1. a.statement.columns \in Seq(STRING) /\ OutputOf(a) = a.statement.columns
      BY <2>2, ConstantsAssumption DEF ConstantsAssumption, Queries, OutputOf
    <3> QED BY <3>1
  <2> QED BY <2>1, <2>2
<1> QED BY <1>1 DEF ToSet

\* A result is one of the type, and the chart suggested with it fits.
LEMMA ResultFits ==
  ASSUME NEW a \in Queries, NEW found \in Results(a)
  PROVE  /\ found \in Found
         /\ found.rows <= a.limit
         /\ a.kind = "preview" => found.rows <= MaxPreviewRows
         /\ Fits(ChartOf(found), found.columns,
                 IF found.rows = 0 THEN {} ELSE found.numbers, Times)
<1>1. /\ found.columns = OutputOf(a) /\ found.rows \in 0 .. RowLimit(a)
      /\ found.numbers \subseteq Measures \cap ToSet(found.columns)
      /\ found = [columns |-> found.columns, rows |-> found.rows, numbers |-> found.numbers]
  BY DEF Results
<1>2. found.rows <= a.limit /\ found.rows \in 0 .. MaxRows
      /\ (a.kind = "preview" => found.rows <= MaxPreviewRows)
  <2>1. a.limit \in Int /\ MaxRows \in Int /\ MaxPreviewRows \in Int
    BY ConstantsAssumption DEF ConstantsAssumption, Queries
  <2> QED BY <1>1, <2>1, RowLimits
<1>3. found \in Found
  BY <1>1, <1>2 DEF Found
<1> DEFINE measures == IF found.rows = 0 THEN {} ELSE found.numbers
<1>4. /\ Charts!Numeric(found.columns, found.rows, found.numbers) = measures
      /\ measures \subseteq ToSet(found.columns)
  BY <1>1 DEF Charts!Numeric, Charts!ToSet, ToSet
<1>5. found.columns \in Seq(ToSet(found.columns))
  BY <1>1, OutputIsSequence
<1>6. Fits(Charts!Suggest(found.columns, measures, Times), found.columns, measures, Times)
  BY <1>4, <1>5, SuggestionFits
<1> QED BY <1>2, <1>3, <1>4, <1>6 DEF ChartOf

\* The catalogs a request may be decided on are such as a client may see.
LEMMA CatalogSeen ==
  ASSUME Shapes, NEW c, c \in {Datasets, Generated}
  PROVE  IsCatalog(c)
<1>1. Names \cap Builtins = {} /\ Builtins \subseteq Bases /\ Names \cap Bases = {}
  BY ConstantsAssumption DEF ConstantsAssumption, Bases
<1>2. CASE c = Datasets
  <2>1. /\ DOMAIN c = Builtins \cup {n \in Names : listed[n] # Absent}
        /\ c = [d \in DOMAIN c |-> c[d]]
        /\ \A d \in DOMAIN c : c[d] = Columns(d)
    BY <1>2 DEF Datasets
  <2>2. ASSUME NEW d \in DOMAIN c
        PROVE  Columns(d) \in {BaseColumns[b] : b \in Builtins} \cup {<<>>}
                                \cup {s.columns : s \in Sources}
    <3>1. CASE d \in Builtins
      BY <1>1, <3>1 DEF Columns
    <3>2. CASE d \in Names
      <4>1. d \notin Bases /\ views[d] \in Sources \cup {Absent}
        BY <1>1, <3>2 DEF Shapes
      <4> QED BY <4>1 DEF Columns
    <3> QED BY <2>1, <3>1, <3>2
  <2> QED BY <2>1, <2>2 DEF IsCatalog
<1>3. CASE c = Generated
  <2>1. DOMAIN c = Builtins /\ c = [d \in DOMAIN c |-> c[d]]
        /\ \A d \in DOMAIN c : c[d] = BaseColumns[d]
    BY <1>3 DEF Generated
  <2> QED BY <2>1 DEF IsCatalog
<1> QED BY <1>2, <1>3
-----------------------------------------------------------------------------
(* The answers *)

ReasonsOf(a) == IF a.kind = "explore" THEN Explore!RejectionReason
                ELSE Policy!SqlPolicyRejectionReason

\* A request has an answer when it is answered; a listing that succeeded has a
\* catalog, a query that did a result of its own.
ResultOf(r) ==
  /\ pc[r] # "answered" => answer[r] = Nothing /\ result[r] = Nothing
  /\ pc[r] = "answered" =>
       /\ answer[r] \in Answers
       /\ answer[r].status = 400 => answer[r].reason \in ReasonsOf(ask[r])
       /\ ask[r].kind = "datasets" =>
            \/ IsCatalog(result[r])
            \/ result[r] = Nothing /\ answer[r].status # 200
       /\ ask[r].kind # "datasets" => result[r] \in Results(ask[r]) \cup {Nothing}

ResultInv ==
  /\ Shapes /\ IsCatalog(shown)
  /\ ask \in [Requests -> Asks \cup {Nothing}]
  /\ trusted \in [Requests -> BOOLEAN]
  /\ audit = [r \in Requests |-> audit[r]] /\ answer = [r \in Requests |-> answer[r]]
  /\ \A r \in Requests : ResultOf(r)

Statuses == {200, 400, 422, 500, 503}
Reasons == {"none", "schema"} \cup Explore!RejectionReason
             \cup Policy!SqlPolicyRejectionReason

LEMMA AnswerOf ==
  ASSUME Shapes, NEW r \in Requests
  PROVE  /\ \A status \in Statuses, reason \in Reasons : \A body :
              Respond(r, status, reason, body) =>
                /\ pc'[r] = "answered" /\ result'[r] = body
                /\ answer'[r] \in Answers /\ answer'[r].status = status
                /\ answer'[r].reason = reason
         /\ Unhandled(r) =>
              /\ pc'[r] = "answered" /\ result'[r] = result[r]
              /\ answer'[r] \in Answers /\ answer'[r].status = 500
<1>1. DOMAIN answer = Requests /\ DOMAIN pc = Requests /\ DOMAIN result = Requests
  BY DEF Shapes
<1>2. ASSUME NEW status \in Statuses, NEW reason \in Reasons, NEW body,
             Respond(r, status, reason, body)
      PROVE  /\ pc'[r] = "answered" /\ result'[r] = body
             /\ answer'[r] \in Answers /\ answer'[r].status = status
             /\ answer'[r].reason = reason
  <2>1. /\ pc'[r] = "answered" /\ result'[r] = body
        /\ answer'[r] = [status |-> status, reason |-> reason, event |-> LogEvent(status)]
    BY <1>1, <1>2 DEF Respond
  <2>2. LogEvent(status) \in {"request_completed", "request_server_error"}
    BY DEF LogEvent
  <2> QED BY <2>1, <2>2 DEF Answers, Statuses, Reasons
<1>3. ASSUME Unhandled(r)
      PROVE  /\ pc'[r] = "answered" /\ result'[r] = result[r]
             /\ answer'[r] \in Answers /\ answer'[r].status = 500
  <2>1. /\ pc'[r] = "answered" /\ result'[r] = result[r]
        /\ answer'[r] = [status |-> 500, reason |-> "none", event |-> "request_failed"]
    BY <1>1, <1>3 DEF Unhandled
  <2> QED BY <2>1 DEF Answers
<1> QED BY <1>2, <1>3

LEMMA KnownAnswers ==
  /\ 200 \in Statuses /\ 400 \in Statuses /\ 422 \in Statuses /\ 503 \in Statuses
  /\ "none" \in Reasons /\ "schema" \in Reasons
  /\ \A a : ReasonsOf(a) \subseteq Reasons
BY DEF Statuses, Reasons, ReasonsOf

\* A decision answers with the catalog read, with a reason, or lets the query run.
LEMMA DecideResult ==
  ASSUME ResultInv, NEW r \in Requests, NEW c, c \in {Datasets, Generated}, Decide(r, c),
         pc[r] = "received", ask' = ask, ask[r] \in Asks
  PROVE  ResultOf(r)'
<1>1. answer[r] = Nothing /\ result[r] = Nothing /\ Shapes
  BY DEF ResultInv, ResultOf
<1>2. ask'[r] = ask[r]
  OBVIOUS
<1>3. CASE ask[r].kind = "datasets" /\ Respond(r, 200, "none", c)
  <2>1. /\ pc'[r] = "answered" /\ result'[r] = c
        /\ answer'[r] \in Answers /\ answer'[r].status = 200
    BY <1>1, <1>3, AnswerOf, KnownAnswers
  <2>2. IsCatalog(c)
    BY <1>1, CatalogSeen
  <2> QED BY <1>2, <1>3, <2>1, <2>2 DEF ResultOf
<1>4. CASE Untokenizable(ask[r]) /\ Unhandled(r)
  <2>1. /\ pc'[r] = "answered" /\ result'[r] = Nothing
        /\ answer'[r] \in Answers /\ answer'[r].status = 500
    BY <1>1, <1>4, AnswerOf, KnownAnswers
  <2> QED BY <2>1 DEF ResultOf
<1>5. CASE pc' = [pc EXCEPT ![r] = "select"] /\ UNCHANGED <<answer, result>>
  <2>1. pc'[r] = "select"
    BY <1>1, <1>5 DEF Shapes
  <2> QED BY <1>1, <1>5, <2>1 DEF ResultOf
<1>6. CASE /\ ~Untokenizable(ask[r]) /\ ~Accepted(ask[r], c)
           /\ Respond(r, 400, ReasonOf(ask[r], c), Nothing)
  <2>1. ReasonOf(ask[r], c) \in ReasonsOf(ask[r]) /\ ask[r].kind # "datasets"
    <3>1. ask[r].kind # "datasets"
      BY <1>6 DEF Accepted
    <3>2. CASE ask[r].kind = "explore"
      BY <1>6, <3>2, ExploreReason DEF Accepted, ReasonOf, ReasonsOf
    <3>3. CASE ask[r].kind # "explore"
      BY <1>6, <3>1, <3>3, PolicyReason DEF Accepted, ReasonOf, ReasonsOf
    <3> QED BY <3>1, <3>2, <3>3
  <2>2. /\ pc'[r] = "answered" /\ result'[r] = Nothing
        /\ answer'[r] \in Answers /\ answer'[r].status = 400
        /\ answer'[r].reason = ReasonOf(ask[r], c)
    BY <1>1, <1>6, <2>1, AnswerOf, KnownAnswers
  <2> QED BY <1>2, <2>1, <2>2 DEF ResultOf
<1> QED BY <1>3, <1>4, <1>5, <1>6 DEF Decide

LEMMA AnsweredResult ==
  ASSUME ResultInv, NEW r \in Requests, Moves(r),
         \/ RejectMalformed(r) \/ ReadCatalog(r) \/ CatalogFails(r) \/ CatalogRaises(r)
         \/ Select(r) \/ SelectRefused(r) \/ SelectFails(r) \/ SelectRaises(r),
         AuditInv
  PROVE  ResultOf(r)'
<1>1. Shapes /\ ask' = ask /\ ask'[r] = ask[r] /\ ask[r] \in Asks
  BY DEF ResultInv, Moves, Shapes
<1>2. pc[r] \in {"received", "select"} => answer[r] = Nothing /\ result[r] = Nothing
  BY DEF ResultInv, ResultOf
<1>3. pc[r] = "select" => ask[r].kind # "datasets"
  BY DEF AuditInv, AuditOf
<1>4. CASE RejectMalformed(r)
  <2>1. /\ pc'[r] = "answered" /\ result'[r] = Nothing
        /\ answer'[r] \in Answers /\ answer'[r].status = 422
    BY <1>1, <1>4, AnswerOf, KnownAnswers DEF RejectMalformed
  <2> QED BY <2>1 DEF ResultOf
<1>5. CASE CatalogRaises(r) \/ SelectRaises(r)
  <2>1. /\ pc'[r] = "answered" /\ result'[r] = Nothing
        /\ answer'[r] \in Answers /\ answer'[r].status = 500
    BY <1>1, <1>2, <1>5, AnswerOf, KnownAnswers DEF CatalogRaises, SelectRaises
  <2> QED BY <2>1 DEF ResultOf
<1>6. CASE SelectRefused(r) \/ SelectFails(r)
  <2>1. /\ pc'[r] = "answered" /\ result'[r] = Nothing
        /\ answer'[r] \in Answers /\ answer'[r].status = 503
    BY <1>1, <1>6, AnswerOf, KnownAnswers DEF SelectRefused, SelectFails
  <2> QED BY <2>1 DEF ResultOf
<1>7. CASE Select(r)
  <2>1. PICK found \in Results(ask[r]) : Respond(r, 200, "none", found)
    BY <1>7 DEF Select
  <2>2. /\ pc'[r] = "answered" /\ result'[r] = found
        /\ answer'[r] \in Answers /\ answer'[r].status = 200
    BY <1>1, <2>1, AnswerOf, KnownAnswers
  <2>3. ask[r].kind # "datasets"
    BY <1>3, <1>7 DEF Select
  <2> QED BY <1>1, <2>2, <2>3 DEF ResultOf
<1>8. CASE ReadCatalog(r) \/ CatalogFails(r)
  <2>1. PICK c \in {Datasets, Generated} : Decide(r, c)
    BY <1>8 DEF ReadCatalog, CatalogFails
  <2>2. pc[r] = "received"
    BY <2>1 DEF Decide
  <2> QED BY <1>1, <2>1, <2>2, DecideResult
<1> QED BY <1>4, <1>5, <1>6, <1>7, <1>8

\* The log and the answers stay functions of the requests.
LEMMA StillFunctions ==
  ASSUME ResultInv, NEW r \in Requests, Steps(r)
  PROVE  /\ audit' = [q \in Requests |-> audit'[q]]
         /\ answer' = [q \in Requests |-> answer'[q]]
<1>1. /\ audit = [q \in Requests |-> audit[q]]
      /\ answer = [q \in Requests |-> answer[q]]
  BY DEF ResultInv
<1>2. /\ UNCHANGED audit \/ \E lines : Log(r, lines) \/ audit' = [audit EXCEPT ![r] = lines]
      /\ \/ UNCHANGED answer
         \/ (\E status, reason, body : Respond(r, status, reason, body))
         \/ Unhandled(r)
         \/ \E v : answer' = [answer EXCEPT ![r] = v]
  <2>1. CASE \E a \in Asks : Submit(r, a)
    BY <2>1 DEF Submit
  <2>2. CASE RejectMalformed(r) \/ CatalogRaises(r) \/ SelectRefused(r) \/ SelectFails(r)
               \/ SelectRaises(r)
    BY <2>2 DEF RejectMalformed, CatalogRaises, SelectRefused, SelectFails, SelectRaises
  <2>3. CASE ReadCatalog(r) \/ CatalogFails(r)
    BY <2>3 DEF ReadCatalog, CatalogFails, Decide
  <2>4. CASE Select(r)
    BY <2>4 DEF Select
  <2>5. CASE Deliver(r) \/ LoseAnswer(r)
    BY <2>5 DEF Deliver, LoseAnswer, Forget
  <2> QED BY <2>1, <2>2, <2>3, <2>4, <2>5 DEF Steps
<1>3. UNCHANGED audit \/ \E v : audit' = [audit EXCEPT ![r] = v]
  BY <1>2 DEF Log
<1>4. UNCHANGED answer \/ \E v : answer' = [answer EXCEPT ![r] = v]
  BY <1>2 DEF Respond, Unhandled
<1> QED BY <1>1, <1>3, <1>4

LEMMA ResultStep ==
  ASSUME ResultInv, AuditInv, NEW r \in Requests, Steps(r)
  PROVE  ResultInv'
<1>1. Shapes /\ Shapes'
  BY StepsShapes DEF ResultInv
<1>2. ask \in [Requests -> Asks \cup {Nothing}] /\ trusted \in [Requests -> BOOLEAN]
  BY DEF ResultInv
<1>3. ASSUME NEW q \in Requests, pc'[q] = pc[q], ask'[q] = ask[q],
             answer'[q] = answer[q], result'[q] = result[q]
      PROVE  ResultOf(q)'
  BY <1>3 DEF ResultInv, ResultOf
<1>4. /\ audit' = [q \in Requests |-> audit'[q]]
      /\ answer' = [q \in Requests |-> answer'[q]]
  BY StillFunctions
<1>5. CASE \E a \in Asks : Submit(r, a)
  <2>1. PICK a \in Asks : Submit(r, a)
    BY <1>5
  <2>2. pc[r] = "idle" /\ pc'[r] = "received" /\ UNCHANGED <<answer, result, shown>>
    BY <1>1, <2>1 DEF Submit, Shapes
  <2>3. \A q \in Requests \ {r} : pc'[q] = pc[q] /\ ask'[q] = ask[q]
    BY <1>1, <2>1 DEF Submit, Shapes
  <2>4. ask' \in [Requests -> Asks \cup {Nothing}]
    BY <1>2, <2>1 DEF Submit
  <2>5. trusted' \in [Requests -> BOOLEAN]
    <3>1. trusted' = [trusted EXCEPT ![r] = ~Malformed(a) /\ Offered(a, shown)]
      BY <2>1 DEF Submit
    <3>2. (~Malformed(a) /\ Offered(a, shown)) \in BOOLEAN
      BY Zenon
    <3> QED BY <1>2, <3>1, <3>2
  <2>6. ResultOf(r)'
    BY <2>2 DEF ResultInv, ResultOf
  <2> QED BY <1>1, <1>3, <1>4, <2>2, <2>3, <2>4, <2>5, <2>6 DEF ResultInv
<1>6. CASE Deliver(r) \/ LoseAnswer(r)
  <2>1. Forget(r)
    BY <1>6 DEF Deliver, LoseAnswer
  <2>2. \A q \in Requests \ {r} : /\ pc'[q] = pc[q] /\ ask'[q] = ask[q]
                                  /\ answer'[q] = answer[q] /\ result'[q] = result[q]
    BY <1>1, <2>1 DEF Forget, Shapes
  <2>3. pc'[r] = "idle" /\ answer'[r] = Nothing /\ result'[r] = Nothing
    BY <1>1, <2>1 DEF Forget, Shapes
  <2>4. ask' \in [Requests -> Asks \cup {Nothing}] /\ trusted' \in [Requests -> BOOLEAN]
    BY <1>2, <2>1 DEF Forget
  <2>5. IsCatalog(shown)'
    <3>1. CASE Deliver(r) /\ ask[r].kind = "datasets" /\ answer[r].status = 200
      <4>1. pc[r] = "answered"
        BY <2>1 DEF Forget
      <4>2. IsCatalog(result[r])
        BY <3>1, <4>1 DEF ResultInv, ResultOf
      <4>3. shown' = result[r]
        BY <3>1 DEF Deliver
      <4> QED BY <4>2, <4>3
    <3>2. CASE UNCHANGED shown
      BY <3>2 DEF ResultInv
    <3> QED BY <1>6, <3>1, <3>2 DEF Deliver, LoseAnswer
  <2>6. ResultOf(r)'
    BY <2>3 DEF ResultOf
  <2> QED BY <1>1, <1>3, <1>4, <2>2, <2>4, <2>5, <2>6 DEF ResultInv
<1>7. CASE \/ RejectMalformed(r) \/ ReadCatalog(r) \/ CatalogFails(r) \/ CatalogRaises(r)
           \/ Select(r) \/ SelectRefused(r) \/ SelectFails(r) \/ SelectRaises(r)
  <2>1. Moves(r)
    BY <1>1, <1>7, StepsMove
  <2>2. UNCHANGED <<ask, trusted, shown>> /\ \A q \in Requests \ {r} :
          pc'[q] = pc[q] /\ answer'[q] = answer[q] /\ result'[q] = result[q]
    BY <2>1 DEF Moves
  <2>3. ResultOf(r)'
    BY <1>7, <2>1, AnsweredResult
  <2>4. \A q \in Requests \ {r} : ResultOf(q)'
    BY <1>3, <2>2
  <2>5. IsCatalog(shown)'
    BY <2>2 DEF ResultInv
  <2> QED BY <1>1, <1>2, <1>4, <2>2, <2>3, <2>4, <2>5 DEF ResultInv
<1> QED BY <1>5, <1>6, <1>7 DEF Steps

LEMMA ResultChange ==
  ASSUME ResultInv, CatalogChanges \/ UNCHANGED vars
  PROVE  ResultInv'
<1>1. Shapes'
  BY ChangesShapes, SameShapes DEF ResultInv
<1>2. UNCHANGED <<pc, ask, audit, answer, result, trusted, shown>>
  BY DEF CatalogChanges, vars, request
<1> QED BY <1>1, <1>2 DEF ResultInv, ResultOf

LEMMA InitResults == Init => ResultInv
<1> SUFFICES ASSUME Init PROVE ResultInv
  OBVIOUS
<1>1. Shapes
  BY InitShapes
<1>2. IsCatalog(shown)
  BY <1>1, CatalogSeen DEF Init
<1> QED BY <1>1, <1>2 DEF Init, ResultInv, ResultOf

\* The invariant of the answers, kept by every step.
LEMMA ResultsHold == Spec => [](ResultInv /\ AuditInv)
<1>1. Init => ResultInv /\ AuditInv
  BY InitResults, InitShapes
<1>2. ResultInv /\ AuditInv /\ [Next]_vars => (ResultInv /\ AuditInv)'
  <2> SUFFICES ASSUME ResultInv, AuditInv, [Next]_vars PROVE (ResultInv /\ AuditInv)'
    OBVIOUS
  <2>1. Shapes
    BY DEF ResultInv
  <2>2. ASSUME NEW r \in Requests, Steps(r) PROVE (ResultInv /\ AuditInv)'
    BY <2>1, <2>2, ResultStep, AuditStep
  <2>3. ASSUME UNCHANGED request PROVE AuditInv'
    BY <2>3 DEF request, AuditInv, AuditOf, AuditRight, Untokenizable, Audited
  <2>4. CASE CatalogChanges \/ UNCHANGED vars
    BY <2>3, <2>4, ResultChange DEF CatalogChanges, vars
  <2> QED BY <2>2, <2>4, NextSteps
<1> QED BY <1>1, <1>2, PTL DEF Spec

\* The chart suggested with any result is one its rows can be drawn as, and the
\* rows stay within the limit asked for and the cap of their kind of query.
THEOREM ChartsFit == Spec => []ChartFitsResult
<1>1. ResultInv => ChartFitsResult
  <2> SUFFICES ASSUME ResultInv, NEW r \in Requests, result[r] # Nothing,
                      ask[r].kind # "datasets"
               PROVE  /\ result[r].rows <= ask[r].limit
                      /\ ask[r].kind = "preview" => result[r].rows <= MaxPreviewRows
                      /\ Fits(ChartOf(result[r]), result[r].columns,
                              IF result[r].rows = 0 THEN {} ELSE result[r].numbers, Times)
    BY DEF ChartFitsResult, Fits
  <2>1. ResultOf(r) /\ Shapes
    BY DEF ResultInv
  <2>2. pc[r] = "answered" /\ result[r] \in Results(ask[r])
    BY <2>1 DEF ResultOf
  <2>3. ask[r] \in Queries
    BY <2>1, <2>2 DEF Shapes, Queries
  <2> QED BY <2>2, <2>3, ResultFits
<1> QED BY <1>1, ResultsHold, PTL

\* The lines of a request are lines of the log.
LEMMA AuditTyped ==
  ASSUME AuditInv, Shapes, NEW r \in Requests
  PROVE  audit[r] \in Seq({"accepted", "rejected", "completed"})
<1> DEFINE L == {"accepted", "rejected", "completed"}
<1>1. /\ <<>> \in Seq(L) /\ <<"accepted">> \in Seq(L) /\ <<"rejected">> \in Seq(L)
      /\ <<"accepted", "completed">> \in Seq(L)
  OBVIOUS
<1>2. AuditOf(r) /\ pc[r] \in {"idle", "received", "select", "answered"}
  BY DEF AuditInv, Shapes
<1>3. \/ audit[r] = <<>> \/ audit[r] = <<"accepted">> \/ audit[r] = <<"rejected">>
      \/ audit[r] = <<"accepted", "completed">>
  BY <1>2 DEF AuditOf, AuditRight, Audited
<1> QED BY <1>1, <1>3

\* Every variable keeps its type: a result is one its query may have, a catalog
\* shown is one of datasets, and a rejection's reason is one that its kind of query
\* declares.
THEOREM ResultsTyped == Spec => []TypeOK
<1>1. ResultInv /\ AuditInv => TypeOK
  <2> SUFFICES ASSUME ResultInv, AuditInv PROVE TypeOK
    OBVIOUS
  <2>1. Shapes
    BY DEF ResultInv
  <2>2. audit \in [Requests -> Seq({"accepted", "rejected", "completed"})]
    <3>1. audit = [r \in Requests |-> audit[r]]
      BY DEF ResultInv
    <3> QED BY <2>1, <3>1, AuditTyped
  <2>3. answer \in [Requests -> Answers \cup {Nothing}]
    <3>1. answer = [r \in Requests |-> answer[r]]
      BY DEF ResultInv
    <3>2. \A r \in Requests : answer[r] \in Answers \cup {Nothing}
      BY DEF ResultInv, ResultOf
    <3> QED BY <3>1, <3>2
  <2>4. ASSUME NEW r \in Requests
        PROVE  /\ answer[r] # Nothing /\ answer[r].status = 400 =>
                    answer[r].reason \in ReasonsOf(ask[r])
               /\ result[r] \in Found \cup {Nothing} \/ IsCatalog(result[r])
    <3>1. ResultOf(r)
      BY DEF ResultInv
    <3>2. CASE pc[r] # "answered"
      BY <3>1, <3>2 DEF ResultOf
    <3>3. CASE pc[r] = "answered"
      <4>1. ask[r] \in Asks
        BY <2>1, <3>3 DEF Shapes
      <4>2. ask[r].kind # "datasets" => result[r] \in Found \cup {Nothing}
        BY <3>1, <3>3, <4>1, ResultFits DEF ResultOf, Queries
      <4> QED BY <3>1, <3>3, <4>2 DEF ResultOf
    <3> QED BY <3>2, <3>3
  <2> QED BY <2>1, <2>2, <2>3, <2>4 DEF TypeOK, Shapes, ResultInv, ReasonsOf
<1> QED BY <1>1, ResultsHold, PTL
=============================================================================
