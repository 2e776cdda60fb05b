----------------------- MODULE AnalyticsQueriesProofs -----------------------
(***************************************************************************)
(* Theorems about AnalyticsQueries, for any requests, queries, view tables  *)
(* and generated views: why a query is answered "unavailable", why one that *)
(* the datasets shown allow is rejected, and what the audit log tells.      *)
(***************************************************************************)
EXTENDS AnalyticsQueries, SequenceTheorems, TLAPS

-----------------------------------------------------------------------------
(* What the validation of Chart Builder queries establishes *)

LEMMA AcceptsMeans ==
  ASSUME NEW q, NEW c
  PROVE  Explore!Accepts(q, c) <=>
           /\ q.dataset \in DOMAIN c
           /\ ~(Len(q.joins) > Explore!MaxJoins)
           /\ \A j \in Explore!Joins(q) :
                /\ j.dataset \in DOMAIN c /\ j.dataset # q.dataset
                /\ j.left \in Explore!ColumnNames(c, q.dataset)
                /\ j.right \in Explore!ColumnNames(c, j.dataset)
           /\ q.columns # <<>>
           /\ ~ \E i, j \in DOMAIN q.columns :
                  i # j /\ Explore!ColumnRefs(q)[i] = Explore!ColumnRefs(q)[j]
           /\ ~ \E i \in DOMAIN q.columns :
                  /\ Explore!FirstUnselectable(q, c, i)
                  /\ Explore!ColumnRefs(q)[i].dataset \notin Explore!Selectable(q)
           /\ \A i \in DOMAIN q.columns : Explore!CanSelect(q, c, Explore!ColumnRefs(q)[i])
           /\ ~Explore!OrderUnknown(q, c)
<1>1. DOMAIN Explore!Checks(q, c) = 1 .. 11
  BY DEF Explore!Checks
<1>2. Explore!Accepts(q, c) <=> \A i \in 1 .. 11 : ~Explore!Checks(q, c)[i][2]
  BY <1>1 DEF Explore!Accepts
<1>3. (\A i \in 1 .. 11 : ~Explore!Checks(q, c)[i][2]) <=>
        /\ ~Explore!Checks(q, c)[1][2] /\ ~Explore!Checks(q, c)[2][2]
        /\ ~Explore!Checks(q, c)[3][2] /\ ~Explore!Checks(q, c)[4][2]
        /\ ~Explore!Checks(q, c)[5][2] /\ ~Explore!Checks(q, c)[6][2]
        /\ ~Explore!Checks(q, c)[7][2] /\ ~Explore!Checks(q, c)[8][2]
        /\ ~Explore!Checks(q, c)[9][2] /\ ~Explore!Checks(q, c)[10][2]
        /\ ~Explore!Checks(q, c)[11][2]
  BY SMT
<1> QED BY <1>2, <1>3 DEF Explore!Checks

\* A query that build_explore_query accepts finds every column it needs in the
\* dataset it needs it of, in the catalog it was validated against.
THEOREM AcceptedFinds ==
  ASSUME NEW q, NEW c, Explore!Accepts(q, c)
  PROVE  \A d \in Explore!Selectable(q) :
           d \in DOMAIN c /\ Explore!Required(q, d) \subseteq ToSet(c[d])
<1> SUFFICES ASSUME NEW d \in Explore!Selectable(q)
             PROVE  d \in DOMAIN c /\ Explore!Required(q, d) \subseteq ToSet(c[d])
  OBVIOUS
<1>1. d \in DOMAIN c
  BY AcceptsMeans DEF Explore!Selectable
<1>2. Explore!ColumnNames(c, d) = ToSet(c[d])
  BY <1>1 DEF Explore!ColumnNames, Explore!ToSet, ToSet
<1>3. ASSUME NEW ref \in Explore!ToSet(Explore!ColumnRefs(q)) \cup Explore!OrderRefs(q),
             ref.dataset = d
      PROVE  ref.column \in ToSet(c[d])
  <2>1. Explore!CanSelect(q, c, ref)
    <3>1. CASE ref \in Explore!OrderRefs(q)
      BY <3>1, AcceptsMeans DEF Explore!OrderUnknown
    <3>2. CASE ref \in Explore!ToSet(Explore!ColumnRefs(q))
      BY <3>2, AcceptsMeans DEF Explore!ToSet, Explore!ColumnRefs
    <3> QED BY <3>1, <3>2
  <2> QED BY <1>2, <1>3, <2>1 DEF Explore!CanSelect
<1>4. ASSUME NEW j \in Explore!Joins(q)
      PROVE  /\ d = q.dataset => j.left \in ToSet(c[d])
             /\ j.dataset = d => j.right \in ToSet(c[d])
  BY <1>2, AcceptsMeans
<1> QED BY <1>1, <1>3, <1>4 DEF Explore!Required
-----------------------------------------------------------------------------
(* The catalog *)

\* The state of requests is a function of them; what is listed has its view.
Shapes ==
  /\ pc \in [Requests -> {"idle", "received", "select", "answered"}]
  /\ DOMAIN ask = Requests /\ DOMAIN audit = Requests /\ DOMAIN answer = Requests
  /\ DOMAIN result = Requests /\ DOMAIN trusted = Requests
  /\ failed \in [Requests -> SUBSET {"catalog", "select"}]
  /\ gone \in [Requests -> SUBSET Names] /\ lost \in [Requests -> SUBSET Names]
  /\ stale \subseteq Names
  /\ views \in [Names -> Sources \cup {Absent}]
  /\ listed \in [Names -> Sources \cup {Absent}]
  /\ \A n \in Names : listed[n] # Absent => views[n] = listed[n]
  /\ \A r \in Requests : pc[r] # "idle" => ask[r] \in Asks

LEMMA PrefixColumns ==
  ASSUME NEW s \in Seq(STRING), NEW t \in Seq(STRING), Cat!IsPrefix(s, t)
  PROVE  ToSet(s) \subseteq ToSet(t)
<1>1. Len(s) <= Len(t) /\ SubSeq(s, 1, Len(s)) = SubSeq(t, 1, Len(s))
  BY DEF Cat!IsPrefix
<1>2. ASSUME NEW i \in DOMAIN s PROVE i \in DOMAIN t /\ s[i] = t[i]
  <2>1. i \in 1 .. Len(s) /\ i \in 1 .. Len(t)
    BY <1>1
  <2>2. SubSeq(s, 1, Len(s))[i] = s[i] /\ SubSeq(t, 1, Len(s))[i] = t[i]
    BY <2>1, <1>1
  <2> QED BY <1>1, <2>1, <2>2
<1> QED BY <1>2 DEF ToSet

\* A step of the catalog keeps the columns of each view it does not drop, and
\* the sources of those it does not unlist.
LEMMA CatalogStep ==
  ASSUME Shapes, Cat!Next
  PROVE  /\ views' \in [Names -> Sources \cup {Absent}]
         /\ listed' \in [Names -> Sources \cup {Absent}]
         /\ \A n \in Names : listed'[n] # Absent => views'[n] = listed'[n]
         /\ \A n \in Names : views[n] # Absent => \/ n \in Dropped
                                                 \/ ToSet(Columns(n)) \subseteq ToSet(Columns(n)')
         /\ \A n \in Names : views[n] # Absent /\ n \notin Dropped => views'[n] # Absent
         /\ \A n \in Names : listed[n] # Absent /\ n \notin Unlisted => listed'[n] # Absent
<1>1. PICK n \in Names : Cat!Delete(n) \/ Cat!Forget(n) \/ \E s \in Sources : Cat!Save(n, s)
  BY DEF Cat!Next
<1>2. \A m \in Names \ {n} : views'[m] = views[m] /\ listed'[m] = listed[m]
  BY <1>1 DEF Cat!Delete, Cat!Forget, Cat!Save, Shapes
<1>3. /\ views' \in [Names -> Sources \cup {Absent}]
      /\ listed' \in [Names -> Sources \cup {Absent}]
  BY <1>1 DEF Cat!Delete, Cat!Forget, Cat!Save, Shapes
<1>4. \/ views'[n] = Absent /\ listed'[n] = Absent
      \/ views'[n] = views[n] /\ listed'[n] = Absent
      \/ /\ views'[n] \in Sources /\ listed'[n] = views'[n]
         /\ views[n] # Absent => Cat!IsPrefix(views[n].columns, views'[n].columns)
  BY <1>1 DEF Cat!Delete, Cat!Forget, Cat!Save, Shapes
<1>5. \A m \in Names : listed'[m] # Absent => views'[m] = listed'[m]
  BY <1>2, <1>4 DEF Shapes
<1>6. ASSUME NEW m \in Names, views[m] # Absent, m \notin Dropped
      PROVE  views'[m] # Absent /\ ToSet(Columns(m)) \subseteq ToSet(Columns(m)')
  <2>1. views'[m] # Absent
    BY <1>6 DEF Dropped
  <2>2. Columns(m) = views[m].columns /\ Columns(m)' = views'[m].columns
    BY <1>6, <2>1, ConstantsAssumption DEF Columns, ConstantsAssumption
  <2>3. views[m].columns \in Seq(STRING) /\ views'[m].columns \in Seq(STRING)
    BY <1>3, <1>6, <2>1, ConstantsAssumption DEF Shapes, ConstantsAssumption
  <2>4. views'[m] = views[m] \/ Cat!IsPrefix(views[m].columns, views'[m].columns)
    BY <1>2, <1>4, <1>6, <2>1
  <2> QED BY <2>1, <2>2, <2>3, <2>4, PrefixColumns
<1>7. \A m \in Names : listed[m] # Absent /\ m \notin Unlisted => listed'[m] # Absent
  BY DEF Unlisted
<1> QED BY <1>3, <1>5, <1>6, <1>7

\* What every other step does to a request.
Steps(r) == \/ \E a \in Asks : Submit(r, a)
            \/ RejectMalformed(r) \/ ReadCatalog(r) \/ CatalogFails(r) \/ CatalogRaises(r)
            \/ Select(r) \/ SelectRefused(r) \/ SelectFails(r) \/ SelectRaises(r)
            \/ Deliver(r) \/ LoseAnswer(r)

LEMMA NextSteps == Next <=> CatalogChanges \/ \E r \in Requests : Steps(r)
BY DEF Next, Steps, Handle, Disturb

\* Answering is a step of one request.
Answered(r) ==
  /\ pc' = [pc EXCEPT ![r] = "answered"]
  /\ DOMAIN answer' = Requests /\ DOMAIN result' = Requests
  /\ \A q \in Requests \ {r} : answer'[q] = answer[q] /\ result'[q] = result[q]

LEMMA Answering ==
  ASSUME Shapes, NEW r \in Requests
  PROVE  /\ \A status, reason, body : Respond(r, status, reason, body) => Answered(r)
         /\ Unhandled(r) => Answered(r)
<1>1. DOMAIN answer = Requests /\ DOMAIN result = Requests
  BY DEF Shapes
<1>2. ASSUME NEW status, NEW reason, NEW body, Respond(r, status, reason, body)
      PROVE Answered(r)
  <2>1. PICK v : answer' = [answer EXCEPT ![r] = v]
    BY <1>2 DEF Respond
  <2>2. pc' = [pc EXCEPT ![r] = "answered"] /\ result' = [result EXCEPT ![r] = body]
    BY <1>2 DEF Respond
  <2> QED BY <1>1, <2>1, <2>2 DEF Answered
<1>3. ASSUME Unhandled(r) PROVE Answered(r)
  <2>1. PICK v : answer' = [answer EXCEPT ![r] = v]
    BY <1>3 DEF Unhandled
  <2>2. pc' = [pc EXCEPT ![r] = "answered"] /\ UNCHANGED result
    BY <1>3 DEF Unhandled
  <2> QED BY <1>1, <2>1, <2>2 DEF Answered
<1> QED BY <1>2, <1>3

\* What one step of a request leaves alone and how far it may get.
Moves(r) ==
  /\ pc[r] # "idle" /\ UNCHANGED <<catalog, ask, trusted, shown, stale, lost>>
  /\ \A q \in Requests \ {r} : /\ pc'[q] = pc[q] /\ audit'[q] = audit[q]
                               /\ answer'[q] = answer[q] /\ result'[q] = result[q]
                               /\ failed'[q] = failed[q] /\ gone'[q] = gone[q]
  /\ pc' \in [Requests -> {"idle", "received", "select", "answered"}]
  /\ DOMAIN audit' = Requests /\ DOMAIN answer' = Requests /\ DOMAIN result' = Requests
  /\ failed' \in [Requests -> SUBSET {"catalog", "select"}]
  /\ gone' \in [Requests -> SUBSET Names]

LEMMA StepsMove ==
  ASSUME Shapes, NEW r \in Requests,
         \/ RejectMalformed(r) \/ ReadCatalog(r) \/ CatalogFails(r) \/ CatalogRaises(r)
         \/ Select(r) \/ SelectRefused(r) \/ SelectFails(r) \/ SelectRaises(r)
  PROVE  Moves(r)
<1>0. ASSUME Answered(r), pc[r] # "idle", UNCHANGED <<catalog, ask, audit, trusted, shown, stale, lost, gone>>,
             UNCHANGED failed \/ Fails(r, "catalog") \/ Fails(r, "select")
      PROVE  Moves(r)
  BY <1>0 DEF Answered, Moves, Fails, Shapes
<1>1. CASE RejectMalformed(r) \/ SelectRefused(r)
  <2>1. Answered(r)
    BY <1>1, Answering DEF RejectMalformed, SelectRefused
  <2>2. UNCHANGED <<catalog, ask, audit, failed, trusted, shown, stale, gone, lost>>
    BY <1>1 DEF RejectMalformed, SelectRefused
  <2>3. pc[r] # "idle"
    BY <1>1 DEF RejectMalformed, SelectRefused
  <2> QED BY <1>0, <2>1, <2>2, <2>3
<1>2. CASE CatalogRaises(r) \/ SelectRaises(r) \/ SelectFails(r)
  <2>1. Answered(r)
    BY <1>2, Answering DEF CatalogRaises, SelectRaises, SelectFails
  <2> QED BY <1>0, <1>2, <2>1 DEF CatalogRaises, SelectRaises, SelectFails
<1>3. CASE Select(r)
  <2>1. PICK found \in Results(ask[r]) : Respond(r, 200, "none", found)
    BY <1>3 DEF Select
  <2>2. Answered(r)
    BY <2>1, Answering
  <2> QED BY <1>3, <2>2 DEF Answered, Select, Log, Moves, Shapes
<1>4. ASSUME NEW c, Decide(r, c), UNCHANGED failed \/ Fails(r, "catalog")
      PROVE  Moves(r)
  <2>1. /\ pc[r] # "idle" /\ UNCHANGED <<catalog, ask, trusted, shown, stale, lost>>
    BY <1>4 DEF Decide
  <2>2. /\ failed' \in [Requests -> SUBSET {"catalog", "select"}]
        /\ \A q \in Requests \ {r} : failed'[q] = failed[q]
    BY <1>4 DEF Fails, Shapes
  <2>3. /\ gone' \in [Requests -> SUBSET Names] /\ DOMAIN audit' = Requests
        /\ \A q \in Requests \ {r} : gone'[q] = gone[q] /\ audit'[q] = audit[q]
    BY <1>4 DEF Decide, Log, Shapes
  <2>4. /\ pc' \in [Requests -> {"idle", "received", "select", "answered"}]
        /\ DOMAIN answer' = Requests /\ DOMAIN result' = Requests
        /\ \A q \in Requests \ {r} : /\ pc'[q] = pc[q] /\ answer'[q] = answer[q]
                                     /\ result'[q] = result[q]
    <3>1. CASE Respond(r, 200, "none", c) \/ Unhandled(r)
                 \/ Respond(r, 400, ReasonOf(ask[r], c), Nothing)
      <4>1. Answered(r)
        BY <3>1, Answering
      <4> QED BY <4>1 DEF Answered, Shapes
    <3>2. CASE pc' = [pc EXCEPT ![r] = "select"] /\ UNCHANGED <<answer, result>>
      BY <3>2 DEF Shapes
    <3> QED BY <1>4, <3>1, <3>2 DEF Decide
  <2> QED BY <2>1, <2>2, <2>3, <2>4 DEF Moves
<1> QED BY <1>1, <1>2, <1>3, <1>4 DEF ReadCatalog, CatalogFails

LEMMA StepsShapes ==
  ASSUME Shapes, NEW r \in Requests, Steps(r)
  PROVE  Shapes' /\ UNCHANGED catalog
<1>1. CASE \E a \in Asks : Submit(r, a)
  BY <1>1 DEF Submit, Shapes, catalog
<1>2. CASE Deliver(r) \/ LoseAnswer(r)
  BY <1>2 DEF Deliver, LoseAnswer, Forget, Shapes, catalog
<1>3. Moves(r) => Shapes' /\ UNCHANGED catalog
  BY DEF Moves, Shapes, catalog
<1> QED BY <1>1, <1>2, <1>3, StepsMove DEF Steps

LEMMA ChangesShapes == Shapes /\ CatalogChanges => Shapes'
<1> SUFFICES ASSUME Shapes, CatalogChanges PROVE Shapes'
  OBVIOUS
<1>1. /\ views' \in [Names -> Sources \cup {Absent}]
      /\ listed' \in [Names -> Sources \cup {Absent}]
      /\ \A n \in Names : listed'[n] # Absent => views'[n] = listed'[n]
  BY CatalogStep DEF CatalogChanges
<1>2. gone' \in [Requests -> SUBSET Names] /\ lost' \in [Requests -> SUBSET Names]
  BY DEF CatalogChanges, Shapes, Unlisted, Dropped
<1>4. stale' \subseteq Names
  BY DEF CatalogChanges, Shapes, Unlisted
<1>3. UNCHANGED request
  BY DEF CatalogChanges
<1> QED BY <1>1, <1>2, <1>3, <1>4 DEF Shapes, request
-----------------------------------------------------------------------------
(* The SQL audit log *)

\* What an answered request left in the log.
AuditRight(r) ==
  /\ ask[r].kind # "sql" => audit[r] = <<>>
  /\ ask[r].kind = "sql" =>
       CASE answer[r].status = 200 -> audit[r] = <<"accepted", "completed">>
         [] answer[r].status = 400 -> audit[r] = <<"rejected">>
         [] answer[r].status = 422 -> audit[r] = <<>>
         [] answer[r].status = 503 -> audit[r] = <<"accepted">>
         [] OTHER -> /\ answer[r].event = "request_failed"
                     /\ audit[r] = <<>> => \/ "catalog" \in failed[r]
                                           \/ Untokenizable(ask[r])
                     /\ audit[r] # <<>> => audit[r] = <<"accepted">> /\ "select" \in failed[r]

LEMMA AuditMatches ==
  AuditMatchesAnswer <=> \A r \in Requests : pc[r] = "answered" => AuditRight(r)
BY DEF AuditMatchesAnswer, AuditRight

AuditOf(r) ==
  /\ pc[r] \in {"idle", "received"} => audit[r] = <<>>
  /\ pc[r] = "select" => ask[r].kind # "datasets" /\ audit[r] = Audited(ask[r], "accepted")
  /\ pc[r] = "answered" => AuditRight(r)

AuditInv == \A r \in Requests : AuditOf(r)

LEMMA OneLine ==
  ASSUME NEW S, NEW x \in S
  PROVE  <<x>> \in Seq(S) /\ <<x>> # <<>> /\ <<>> \o <<x>> = <<x>> /\ <<x>> \o <<>> = <<x>>
<1>1. <<x>> \in Seq(S)
  OBVIOUS
<1>2. <<x>> # <<>>
  OBVIOUS
<1> QED BY <1>1, <1>2, ConcatEmptySeq

LEMMA TwoLines ==
  ASSUME NEW S, NEW x \in S, NEW y \in S
  PROVE  <<x>> \o <<y>> = <<x, y>>
<1>1. <<x>> \in Seq(S) /\ <<y>> \in Seq(S) /\ <<x,y>> \in Seq(S)
  OBVIOUS
<1>2. /\ Len(<<x>>) = 1 /\ Len(<<y>>) = 1 /\ Len(<<x,y>>) = 2 
      /\ <<x>>[1] = x /\ <<y>>[1] = y /\ <<x,y>>[1] = x /\ <<x,y>>[2] = y
  OBVIOUS
<1>3. /\ <<x>> \o <<y>> \in Seq(S) /\ Len(<<x>> \o <<y>>) = 2
      /\ \A i \in 1 .. 2 : (<<x>> \o <<y>>)[i] = <<x, y>>[i]
  BY <1>1, <1>2, ConcatProperties
<1> QED BY <1>1, <1>2, <1>3, SeqEqual

LEMMA Lines ==
  /\ <<>> \o <<>> = <<>>
  /\ \A line : <<line>> # <<>> /\ <<>> \o <<line>> = <<line>> /\ <<line>> \o <<>> = <<line>>
  /\ \A x, y : <<x>> \o <<y>> = <<x, y>>
<1>1. <<>> \o <<>> = <<>>
  BY EmptySeq, ConcatEmptySeq
<1>2. ASSUME NEW line
      PROVE  <<line>> # <<>> /\ <<>> \o <<line>> = <<line>> /\ <<line>> \o <<>> = <<line>>
  <2>1. line \in {line}
    OBVIOUS
  <2> QED BY <2>1, OneLine
<1>3. ASSUME NEW x, NEW y PROVE <<x>> \o <<y>> = <<x, y>>
  <2>1. x \in {x, y} /\ y \in {x, y}
    OBVIOUS
  <2> QED BY <2>1, TwoLines
<1> QED BY <1>1, <1>2, <1>3

\* The status an answer is given with, as long as it is one of the route's.
LEMMA StatusOf ==
  ASSUME Shapes, NEW r \in Requests
  PROVE  /\ \A status, reason, body : Respond(r, status, reason, body) =>
              pc'[r] = "answered" /\ answer'[r].status = status /\ result'[r] = body
         /\ Unhandled(r) => /\ pc'[r] = "answered" /\ answer'[r].status = 500
                            /\ answer'[r].event = "request_failed"
<1>1. DOMAIN answer = Requests /\ DOMAIN pc = Requests /\ DOMAIN result = Requests
  BY DEF Shapes
<1>2. ASSUME NEW status, NEW reason, NEW body, Respond(r, status, reason, body)
      PROVE  pc'[r] = "answered" /\ answer'[r].status = status /\ result'[r] = body
  BY <1>1, <1>2 DEF Respond
<1>3. ASSUME Unhandled(r)
      PROVE  /\ pc'[r] = "answered" /\ answer'[r].status = 500
             /\ answer'[r].event = "request_failed"
  <2>1. answer'[r] = [status |-> 500, reason |-> "none", event |-> "request_failed"]
    BY <1>1, <1>3 DEF Unhandled
  <2>2. pc'[r] = "answered"
    BY <1>1, <1>3 DEF Unhandled
  <2> QED BY <2>1, <2>2
<1> QED BY <1>2, <1>3

LEMMA AuditStep ==
  ASSUME Shapes, AuditInv, NEW r \in Requests, Steps(r)
  PROVE  AuditInv'
<1>1. ASSUME NEW q \in Requests \ {r}, Moves(r) PROVE AuditOf(q)'
  BY <1>1 DEF AuditInv, AuditOf, AuditRight, Untokenizable, Audited, Moves
<1>2. CASE \/ RejectMalformed(r) \/ ReadCatalog(r) \/ CatalogFails(r) \/ CatalogRaises(r)
           \/ Select(r) \/ SelectRefused(r) \/ SelectFails(r) \/ SelectRaises(r)
  <2>1. Moves(r)
    BY <1>2, StepsMove
  <2>2. ask' = ask /\ AuditOf(r) /\ ask[r] = ask'[r]
    BY <2>1 DEF Moves, AuditInv
  <2>3. DOMAIN audit = Requests /\ DOMAIN failed = Requests /\ pc[r] # "idle"
    BY <2>1 DEF Shapes, Moves
  <2>4. \A lines : Log(r, lines) => audit'[r] = audit[r] \o lines
    BY <2>3 DEF Log
  <2>5. \A call : Fails(r, call) => call \in failed'[r]
    BY <2>3 DEF Fails
  <2>6. ASSUME RejectMalformed(r) PROVE AuditOf(r)'
    <3>1. /\ pc'[r] = "answered" /\ answer'[r].status = 422 /\ audit'[r] = <<>>
      BY <2>2, <2>6, StatusOf DEF RejectMalformed, AuditOf
    <3> QED BY <3>1 DEF AuditOf, AuditRight
  <2>7. ASSUME CatalogRaises(r) PROVE AuditOf(r)'
    <3>1. /\ pc'[r] = "answered" /\ answer'[r].status = 500 /\ audit'[r] = <<>>
          /\ answer'[r].event = "request_failed" /\ "catalog" \in failed'[r]
      BY <2>2, <2>5, <2>7, StatusOf DEF CatalogRaises, AuditOf
    <3> QED BY <3>1 DEF AuditOf, AuditRight
  <2>8. ASSUME NEW c, Decide(r, c) PROVE AuditOf(r)'
    <3>1. audit[r] = <<>>
      BY <2>2, <2>8 DEF Decide, AuditOf
    <3>2. CASE /\ ask[r].kind = "datasets" /\ Respond(r, 200, "none", c) /\ UNCHANGED audit
      <4>1. pc'[r] = "answered" /\ audit'[r] = <<>> /\ ask'[r].kind # "sql"
        BY <2>2, <3>1, <3>2, StatusOf
      <4> QED BY <4>1 DEF AuditOf, AuditRight
    <3>3. CASE Untokenizable(ask[r]) /\ Unhandled(r) /\ UNCHANGED audit
      <4>1. /\ pc'[r] = "answered" /\ audit'[r] = <<>> /\ answer'[r].status = 500
            /\ answer'[r].event = "request_failed" /\ Untokenizable(ask'[r])
        BY <2>2, <3>1, <3>3, StatusOf
      <4> QED BY <4>1 DEF AuditOf, AuditRight, Untokenizable
    <3>4. CASE /\ ask[r].kind # "datasets" /\ Log(r, Audited(ask[r], "accepted"))
               /\ pc' = [pc EXCEPT ![r] = "select"]
      <4>1. pc'[r] = "select"
        BY <3>4 DEF Shapes
      <4>2. audit'[r] = <<>> \o Audited(ask[r], "accepted")
        BY <2>4, <3>1, <3>4
      <4>3. audit'[r] = Audited(ask'[r], "accepted")
        BY <2>2, <4>2, Lines DEF Audited
      <4> QED BY <2>2, <3>4, <4>1, <4>3 DEF AuditOf, Audited
    <3>5. CASE /\ Log(r, Audited(ask[r], "rejected"))
               /\ Respond(r, 400, ReasonOf(ask[r], c), Nothing)
      <4>1. pc'[r] = "answered" /\ answer'[r].status = 400
        BY <3>5, StatusOf
      <4>2. audit'[r] = <<>> \o Audited(ask[r], "rejected")
        BY <2>4, <3>1, <3>5
      <4>3. audit'[r] = Audited(ask'[r], "rejected")
        BY <2>2, <4>2, Lines DEF Audited
      <4> QED BY <4>1, <4>3 DEF AuditOf, AuditRight, Audited
    <3> QED BY <2>8, <3>2, <3>3, <3>4, <3>5 DEF Decide
  <2>9. ASSUME Select(r) PROVE AuditOf(r)'
    <3>1. PICK found \in Results(ask[r]) : Respond(r, 200, "none", found)
      BY <2>9 DEF Select
    <3>2. pc'[r] = "answered" /\ answer'[r].status = 200
      BY <3>1, StatusOf
    <3>3. audit'[r] = Audited(ask[r], "accepted") \o Audited(ask[r], "completed")
      BY <2>2, <2>4, <2>9 DEF Select, AuditOf
    <3>4. /\ ask[r].kind = "sql" => audit'[r] = <<"accepted", "completed">>
          /\ ask[r].kind # "sql" => audit'[r] = <<>>
      BY <3>3, Lines DEF Audited
    <3> QED BY <2>2, <3>2, <3>4 DEF AuditOf, AuditRight
  <2>10. ASSUME SelectRefused(r) \/ SelectFails(r) PROVE AuditOf(r)'
    <3>1. /\ pc'[r] = "answered" /\ answer'[r].status = 503
          /\ audit'[r] = Audited(ask[r], "accepted")
      BY <2>2, <2>10, StatusOf DEF SelectRefused, SelectFails, AuditOf
    <3> QED BY <2>2, <3>1 DEF AuditOf, AuditRight, Audited
  <2>11. ASSUME SelectRaises(r) PROVE AuditOf(r)'
    <3>1. /\ pc'[r] = "answered" /\ answer'[r].status = 500
          /\ answer'[r].event = "request_failed" /\ "select" \in failed'[r]
          /\ audit'[r] = Audited(ask[r], "accepted")
      BY <2>2, <2>5, <2>11, StatusOf DEF SelectRaises, AuditOf
    <3>2. ask[r].kind = "sql" => audit'[r] # <<>>
      BY <3>1 DEF Audited
    <3> QED BY <2>2, <3>1, <3>2 DEF AuditOf, AuditRight, Audited
  <2>12. AuditOf(r)'
    BY <1>2, <2>6, <2>7, <2>8, <2>9, <2>10, <2>11 DEF ReadCatalog, CatalogFails
  <2> QED BY <1>1, <2>1, <2>12 DEF AuditInv
<1>3. CASE \E a \in Asks : Submit(r, a)
  <2>1. \A q \in Requests : /\ q # r => pc'[q] = pc[q] /\ ask'[q] = ask[q]
                            /\ audit'[q] = audit[q] /\ answer'[q] = answer[q]
                            /\ failed'[q] = failed[q]
    BY <1>3 DEF Submit, Shapes
  <2>2. pc[r] = "idle" /\ pc'[r] = "received"
    BY <1>3 DEF Submit, Shapes
  <2> QED BY <2>1, <2>2 DEF AuditInv, AuditOf, AuditRight, Untokenizable, Audited
<1>4. CASE Deliver(r) \/ LoseAnswer(r)
  <2>1. \A q \in Requests : q # r => /\ pc'[q] = pc[q] /\ ask'[q] = ask[q]
                                     /\ audit'[q] = audit[q] /\ answer'[q] = answer[q]
                                     /\ failed'[q] = failed[q]
    BY <1>4 DEF Deliver, LoseAnswer, Forget, Shapes
  <2>2. pc'[r] = "idle" /\ audit'[r] = <<>>
    BY <1>4 DEF Deliver, LoseAnswer, Forget, Shapes
  <2> QED BY <2>1, <2>2 DEF AuditInv, AuditOf, AuditRight, Untokenizable, Audited
<1> QED BY <1>2, <1>3, <1>4 DEF Steps

LEMMA InitShapes == Init => Shapes /\ AuditInv
BY ConstantsAssumption DEF Init, Shapes, AuditInv, AuditOf

LEMMA SameShapes == Shapes /\ UNCHANGED vars => Shapes'
BY DEF Shapes, vars, catalog, request

\* Every SQL Lab answer is told apart by the lines it left in the audit log.
THEOREM AuditKept == Spec => []AuditMatchesAnswer
<1>1. Init => Shapes /\ AuditInv
  BY InitShapes
<1>2. Shapes /\ AuditInv /\ [Next]_vars => (Shapes /\ AuditInv)'
  <2> SUFFICES ASSUME Shapes, AuditInv, [Next]_vars PROVE (Shapes /\ AuditInv)'
    OBVIOUS
  <2>1. ASSUME NEW r \in Requests, Steps(r) PROVE (Shapes /\ AuditInv)'
    BY <2>1, StepsShapes, AuditStep
  <2>2. ASSUME UNCHANGED request PROVE AuditInv'
    BY <2>2 DEF request, AuditInv, AuditOf, AuditRight, Untokenizable, Audited
  <2>3. CASE CatalogChanges
    BY <2>2, <2>3, ChangesShapes DEF CatalogChanges
  <2>4. CASE UNCHANGED vars
    BY <2>2, <2>4, SameShapes DEF vars
  <2> QED BY <2>1, <2>3, <2>4, NextSteps
<1>3. AuditInv => AuditMatchesAnswer
  BY AuditMatches DEF AuditInv, AuditOf
<1> QED BY <1>1, <1>2, <1>3, PTL DEF Spec
-----------------------------------------------------------------------------
(* Why a query is answered "unavailable" *)

LEMMA PolicyMeans ==
  ASSUME NEW s, NEW allowed
  PROVE  Policy!Accepts(s, allowed) <=>
           /\ \A i \in 1 .. 12 : ~Policy!Checks(s, {})[i][2]
           /\ Policy!Relations(s) \subseteq allowed
<1>1. DOMAIN Policy!Checks(s, allowed) = 1 .. 13
  BY DEF Policy!Checks
<1>2. Policy!Accepts(s, allowed) <=> \A i \in 1 .. 13 : ~Policy!Checks(s, allowed)[i][2]
  BY <1>1 DEF Policy!Accepts
<1>3. \A i \in 1 .. 12 : Policy!Checks(s, allowed)[i] = Policy!Checks(s, {})[i]
  <2>1. /\ Policy!Checks(s, allowed)[1] = Policy!Checks(s, {})[1]
        /\ Policy!Checks(s, allowed)[2] = Policy!Checks(s, {})[2]
        /\ Policy!Checks(s, allowed)[3] = Policy!Checks(s, {})[3]
        /\ Policy!Checks(s, allowed)[4] = Policy!Checks(s, {})[4]
        /\ Policy!Checks(s, allowed)[5] = Policy!Checks(s, {})[5]
        /\ Policy!Checks(s, allowed)[6] = Policy!Checks(s, {})[6]
        /\ Policy!Checks(s, allowed)[7] = Policy!Checks(s, {})[7]
        /\ Policy!Checks(s, allowed)[8] = Policy!Checks(s, {})[8]
        /\ Policy!Checks(s, allowed)[9] = Policy!Checks(s, {})[9]
        /\ Policy!Checks(s, allowed)[10] = Policy!Checks(s, {})[10]
        /\ Policy!Checks(s, allowed)[11] = Policy!Checks(s, {})[11]
        /\ Policy!Checks(s, allowed)[12] = Policy!Checks(s, {})[12]
    BY DEF Policy!Checks
  <2> QED BY <2>1, SMT
<1>4. Policy!Checks(s, allowed)[13][2] <=> ~(Policy!Relations(s) \subseteq allowed)
  BY DEF Policy!Checks
<1>5. \A i \in 1 .. 13 : i \in 1 .. 12 \/ i = 13
  BY SMT
<1>6. \A i \in 1 .. 12 : i \in 1 .. 13
  BY SMT
<1>7. 13 \in 1 .. 13
  BY SMT
<1> QED BY <1>2, <1>3, <1>4, <1>5, <1>6, <1>7

\* While a query waits for its SELECT, the views it reads are there with the
\* columns it reads of them, unless they were dropped since.
Finds(r) ==
  pc[r] = "select" =>
    /\ Needed(ask[r]) \subseteq Names \cup Bases
    /\ \A d \in Needed(ask[r]) : d \in Names => d \in lost[r] \/ views[d] # Absent
    /\ ask[r].kind = "explore" =>
         \A d \in Needed(ask[r]) :
           d \in lost[r] \/ Explore!Required(ask[r], d) \subseteq ToSet(Columns(d))

CauseInv == Shapes /\ \A r \in Requests : Finds(r)

\* The catalogs a request may be decided on.
LEMMA CatalogRead ==
  ASSUME Shapes, NEW c, c \in {Datasets, Generated}
  PROVE  /\ \A d \in DOMAIN c : c[d] = Columns(d) /\ (d \in Names => views[d] # Absent)
         /\ DOMAIN c \subseteq Names \cup Bases
<1>1. Names \cap Builtins = {} /\ Builtins \subseteq Bases
  BY ConstantsAssumption DEF ConstantsAssumption, Bases
<1>2. CASE c = Datasets
  BY <1>1, <1>2 DEF Datasets, Shapes
<1>3. CASE c = Generated
  BY <1>1, <1>3 DEF Generated, Columns
<1> QED BY <1>2, <1>3

LEMMA DecidedFinds ==
  ASSUME Shapes, NEW a \in Asks, a.kind # "datasets",
         NEW c, c \in {Datasets, Generated}, Accepted(a, c)
  PROVE  /\ Needed(a) \subseteq Names \cup Bases
         /\ \A d \in Needed(a) : d \in Names => views[d] # Absent
         /\ a.kind = "explore" =>
              \A d \in Needed(a) : Explore!Required(a, d) \subseteq ToSet(Columns(d))
<1>1. CASE a.kind = "explore"
  <2>1. Explore!Accepts(a, c) /\ Needed(a) = Explore!Selectable(a)
    BY <1>1 DEF Accepted, Needed
  <2>2. \A d \in Needed(a) : d \in DOMAIN c /\ Explore!Required(a, d) \subseteq ToSet(c[d])
    BY <2>1, AcceptedFinds
  <2> QED BY <2>2, CatalogRead
<1>2. CASE a.kind # "explore"
  <2>1. /\ Policy!Accepts(a.statement, Allowed(a, c))
        /\ Needed(a) = Policy!Relations(a.statement)
    BY <1>2 DEF Accepted, Needed
  <2>2. Needed(a) \subseteq DOMAIN c \cup RawTables
    BY <2>1, PolicyMeans DEF Allowed
  <2>3. RawTables \cap Names = {} /\ RawTables \subseteq Bases
    BY ConstantsAssumption DEF ConstantsAssumption, Bases
  <2> QED BY <1>2, <2>2, <2>3, CatalogRead
<1> QED BY <1>1, <1>2

LEMMA FindsAgain ==
  ASSUME NEW r, UNCHANGED <<catalog, ask>>, pc'[r] = pc[r], lost'[r] = lost[r], Finds(r)
  PROVE  Finds(r)'
<1>1. ask'[r] = ask[r] /\ views' = views
  BY DEF catalog
<1>2. Needed(ask[r])' = Needed(ask[r])
  BY <1>1
<1>3. \A d : Columns(d)' = Columns(d)
  BY <1>1 DEF Columns
<1>4. \A d : Explore!Required(ask[r], d)' = Explore!Required(ask[r], d)
  BY <1>1
<1> QED BY <1>1, <1>2, <1>3, <1>4 DEF Finds

\* Getting to the SELECT is the accepted branch of a decision.
LEMMA ToSelect ==
  ASSUME Shapes, NEW r \in Requests, Moves(r), pc'[r] = "select",
         \/ RejectMalformed(r) \/ ReadCatalog(r) \/ CatalogFails(r) \/ CatalogRaises(r)
         \/ Select(r) \/ SelectRefused(r) \/ SelectFails(r) \/ SelectRaises(r)
  PROVE  /\ ask[r] \in Asks /\ ask[r].kind # "datasets"
         /\ \E c \in {Datasets, Generated} : Accepted(ask[r], c)
<1>1. ask[r] \in Asks
  BY DEF Shapes, Moves
<1>2. /\ \A status, reason, body : ~Respond(r, status, reason, body)
      /\ ~Unhandled(r)
  BY StatusOf
<1>3. ASSUME NEW c \in {Datasets, Generated}, Decide(r, c)
      PROVE  ask[r].kind # "datasets" /\ Accepted(ask[r], c)
  BY <1>2, <1>3 DEF Decide
<1> QED BY <1>1, <1>2, <1>3 DEF RejectMalformed, ReadCatalog, CatalogFails, CatalogRaises,
                                Select, SelectRefused, SelectFails, SelectRaises

LEMMA CauseStep ==
  ASSUME CauseInv, NEW r \in Requests, Steps(r)
  PROVE  CauseInv'
<1>1. Shapes /\ Shapes' /\ UNCHANGED catalog
  BY StepsShapes DEF CauseInv
<1>2. CASE \E a \in Asks : Submit(r, a)
  <2>1. PICK a \in Asks : Submit(r, a)
    BY <1>2
  <2>2. pc'[r] = "received" /\ \A q \in Requests \ {r} : pc'[q] = pc[q] /\ ask'[q] = ask[q]
    BY <1>1, <2>1 DEF Submit, Shapes
  <2>3. lost' = lost /\ views' = views
    BY <2>1 DEF Submit, catalog
  <2> QED BY <1>1, <2>2, <2>3 DEF CauseInv, Finds, Columns
<1>3. CASE Deliver(r) \/ LoseAnswer(r)
  <2>1. Forget(r)
    BY <1>3 DEF Deliver, LoseAnswer
  <2>2. pc'[r] = "idle" /\ \A q \in Requests \ {r} : /\ pc'[q] = pc[q] /\ ask'[q] = ask[q]
                                                     /\ lost'[q] = lost[q]
    BY <1>1, <2>1 DEF Forget, Shapes
  <2>3. views' = views
    BY <1>1 DEF catalog
  <2> QED BY <1>1, <2>2, <2>3 DEF CauseInv, Finds, Columns
<1>4. CASE \/ RejectMalformed(r) \/ ReadCatalog(r) \/ CatalogFails(r) \/ CatalogRaises(r)
           \/ Select(r) \/ SelectRefused(r) \/ SelectFails(r) \/ SelectRaises(r)
  <2>1. Moves(r)
    BY <1>1, <1>4, StepsMove
  <2>2. UNCHANGED <<catalog, ask, lost>>
    BY <2>1 DEF Moves
  <2>3. ASSUME NEW q \in Requests \ {r} PROVE Finds(q)'
    <3>1. pc'[q] = pc[q] /\ lost'[q] = lost[q] /\ Finds(q)
      BY <2>1, <2>2 DEF Moves, CauseInv
    <3> QED BY <2>2, <3>1, FindsAgain
  <2>4. Finds(r)'
    <3> SUFFICES ASSUME pc'[r] = "select" PROVE Finds(r)'
      BY DEF Finds
    <3>1. /\ ask[r] \in Asks /\ ask[r].kind # "datasets"
          /\ \E c \in {Datasets, Generated} : Accepted(ask[r], c)
      BY <1>1, <1>4, <2>1, ToSelect
    <3>2. /\ Needed(ask[r]) \subseteq Names \cup Bases
          /\ \A d \in Needed(ask[r]) : d \in Names => views[d] # Absent
          /\ ask[r].kind = "explore" =>
               \A d \in Needed(ask[r]) : Explore!Required(ask[r], d) \subseteq ToSet(Columns(d))
      BY <1>1, <3>1, DecidedFinds
    <3>3. ask'[r] = ask[r] /\ views' = views
      BY <2>2 DEF catalog
    <3>4. Needed(ask[r])' = Needed(ask[r])
      BY <3>3
    <3>5. \A d : /\ Columns(d)' = Columns(d)
                 /\ Explore!Required(ask[r], d)' = Explore!Required(ask[r], d)
      BY <3>3 DEF Columns
    <3> QED BY <3>2, <3>3, <3>4, <3>5 DEF Finds
  <2> QED BY <1>1, <2>3, <2>4 DEF CauseInv
<1> QED BY <1>2, <1>3, <1>4 DEF Steps

LEMMA CauseChange == CauseInv /\ CatalogChanges => CauseInv'
<1> SUFFICES ASSUME CauseInv, CatalogChanges PROVE CauseInv'
  OBVIOUS
<1>1. Shapes /\ Shapes' /\ Cat!Next /\ UNCHANGED <<pc, ask>>
  BY ChangesShapes DEF CauseInv, CatalogChanges, request
<1>2. ASSUME NEW r \in Requests, pc'[r] = "select" PROVE Finds(r)'
  <2>1. pc[r] = "select" /\ ask'[r] = ask[r] /\ lost'[r] = lost[r] \cup Dropped
    BY <1>1, <1>2 DEF CatalogChanges
  <2>2. Finds(r)
    BY DEF CauseInv
  <2>3. \A n \in Names : views[n] # Absent /\ n \notin Dropped =>
          views'[n] # Absent /\ ToSet(Columns(n)) \subseteq ToSet(Columns(n)')
    BY <1>1, CatalogStep
  <2>4. \A d \in Needed(ask[r]) : d \in Names => d \in lost'[r] \/ views'[d] # Absent
    BY <2>1, <2>2, <2>3 DEF Finds
  <2>5. \A d \in Bases : Columns(d)' = Columns(d)
    BY DEF Columns
  <2>6. /\ Needed(ask[r])' = Needed(ask[r])
        /\ \A d : Explore!Required(ask[r], d)' = Explore!Required(ask[r], d)
    BY <2>1
  <2>7. ASSUME ask[r].kind = "explore", NEW d \in Needed(ask[r]), d \notin lost'[r]
        PROVE  Explore!Required(ask[r], d) \subseteq ToSet(Columns(d)')
    <3>1. d \in Names \cup Bases /\ Explore!Required(ask[r], d) \subseteq ToSet(Columns(d))
      BY <2>1, <2>2, <2>7 DEF Finds
    <3>2. CASE d \in Bases
      BY <2>5, <3>1, <3>2
    <3>3. CASE d \in Names
      <4>1. views[d] # Absent /\ d \notin Dropped
        BY <2>1, <2>2, <2>7, <3>3 DEF Finds
      <4> QED BY <2>3, <3>1, <3>3, <4>1
    <3> QED BY <3>1, <3>2, <3>3
  <2> QED BY <2>1, <2>2, <2>4, <2>6, <2>7 DEF Finds
<1> QED BY <1>1, <1>2 DEF CauseInv, Finds

\* A query ends as "unavailable" only where its SELECT is refused or fails.
LEMMA CauseFound ==
  ASSUME CauseInv, NEW r \in Requests, NEW q \in Requests, Steps(q),
         pc[r] = "select", answer'[r] # answer[r], answer'[r].status = 503
  PROVE  \/ "select" \in failed'[r]
         \/ Needed(ask[r]) \cap lost[r] # {}
         \/ \E d \in Needed(ask[r]) \cap Names : Unexpandable(d)
         \/ ~JoinsCompare(ask[r]) \/ MayRaise(ask[r])
         \/ ask[r].kind # "explore" /\ ~HasColumns(ask[r])
<1>1. Shapes /\ Finds(r)
  BY DEF CauseInv
<1>2. CASE (\E a \in Asks : Submit(q, a)) \/ Deliver(q) \/ LoseAnswer(q)
  <2>1. pc[q] # "select"
    BY <1>2 DEF Submit, Deliver, LoseAnswer, Forget
  <2>2. \A x \in Requests \ {q} : answer'[x] = answer[x]
    BY <1>1, <1>2 DEF Submit, Deliver, LoseAnswer, Forget, Shapes
  <2> QED BY <2>1, <2>2
<1>3. CASE \/ RejectMalformed(q) \/ ReadCatalog(q) \/ CatalogFails(q) \/ CatalogRaises(q)
           \/ Select(q) \/ SelectRefused(q) \/ SelectFails(q) \/ SelectRaises(q)
  <2>1. q = r
    BY <1>1, <1>3, StepsMove DEF Moves
  <2>2. CASE RejectMalformed(q) \/ ReadCatalog(q) \/ CatalogFails(q) \/ CatalogRaises(q)
    BY <2>1, <2>2 DEF RejectMalformed, ReadCatalog, CatalogFails, CatalogRaises, Decide
  <2>3. CASE Select(q)
    <3>1. PICK found \in Results(ask[q]) : Respond(q, 200, "none", found)
      BY <2>3 DEF Select
    <3> QED BY <1>1, <2>1, <3>1, StatusOf
  <2>4. CASE SelectRaises(q)
    BY <1>1, <2>1, <2>4, StatusOf DEF SelectRaises
  <2>5. CASE SelectFails(q)
    BY <1>1, <2>1, <2>5 DEF SelectFails, Fails, Shapes
  <2>6. CASE SelectRefused(q)
    <3>1. ~Runs(ask[r]) \/ MayRaise(ask[r])
      BY <2>1, <2>6 DEF SelectRefused
    <3>2. ASSUME NEW d \in Needed(ask[r]), ~Expandable(d)
          PROVE  \/ Needed(ask[r]) \cap lost[r] # {}
                 \/ \E e \in Needed(ask[r]) \cap Names : Unexpandable(e)
      BY <1>1, <3>2 DEF Expandable, Finds
    <3>3. ASSUME ask[r].kind = "explore", ~HasColumns(ask[r])
          PROVE  Needed(ask[r]) \cap lost[r] # {}
      BY <1>1, <3>3 DEF HasColumns, Finds
    <3> QED BY <3>1, <3>2, <3>3 DEF Runs
  <2> QED BY <1>3, <2>2, <2>3, <2>4, <2>5, <2>6
<1> QED BY <1>2, <1>3 DEF Steps

\* A Chart Builder query that passed validation is answered "unavailable" only if
\* the database failed it, its join does not compare, or a view it names was dropped
\* under it or leads into a circle of views or into one whose expressions raise; SQL
\* text may besides name a column its relations lack, or raise itself.
THEOREM CauseOfUnavailable == Spec => UnavailableHasCause
<1> DEFINE Cause(r) == pc[r] = "select" /\ answer'[r] # answer[r] /\ answer'[r].status = 503 =>
                         \/ "select" \in failed'[r]
                         \/ Needed(ask[r]) \cap lost[r] # {}
                         \/ \E d \in Needed(ask[r]) \cap Names : Unexpandable(d)
                         \/ ~JoinsCompare(ask[r]) \/ MayRaise(ask[r])
                         \/ ask[r].kind # "explore" /\ ~HasColumns(ask[r])
<1>1. Init => CauseInv
  <2> SUFFICES ASSUME Init PROVE CauseInv
    OBVIOUS
  <2>1. Shapes
    BY InitShapes
  <2>2. \A r \in Requests : pc[r] = "idle"
    BY DEF Init
  <2> QED BY <2>1, <2>2 DEF CauseInv, Finds
<1>2. CauseInv /\ [Next]_vars => CauseInv'
  <2> SUFFICES ASSUME CauseInv, [Next]_vars PROVE CauseInv'
    OBVIOUS
  <2>1. CASE \E r \in Requests : Steps(r)
    BY <2>1, CauseStep
  <2>2. CASE CatalogChanges
    BY <2>2, CauseChange
  <2>3. CASE UNCHANGED vars
    <3>1. \A r \in Requests : Finds(r)'
      BY <2>3, FindsAgain DEF vars, request, CauseInv
    <3> QED BY <2>3, <3>1, SameShapes DEF CauseInv
  <2> QED BY <2>1, <2>2, <2>3, NextSteps
<1>3. CauseInv /\ [Next]_vars => [\A r \in Requests : Cause(r)]_vars
  <2> SUFFICES ASSUME CauseInv, Next, NEW r \in Requests PROVE Cause(r)
    OBVIOUS
  <2>1. CASE CatalogChanges
    BY <2>1 DEF CatalogChanges, request
  <2>2. CASE \E q \in Requests : Steps(q)
    BY <2>2, CauseFound
  <2> QED BY <2>1, <2>2, NextSteps
<1> QED BY <1>1, <1>2, <1>3, PTL DEF Spec, UnavailableHasCause
-----------------------------------------------------------------------------
(* Why a query over the datasets shown is rejected *)

\* A catalog c is sound but for the names in G: what it says of a dataset that is
\* not in G holds of the views v and the listed view tables l.
Sound(v, l, c, G) ==
  \A d \in DOMAIN c :
    \/ d \in Builtins /\ c[d] = BaseColumns[d]
    \/ /\ d \in Names
       /\ \/ d \in G
          \/ /\ l[d] # Absent /\ v[d] # Absent
             /\ ToSet(c[d]) \subseteq ToSet(v[d].columns)

LEMMA ReadSound ==
  ASSUME Shapes, NEW c, c \in {Datasets, Generated}, NEW G
  PROVE  Sound(views, listed, c, G)
<1>1. Names \cap Bases = {} /\ Builtins \subseteq Bases
  BY ConstantsAssumption DEF ConstantsAssumption, Bases
<1>2. CASE c = Datasets
  <2> SUFFICES ASSUME NEW d \in DOMAIN c, d \notin Builtins
               PROVE  /\ d \in Names /\ listed[d] # Absent /\ views[d] # Absent
                      /\ c[d] = views[d].columns
    BY <1>1, <1>2 DEF Sound, Datasets, Columns
  <2>1. d \in Names /\ listed[d] # Absent /\ c[d] = Columns(d)
    BY <1>2 DEF Datasets
  <2> QED BY <1>1, <2>1 DEF Columns, Shapes
<1>3. CASE c = Generated
  BY <1>3 DEF Generated, Sound
<1> QED BY <1>2, <1>3

\* A sound catalog stays so but for what is unlisted.
LEMMA SoundKept ==
  ASSUME Shapes, Cat!Next
  PROVE  \A c, G, H : /\ Sound(views, listed, c, G) /\ G \subseteq H
                      /\ Unlisted \cap DOMAIN c \subseteq H
                      => Sound(views', listed', c, H)
<1> SUFFICES ASSUME NEW c, NEW G, NEW H, Sound(views, listed, c, G), G \subseteq H,
                    Unlisted \cap DOMAIN c \subseteq H,
                    NEW d \in DOMAIN c, d \in Names, d \notin H,
                    listed[d] # Absent, views[d] # Absent,
                    ToSet(c[d]) \subseteq ToSet(views[d].columns)
             PROVE  /\ listed'[d] # Absent /\ views'[d] # Absent
                    /\ ToSet(c[d]) \subseteq ToSet(views'[d].columns)
  BY DEF Sound
<1>1. listed'[d] # Absent
  BY DEF Unlisted
<1>2. views'[d] # Absent
  BY <1>1, CatalogStep DEF Shapes
<1>3. d \notin Dropped
  BY <1>2 DEF Dropped
<1>4. ToSet(Columns(d)) \subseteq ToSet(Columns(d)')
  BY <1>3, CatalogStep
<1>5. Columns(d) = views[d].columns /\ Columns(d)' = views'[d].columns
  BY <1>2, ConstantsAssumption DEF Columns, ConstantsAssumption
<1> QED BY <1>1, <1>2, <1>4, <1>5

\* What a catalog once shown to a client offers is accepted by the validation against
\* the present one, unless it reads what was unlisted since.
THEOREM OfferedAccepted ==
  ASSUME Shapes, NEW a \in Asks, a.kind # "datasets", ~Malformed(a),
         NEW c, NEW G, Sound(views, listed, c, G), Offered(a, c), Needed(a) \cap G = {}
  PROVE  Accepted(a, Datasets)
<1>1. ASSUME NEW d \in DOMAIN c, d \in Needed(a)
      PROVE  d \in DOMAIN Datasets /\ ToSet(c[d]) \subseteq ToSet(Datasets[d])
  <2>1. CASE d \in Builtins /\ c[d] = BaseColumns[d]
    BY <2>1 DEF Datasets, Columns, Bases
  <2>2. CASE /\ d \in Names /\ listed[d] # Absent /\ views[d] # Absent
             /\ ToSet(c[d]) \subseteq ToSet(views[d].columns)
    BY <2>2, ConstantsAssumption DEF Datasets, Columns, ConstantsAssumption
  <2> QED BY <1>1, <2>1, <2>2 DEF Sound
<1>2. CASE a.kind = "explore"
  <2> DEFINE scope == {a.dataset} \cup {j.dataset : j \in ToSet(a.joins)}
             offer == UNION {{d} \X ToSet(c[d]) : d \in scope}
  <2>1. /\ scope \subseteq DOMAIN c
        /\ Len(a.joins) \in 0 .. 1
        /\ \A j \in ToSet(a.joins) : /\ j.dataset # a.dataset
                                     /\ <<a.dataset, j.left>> \in offer
                                     /\ <<j.dataset, j.right>> \in offer
        /\ \A s \in ToSet(a.columns) \cup a.order : Resolved(a, s) \in offer
        /\ \A i, j \in DOMAIN a.columns :
             Resolved(a, a.columns[i]) = Resolved(a, a.columns[j]) => i = j
    BY <1>2 DEF Offered
  <2>2. scope = Explore!Selectable(a) /\ scope = Needed(a)
    BY <1>2 DEF Explore!Selectable, Explore!Joins, Explore!ToSet, ToSet, Needed
  <2>3. \A x, y : <<x, y>> \in offer => x \in scope /\ y \in ToSet(c[x])
    OBVIOUS
  <2> HIDE DEF scope, offer
  <2>4. \A d \in scope : /\ d \in DOMAIN Datasets
                         /\ ToSet(c[d]) \subseteq Explore!ColumnNames(Datasets, d)
    BY <1>1, <2>1, <2>2 DEF Explore!ColumnNames, Explore!ToSet, ToSet
  <2>5. ASSUME NEW s \in ToSet(a.columns) \cup a.order
        PROVE  Explore!CanSelect(a, Datasets, Explore!SelectorRef(a.dataset, s))
    <3>1. /\ Explore!SelectorRef(a.dataset, s).dataset = Resolved(a, s)[1]
          /\ Explore!SelectorRef(a.dataset, s).column = Resolved(a, s)[2]
          /\ Resolved(a, s) = <<Resolved(a, s)[1], Resolved(a, s)[2]>>
      BY DEF Explore!SelectorRef, Resolved
    <3>2. Resolved(a, s)[1] \in scope /\ Resolved(a, s)[2] \in ToSet(c[Resolved(a, s)[1]])
      BY <2>1, <2>3, <3>1
    <3> QED BY <2>2, <2>4, <3>1, <3>2 DEF Explore!CanSelect
  <2>6. \A i \in DOMAIN a.columns : Explore!CanSelect(a, Datasets, Explore!ColumnRefs(a)[i])
    BY <2>5 DEF Explore!ColumnRefs, ToSet
  <2>7. ~Explore!OrderUnknown(a, Datasets)
    BY <2>5 DEF Explore!OrderUnknown, Explore!OrderRefs
  <2>8. \A i, j \in DOMAIN a.columns :
          Explore!ColumnRefs(a)[i] = Explore!ColumnRefs(a)[j] => i = j
    <3> SUFFICES ASSUME NEW i \in DOMAIN a.columns, NEW j \in DOMAIN a.columns,
                        Explore!ColumnRefs(a)[i] = Explore!ColumnRefs(a)[j]
                 PROVE  Resolved(a, a.columns[i]) = Resolved(a, a.columns[j])
      BY <2>1
    <3>1. Explore!SelectorRef(a.dataset, a.columns[i]) =
            Explore!SelectorRef(a.dataset, a.columns[j])
      BY DEF Explore!ColumnRefs
    <3>2. \A s : Resolved(a, s) = <<Explore!SelectorRef(a.dataset, s).dataset,
                                    Explore!SelectorRef(a.dataset, s).column>>
      BY DEF Explore!SelectorRef, Resolved
    <3> QED BY <3>1, <3>2
  <2>9. \A j \in Explore!Joins(a) :
          /\ j.dataset \in DOMAIN Datasets /\ j.dataset # a.dataset
          /\ j.left \in Explore!ColumnNames(Datasets, a.dataset)
          /\ j.right \in Explore!ColumnNames(Datasets, j.dataset)
    BY <2>1, <2>3, <2>4 DEF Explore!Joins, Explore!ToSet, ToSet
  <2>10. a.dataset \in DOMAIN Datasets /\ ~(Len(a.joins) > Explore!MaxJoins)
    <3>1. a.dataset \in scope
      BY <2>2 DEF Explore!Selectable
    <3>2. \A n \in 0 .. 1 : ~(n > 1)
      OBVIOUS
    <3> QED BY <2>1, <2>4, <3>1, <3>2 DEF Explore!MaxJoins
  <2>11. a.columns # <<>>
    BY <1>2 DEF Malformed
  <2>12. Explore!Accepts(a, Datasets)
    BY <2>6, <2>7, <2>8, <2>9, <2>10, <2>11, AcceptsMeans DEF Explore!FirstUnselectable
  <2> QED BY <1>2, <2>12 DEF Accepted
<1>3. CASE a.kind # "explore"
  <2>1. ~Untokenizable(a) /\ Policy!Accepts(a.statement, Allowed(a, c))
    BY <1>3 DEF Offered, Accepted
  <2>2. Needed(a) = Policy!Relations(a.statement)
    BY <1>3 DEF Needed
  <2>3. Policy!Relations(a.statement) \subseteq Allowed(a, Datasets)
    BY <1>1, <2>1, <2>2, PolicyMeans DEF Allowed
  <2>4. Policy!Accepts(a.statement, Allowed(a, Datasets))
    BY <2>1, <2>3, PolicyMeans
  <2> QED BY <1>3, <2>1, <2>4 DEF Accepted
<1> QED BY <1>2, <1>3

\* What is known of a request that was built from the datasets shown, and of an
\* answer that lists the datasets.
ShownOf(r) ==
  /\ pc[r] = "received" /\ trusted[r] =>
       /\ ~Malformed(ask[r])
       /\ \E c : Sound(views, listed, c, gone[r]) /\ Offered(ask[r], c)
  /\ pc[r] = "select" => ask[r].kind # "datasets"
  /\ pc[r] = "answered" /\ ask[r].kind = "datasets" /\ answer[r].status = 200 =>
       Sound(views, listed, result[r], gone[r])
  /\ pc[r] = "answered" /\ trusted[r] /\ answer[r].status \in {400, 422} =>
       "catalog" \in failed[r] \/ Needed(ask[r]) \cap gone[r] # {}

ShownInv == /\ Shapes /\ Sound(views, listed, shown, stale)
            /\ \A r \in Requests : ShownOf(r)

LEMMA ShownAgain ==
  ASSUME NEW r, ShownOf(r), UNCHANGED catalog, pc'[r] = pc[r], ask'[r] = ask[r],
         answer'[r] = answer[r], result'[r] = result[r], failed'[r] = failed[r],
         trusted'[r] = trusted[r], gone'[r] = gone[r]
  PROVE  ShownOf(r)'
<1>1. views' = views /\ listed' = listed
  BY DEF catalog
<1>2. /\ Malformed(ask[r])' = Malformed(ask[r]) /\ Needed(ask[r])' = Needed(ask[r])
      /\ \A c : Offered(ask[r], c)' = Offered(ask[r], c)
      /\ \A c : Sound(views, listed, c, gone[r])' = Sound(views, listed, c, gone[r])
      /\ Sound(views, listed, result[r], gone[r])' = Sound(views, listed, result[r], gone[r])
  BY <1>1
<1> QED BY <1>1, <1>2 DEF ShownOf

LEMMA ShownDecide ==
  ASSUME ShownInv, NEW r \in Requests, Moves(r), NEW c, Decide(r, c),
         \/ c = Datasets
         \/ c = Generated /\ "catalog" \in failed'[r]
  PROVE  ShownOf(r)'
<1>1. Shapes /\ ShownOf(r) /\ pc[r] = "received" /\ ~Malformed(ask[r])
  BY DEF ShownInv, Decide
<1>2. ask'[r] = ask[r] /\ trusted'[r] = trusted[r] /\ views' = views /\ listed' = listed
  BY DEF Moves, catalog
<1>3. ask[r] \in Asks
  BY <1>1 DEF Shapes
<1>4. CASE ask[r].kind = "datasets" /\ Respond(r, 200, "none", c) /\ gone' = [gone EXCEPT ![r] = {}]
  <2>1. pc'[r] = "answered" /\ answer'[r].status = 200 /\ result'[r] = c
    BY <1>1, <1>4, StatusOf
  <2>2. gone'[r] = {}
    BY <1>1, <1>4 DEF Shapes
  <2>3. Sound(views, listed, c, {})
    BY <1>1, ReadSound
  <2>4. Sound(views, listed, result[r], gone[r])'
    BY <1>2, <2>1, <2>2, <2>3
  <2> QED BY <2>1, <2>4 DEF ShownOf
<1>5. CASE Unhandled(r)
  <2>1. pc'[r] = "answered" /\ answer'[r].status = 500
    BY <1>1, <1>5, StatusOf
  <2> QED BY <2>1 DEF ShownOf
<1>6. CASE ask[r].kind # "datasets" /\ pc' = [pc EXCEPT ![r] = "select"]
  <2>1. pc'[r] = "select"
    BY <1>1, <1>6 DEF Shapes
  <2> QED BY <1>2, <1>6, <2>1 DEF ShownOf
<1>7. CASE ~Accepted(ask[r], c) /\ Respond(r, 400, ReasonOf(ask[r], c), Nothing) /\ UNCHANGED gone
  <2>1. pc'[r] = "answered" /\ answer'[r].status = 400
    BY <1>1, <1>7, StatusOf
  <2>2. ask[r].kind # "datasets"
    BY <1>7 DEF Accepted
  <2>3. ASSUME trusted[r], c = Datasets PROVE Needed(ask[r]) \cap gone[r] # {}
    BY <1>1, <1>3, <1>7, <2>2, <2>3, OfferedAccepted DEF ShownOf
  <2>4. trusted[r] => "catalog" \in failed'[r] \/ Needed(ask'[r]) \cap gone'[r] # {}
    BY <1>2, <1>7, <2>3
  <2> QED BY <1>2, <2>1, <2>2, <2>4 DEF ShownOf
<1> QED BY <1>4, <1>5, <1>6, <1>7 DEF Decide

LEMMA ShownStep ==
  ASSUME ShownInv, NEW r \in Requests, Steps(r)
  PROVE  ShownInv'
<1>1. Shapes /\ Shapes' /\ UNCHANGED catalog /\ ShownOf(r)
  BY StepsShapes DEF ShownInv
<1>2. views' = views /\ listed' = listed
  BY <1>1 DEF catalog
<1>3. CASE \E a \in Asks : Submit(r, a)
  <2>1. PICK a \in Asks : Submit(r, a)
    BY <1>3
  <2>2. /\ pc'[r] = "received" /\ ask'[r] = a
        /\ trusted'[r] = (~Malformed(a) /\ Offered(a, shown))
        /\ trusted'[r] => gone'[r] = stale
        /\ UNCHANGED <<answer, result, failed, shown, stale>>
    BY <1>1, <2>1 DEF Submit, Shapes
  <2>3. \A q \in Requests \ {r} : /\ pc'[q] = pc[q] /\ ask'[q] = ask[q]
                                  /\ trusted'[q] = trusted[q] /\ gone'[q] = gone[q]
    BY <1>1, <2>1 DEF Submit, Shapes
  <2>4. Sound(views, listed, shown, stale) /\ Sound(views, listed, shown, stale)'
    BY <1>2, <2>2 DEF ShownInv
  <2>5. trusted'[r] => /\ ~Malformed(ask'[r])
                       /\ Sound(views', listed', shown, gone'[r]) /\ Offered(ask'[r], shown)
    BY <1>2, <2>2, <2>4
  <2>6. ShownOf(r)'
    BY <2>2, <2>5 DEF ShownOf
  <2>7. \A q \in Requests \ {r} : ShownOf(q)'
    BY <1>1, <2>2, <2>3, ShownAgain DEF ShownInv
  <2> QED BY <1>1, <2>4, <2>6, <2>7 DEF ShownInv
<1>4. CASE Deliver(r) \/ LoseAnswer(r)
  <2>1. Forget(r)
    BY <1>4 DEF Deliver, LoseAnswer
  <2>2. /\ pc[r] = "answered" /\ pc'[r] = "idle"
        /\ \A q \in Requests \ {r} : /\ pc'[q] = pc[q] /\ ask'[q] = ask[q]
                                     /\ answer'[q] = answer[q] /\ result'[q] = result[q]
                                     /\ failed'[q] = failed[q]
                                     /\ trusted'[q] = trusted[q] /\ gone'[q] = gone[q]
    BY <1>1, <2>1 DEF Forget, Shapes
  <2>3. \A q \in Requests \ {r} : ShownOf(q)'
    BY <1>1, <2>2, ShownAgain DEF ShownInv
  <2>4. ShownOf(r)'
    BY <2>2 DEF ShownOf
  <2>5. \/ UNCHANGED <<shown, stale>>
        \/ /\ ask[r].kind = "datasets" /\ answer[r].status = 200
           /\ shown' = result[r] /\ stale' = gone[r]
    BY <1>4 DEF Deliver, LoseAnswer
  <2>6. Sound(views, listed, shown', stale')
    BY <1>1, <2>2, <2>5 DEF ShownInv, ShownOf
  <2>7. Sound(views, listed, shown, stale)'
    BY <1>2, <2>6
  <2> QED BY <1>1, <2>3, <2>4, <2>7 DEF ShownInv
<1>5. CASE \/ RejectMalformed(r) \/ ReadCatalog(r) \/ CatalogFails(r) \/ CatalogRaises(r)
           \/ Select(r) \/ SelectRefused(r) \/ SelectFails(r) \/ SelectRaises(r)
  <2>1. Moves(r)
    BY <1>1, <1>5, StepsMove
  <2>2. UNCHANGED <<ask, trusted, shown, stale>>
    BY <2>1 DEF Moves
  <2>3. \A q \in Requests \ {r} : ShownOf(q)'
    BY <1>1, <2>1, <2>2, ShownAgain DEF ShownInv, Moves
  <2>4. ASSUME RejectMalformed(r) PROVE ShownOf(r)'
    <3>1. /\ pc'[r] = "answered" /\ answer'[r].status = 422
          /\ pc[r] = "received" /\ Malformed(ask[r])
      BY <1>1, <2>4, StatusOf DEF RejectMalformed
    <3>2. ~trusted'[r]
      BY <1>1, <2>2, <3>1 DEF ShownOf
    <3> QED BY <3>1, <3>2 DEF ShownOf
  <2>5. ASSUME CatalogRaises(r) \/ SelectRaises(r) PROVE ShownOf(r)'
    <3>1. pc'[r] = "answered" /\ answer'[r].status = 500
      BY <1>1, <2>5, StatusOf DEF CatalogRaises, SelectRaises
    <3> QED BY <3>1 DEF ShownOf
  <2>6. ASSUME SelectRefused(r) \/ SelectFails(r) PROVE ShownOf(r)'
    <3>1. CASE SelectRefused(r)
      <4>1. pc'[r] = "answered" /\ answer'[r].status = 503
        BY <1>1, <3>1, StatusOf DEF SelectRefused
      <4> QED BY <4>1 DEF ShownOf
    <3>2. CASE SelectFails(r)
      <4>1. pc'[r] = "answered" /\ answer'[r].status = 503
        BY <1>1, <3>2, StatusOf DEF SelectFails
      <4> QED BY <4>1 DEF ShownOf
    <3> QED BY <2>6, <3>1, <3>2
  <2>7. ASSUME Select(r) PROVE ShownOf(r)'
    <3>1. PICK found \in Results(ask[r]) : Respond(r, 200, "none", found)
      BY <2>7 DEF Select
    <3>2. pc'[r] = "answered" /\ answer'[r].status = 200 /\ ask'[r].kind # "datasets"
      BY <1>1, <2>2, <2>7, <3>1, StatusOf DEF ShownOf, Select
    <3> QED BY <3>2 DEF ShownOf
  <2>8. ASSUME ReadCatalog(r) \/ CatalogFails(r) PROVE ShownOf(r)'
    <3>1. CASE ReadCatalog(r)
      BY <2>1, <3>1, ShownDecide DEF ReadCatalog
    <3>2. CASE CatalogFails(r)
      <4>1. "catalog" \in failed'[r]
        BY <1>1, <3>2 DEF CatalogFails, Fails, Shapes
      <4> QED BY <2>1, <3>2, <4>1, ShownDecide DEF CatalogFails
    <3> QED BY <2>8, <3>1, <3>2
  <2>9. Sound(views, listed, shown, stale)'
    BY <1>2, <2>2 DEF ShownInv
  <2>10. ShownOf(r)'
    BY <1>5, <2>4, <2>5, <2>6, <2>7, <2>8
  <2> QED BY <1>1, <2>3, <2>9, <2>10 DEF ShownInv
<1> QED BY <1>3, <1>4, <1>5 DEF Steps

LEMMA ShownChange == ShownInv /\ CatalogChanges => ShownInv'
<1> SUFFICES ASSUME ShownInv, CatalogChanges PROVE ShownInv'
  OBVIOUS
<1>1. /\ Shapes /\ Shapes' /\ Cat!Next
      /\ UNCHANGED <<pc, ask, answer, result, failed, trusted, shown>>
  BY ChangesShapes DEF ShownInv, CatalogChanges, request
<1>2. Sound(views', listed', shown', stale')
  <2>1. stale' = stale \cup (Unlisted \cap DOMAIN shown)
    BY DEF CatalogChanges
  <2> QED BY <1>1, <2>1, SoundKept DEF ShownInv
<1>3. ASSUME NEW r \in Requests PROVE ShownOf(r)'
  <2>1. ShownOf(r) /\ gone[r] \subseteq gone'[r]
    BY DEF ShownInv, CatalogChanges
  <2>2. Relying(r) => gone'[r] = gone[r] \cup Unlisted
    BY DEF CatalogChanges
  <2>3. /\ Malformed(ask[r])' = Malformed(ask[r]) /\ Needed(ask[r])' = Needed(ask[r])
        /\ \A c : Offered(ask[r], c)' = Offered(ask[r], c)
    BY <1>1
  <2>4. ASSUME pc[r] = "received", trusted[r]
        PROVE  \E c : Sound(views', listed', c, gone'[r]) /\ Offered(ask[r], c)
    <3>1. PICK c : Sound(views, listed, c, gone[r]) /\ Offered(ask[r], c)
      BY <2>1, <2>4 DEF ShownOf
    <3>2. Sound(views', listed', c, gone'[r])
      BY <1>1, <2>1, <2>2, <2>4, <3>1, SoundKept DEF Relying
    <3> QED BY <3>1, <3>2
  <2>5. ASSUME pc[r] = "answered", ask[r].kind = "datasets", answer[r].status = 200
        PROVE  Sound(views', listed', result[r], gone'[r])
    <3>1. Sound(views, listed, result[r], gone[r])
      BY <2>1, <2>5 DEF ShownOf
    <3> QED BY <1>1, <2>1, <2>2, <2>5, <3>1, SoundKept DEF Relying
  <2>6. ASSUME pc[r] = "answered", trusted[r], answer[r].status \in {400, 422}
        PROVE  "catalog" \in failed[r] \/ Needed(ask[r]) \cap gone'[r] # {}
    BY <2>1, <2>6 DEF ShownOf
  <2> QED BY <1>1, <2>1, <2>3, <2>4, <2>5, <2>6 DEF ShownOf
<1> QED BY <1>1, <1>2, <1>3 DEF ShownInv

\* A query that the datasets shown allow is rejected only if the catalog query
\* failed for it or a view table it names was unlisted since they were read.
THEOREM ShownAccepted == Spec => []ShownQueriesAccepted
<1>1. Init => ShownInv
  <2> SUFFICES ASSUME Init PROVE ShownInv
    OBVIOUS
  <2>1. Shapes
    BY InitShapes
  <2>2. Sound(views, listed, shown, stale)
    BY <2>1, ReadSound DEF Init
  <2>3. \A r \in Requests : pc[r] = "idle"
    BY DEF Init
  <2> QED BY <2>1, <2>2, <2>3 DEF ShownInv, ShownOf
<1>2. ShownInv /\ [Next]_vars => ShownInv'
  <2> SUFFICES ASSUME ShownInv, [Next]_vars PROVE ShownInv'
    OBVIOUS
  <2>1. CASE \E r \in Requests : Steps(r)
    BY <2>1, ShownStep
  <2>2. CASE CatalogChanges
    BY <2>2, ShownChange
  <2>3. CASE UNCHANGED vars
    <3>1. \A r \in Requests : ShownOf(r)'
      BY <2>3, ShownAgain DEF vars, request, ShownInv
    <3>2. Sound(views, listed, shown, stale)'
      BY <2>3 DEF vars, catalog, ShownInv
    <3> QED BY <2>3, <3>1, <3>2, SameShapes DEF ShownInv
  <2> QED BY <2>1, <2>2, <2>3, NextSteps
<1>3. ShownInv => ShownQueriesAccepted
  BY DEF ShownInv, ShownOf, ShownQueriesAccepted
<1> QED BY <1>1, <1>2, <1>3, PTL DEF Spec
=============================================================================
