----------------------------- MODULE ViewTables -----------------------------
(***************************************************************************)
(* Saved view tables: concurrent POST /analytics/view-tables and           *)
(* DELETE /analytics/view-tables/{name} requests against PostgreSQL.  A    *)
(* request reads the allow-list in a session of its own, then runs its      *)
(* statements in one transaction, each of which sees what is committed and *)
(* waits for the locks of the others.                                      *)
(***************************************************************************)
EXTENDS FiniteSets, SequencesExt

CONSTANTS
  Requests,  \* the requests that may be in progress at once
  Names,     \* the view table names in use
  Builtins,  \* the generated views (ALLOWED_DATASET_NAMES)
  RawTables, \* {"events"} (VIEW_TABLE_SOURCE_RELATION_NAMES)
  Sources,   \* the SELECTs submitted: the relations each reads, its columns
  Absent,    \* no view, no row
  Untouched  \* what a transaction has not written

ASSUME ConstantsAssumption ==
  /\ Names \cap (Builtins \cup RawTables) = {}
  /\ \A s \in Sources : s.reads \subseteq Names \cup Builtins \cup RawTables
  /\ Absent \notin Sources /\ Untouched \notin Sources \cup {Absent}

VARIABLES
  views,    \* the views PostgreSQL has, committed: name -> source or Absent
  listed,   \* the rows of analytics_view_tables, committed: name -> source or Absent
  granted,  \* the views the reader role may read, committed
  pc,       \* the call each request waits for
  req,      \* what each request asked for
  tx        \* each request's transaction: uncommitted writes and locks

vars == <<views, listed, granted, pc, req, tx>>

Bases == Builtins \cup RawTables
Idle == [op |-> "none", name |-> Absent, source |-> Absent]
NoTx == [view |-> Untouched, row |-> Untouched, shared |-> {}]

Init == /\ views = [n \in Names |-> Absent]
        /\ listed = [n \in Names |-> Absent]
        /\ granted = {}
        /\ pc = [r \in Requests |-> "idle"]
        /\ req = [r \in Requests |-> Idle]
        /\ tx = [r \in Requests |-> NoTx]
-----------------------------------------------------------------------------
\* The datasets the allow-list query finds: saved ones unless it fails.
Catalogued == {n \in Names : listed[n] # Absent}

\* The relations a view source may read.
SourceRelations(datasets) == datasets \cup Builtins \cup RawTables

\* Exclusive locks: the transactions other than r's that wrote the view n.
ViewHolders(r, n) == {q \in Requests \ {r} : req[q].name = n /\ tx[q].view # Untouched}

\* Shared locks: those whose new view reads n.
ReadHolders(r, n) == {q \in Requests \ {r} : n \in tx[q].shared}

\* Row locks: those that wrote the metadata row of n.
RowHolders(r, n) == {q \in Requests \ {r} : req[q].name = n /\ tx[q].row # Untouched}

\* CREATE OR REPLACE VIEW may only add columns behind the existing ones.
MutCanDefine(n, s) == TRUE
CanDefine(n, s) == views[n] # Absent => IsPrefix(views[n].columns, s.columns)

\* DROP VIEW without CASCADE: no other view may read n.
MutDroppable(n) == TRUE
Droppable(n) == \A m \in Names \ {n} : views[m] # Absent => n \notin views[m].reads

\* INSERT ... ON CONFLICT DO UPDATE: the row an upsert writes.
MutUpsertedRow(n, s) == IF listed[n] = Absent THEN s ELSE listed[n]
UpsertedRow(n, s) == s

\* What a commit leaves of a committed value and a transaction's write.
Applied(old, new) == IF new = Untouched THEN old ELSE new

\* Leaving the session with an error rolls its transaction back.
MutRollback(r) == UNCHANGED tx
Rollback(r) == tx' = [tx EXCEPT ![r] = NoTx]

\* The request is answered.
Answer(r) == /\ pc' = [pc EXCEPT ![r] = "idle"]
             /\ req' = [req EXCEPT ![r] = Idle]

Goto(r, label) == pc' = [pc EXCEPT ![r] = label]
-----------------------------------------------------------------------------
(* POST /analytics/view-tables                                              *)

\* The name is free to use, the allow-list is read and the policy accepts the
\* source.  A failed catalog query falls back to the generated views.
StartSave(r, n, s) ==
  /\ pc[r] = "idle"
  /\ \E datasets \in {Catalogued, {}} : s.reads \subseteq SourceRelations(datasets)
  /\ Goto(r, "analyse")
  /\ req' = [req EXCEPT ![r] = [op |-> "save", name |-> n, source |-> s]]
  /\ UNCHANGED <<views, listed, granted, tx>>

\* CREATE OR REPLACE VIEW looks its source's relations up and locks them.
Analyse(r) ==
  /\ pc[r] = "analyse"
  /\ LET read == req[r].source.reads \cap Names
     IN  /\ \A m \in read : views[m] # Absent /\ ViewHolders(r, m) = {}
         /\ tx' = [tx EXCEPT ![r].shared = read]
  /\ Goto(r, "define")
  /\ UNCHANGED <<views, listed, granted, req>>

\* ... and then locks and defines the view itself.
Define(r) ==
  /\ pc[r] = "define"
  /\ ViewHolders(r, req[r].name) = {} /\ ReadHolders(r, req[r].name) = {}
  /\ CanDefine(req[r].name, req[r].source)
  /\ tx' = [tx EXCEPT ![r].view = req[r].source]
  /\ Goto(r, "describe")
  /\ UNCHANGED <<views, listed, granted, req>>

\* GRANT SELECT, the metadata upsert, and reading it back.
Describe(r) ==
  /\ pc[r] = "describe"
  /\ RowHolders(r, req[r].name) = {}
  /\ tx' = [tx EXCEPT ![r].row = UpsertedRow(req[r].name, req[r].source)]
  /\ Goto(r, "commit")
  /\ UNCHANGED <<views, listed, granted, req>>
-----------------------------------------------------------------------------
(* DELETE /analytics/view-tables/{name}                                     *)

StartDelete(r, n) ==
  /\ pc[r] = "idle"
  /\ Goto(r, "drop")
  /\ req' = [req EXCEPT ![r] = [op |-> "delete", name |-> n, source |-> Absent]]
  /\ UNCHANGED <<views, listed, granted, tx>>

\* DROP VIEW IF EXISTS of a view that is there.
Drop(r) ==
  /\ pc[r] = "drop"
  /\ views[req[r].name] # Absent
  /\ ViewHolders(r, req[r].name) = {} /\ ReadHolders(r, req[r].name) = {}
  /\ Droppable(req[r].name)
  /\ tx' = [tx EXCEPT ![r].view = Absent]
  /\ Goto(r, "unlist")
  /\ UNCHANGED <<views, listed, granted, req>>

\* DROP VIEW IF EXISTS finds no committed view: it locks nothing.
DropNothing(r) ==
  /\ pc[r] = "drop"
  /\ views[req[r].name] = Absent
  /\ Goto(r, "unlist")
  /\ UNCHANGED <<views, listed, granted, req, tx>>

\* DELETE of the metadata row, of which a later statement sees a later commit.
Unlist(r) ==
  /\ pc[r] = "unlist"
  /\ IF listed[req[r].name] = Absent
       THEN UNCHANGED tx
       ELSE /\ RowHolders(r, req[r].name) = {}
            /\ tx' = [tx EXCEPT ![r].row = Absent]
  /\ Goto(r, "commit")
  /\ UNCHANGED <<views, listed, granted, req>>
-----------------------------------------------------------------------------
\* COMMIT; whether the answer arrives makes no difference to the database.
Commit(r) ==
  /\ pc[r] = "commit"
  /\ LET n == req[r].name IN
       /\ views' = [views EXCEPT ![n] = Applied(@, tx[r].view)]
       /\ listed' = [listed EXCEPT ![n] = Applied(@, tx[r].row)]
       /\ granted' = IF tx[r].view = Untouched THEN granted
                     ELSE IF tx[r].view = Absent THEN granted \ {n}
                     ELSE granted \cup {n}
  /\ tx' = [tx EXCEPT ![r] = NoTx]
  /\ Answer(r)

\* PostgreSQL refuses the statement: a relation is gone, columns would change,
\* or other views depend on the one to drop.
Refused(r) ==
  \/ /\ pc[r] = "analyse"
     /\ \E m \in req[r].source.reads \cap Names : views[m] = Absent
  \/ pc[r] = "define" /\ ~CanDefine(req[r].name, req[r].source)
  \/ pc[r] = "drop" /\ views[req[r].name] # Absent /\ ~Droppable(req[r].name)

\* The transactions whose locks request r waits for.
WaitsFor(r) ==
  CASE pc[r] = "analyse" ->
         UNION {ViewHolders(r, m) : m \in req[r].source.reads \cap Names}
    [] pc[r] \in {"define", "drop"} ->
         ViewHolders(r, req[r].name) \cup ReadHolders(r, req[r].name)
    [] pc[r] \in {"describe", "unlist"} -> RowHolders(r, req[r].name)
    [] OTHER -> {}

\* r waits, directly or not, in a circle of waiting transactions.
Deadlocked(r) == \E S \in SUBSET Requests :
                   r \in S /\ \A p \in S : WaitsFor(p) \cap S # {}

\* The statement fails for a reason of its own, or to break a deadlock.
StatementFails(r) == /\ Refused(r) \/ Deadlocked(r)
                     /\ Rollback(r) /\ Answer(r)
                     /\ UNCHANGED <<views, listed, granted>>

\* Any call may fail: the server is unreachable, a connection is lost, another
\* creation of the name wins, the process dies.
DatabaseRaises(r) == /\ pc[r] # "idle"
                     /\ Rollback(r) /\ Answer(r)
                     /\ UNCHANGED <<views, listed, granted>>

Step(r) == \/ Analyse(r) \/ Define(r) \/ Describe(r)
           \/ Drop(r) \/ DropNothing(r) \/ Unlist(r)
           \/ Commit(r) \/ StatementFails(r)

Next == \E r \in Requests :
          \/ \E n \in Names : StartDelete(r, n) \/ \E s \in Sources : StartSave(r, n, s)
          \/ Step(r)
          \/ DatabaseRaises(r)

Spec == Init /\ [][Next]_vars

\* Strong: PostgreSQL serves the requests for a lock in the order of arrival.
FairSpec == Spec /\ \A r \in Requests : SF_vars(Step(r))
-----------------------------------------------------------------------------
(* Properties                                                               *)

Labels == {"idle", "analyse", "define", "describe", "drop", "unlist", "commit"}
Asked == [op : {"none", "save", "delete"}, name : Names \cup {Absent},
          source : Sources \cup {Absent}]
Transactions == [view : Sources \cup {Absent, Untouched},
                 row : Sources \cup {Absent, Untouched}, shared : SUBSET Names]

TypeOK ==
  /\ views \in [Names -> Sources \cup {Absent}]
  /\ listed \in [Names -> Sources \cup {Absent}]
  /\ granted \subseteq Names
  /\ pc \in [Requests -> Labels]
  /\ req \in [Requests -> Asked]
  /\ tx \in [Requests -> Transactions]
  /\ \A r \in Requests : pc[r] = "idle" => tx[r] = NoTx

\* A listed view table exists, is defined by the SELECT it is listed with and
\* the reader role may read it, whatever saves and deletes ran concurrently and
\* wherever they failed.
ListedViewsWork ==
  \A n \in Catalogued : views[n] = listed[n] /\ n \in granted

\* The saved views a view reads.
Reads(n) == IF views[n] = Absent THEN {} ELSE views[n].reads \cap Names

\* No saved view reads one that is gone, though the allow-list a save was
\* checked against is older than its definition.
SourcesExist == \A n \in Names : \A m \in Reads(n) : views[m] # Absent

\* Views that read each other in a circle, or lead into one.
Circular(S) == S # {} /\ \A n \in S : Reads(n) \cap S # {}
SomeCircle == \E S \in SUBSET Names : Circular(S)

\* Only the replacement of an existing view can make views read each other in
\* a circle: creating a view, deleting one and any mix of the two cannot.
CirclesOnlyByReplacement ==
  [][SomeCircle' => \/ SomeCircle
                    \/ \E n \in Names : /\ Absent \notin {views[n], views'[n]}
                                        /\ views'[n] # views[n]]_vars

\* The three statements of a save and the two of a delete appear as one step of
\* the catalog.
C == INSTANCE Catalog WITH relations <- views, datasets <- listed
ImplementsCatalog == C!CatalogSpec

\* Every request is answered: waiting for the locks of others ends, also when
\* two saves read each other's names.
RequestsEnd == \A r \in Requests : pc[r] # "idle" ~> pc[r] = "idle"

\* Claimed: saving creates the view and persists its metadata, deleting deletes
\* a view and its metadata, so a view is never without its metadata.
ViewsAreListed == \A n \in Names : views[n] # Absent => listed[n] # Absent
=============================================================================
