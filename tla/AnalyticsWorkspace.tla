------------------------- MODULE AnalyticsWorkspace -------------------------
(***************************************************************************)
(* The analytics page: its handlers are asynchronous and keep the selection *)
(* of the render they were started from, while the user goes on selecting   *)
(* and other clients change the catalog.  React applies the updates a       *)
(* handler makes between two awaits together, so they are one step.         *)
(***************************************************************************)
EXTENDS Naturals, FiniteSets, ProxyRoutes

CONSTANTS
  Handlers,    \* handlers that may run at once; BootHandler is one of them
  BootHandler,
  Builtins,    \* the generated datasets
  Main,        \* event_type_counts, which the page prefers
  ViewNames,   \* names of view tables
  MaxOps,      \* bound: operations the user starts
  MaxChanges,  \* bound: saves and deletes of other clients
  NULL         \* nothing: "", null and undefined

ASSUME ConstantsAssumption ==
  /\ BootHandler \in Handlers
  /\ Main \in Builtins /\ Builtins \cap ViewNames = {}
  /\ NULL \notin Builtins \cup ViewNames

Names == Builtins \cup ViewNames

VARIABLES
  saved,       \* the backend's catalog: the view tables it has
  datasets,    \* the page's state: the names of the datasets it lists
  viewTables,  \* ... and of the view tables
  sel,         \* selectedDatasetName
  join,        \* joinDatasetName, set exactly while joinEnabled
  order,       \* the columns orderBy was taken from: base and joined dataset
  bootLoading,
  status,      \* queryStatus
  deleting,    \* deletingViewTableName
  result,      \* the handler whose result is shown
  op,          \* the operation each handler performs and what it captured
  latest,      \* history: the handler started last
  ops, changes \* counters of the bounds

selection == <<sel, join, order>>
lists == <<datasets, viewTables>>
counters == <<ops, changes>>
vars == <<saved, lists, selection, bootLoading, status, deleting, result, op, latest, counters>>

Kinds == {"boot", "sql", "explore", "preview", "save", "delete"}
Queries == {"sql", "explore", "preview"}

\* An operation: its view table, the selection of its render, the request it
\* awaits and the lists it has loaded so far.
Operation(kind, name, at) ==
  [kind |-> kind, name |-> name, sel |-> sel, join |-> join, at |-> at,
   datasets |-> NULL, viewTables |-> NULL]

\* chartColumnsFor: what can be sorted by, given a base and a joined dataset.
Columns(base, joined) == [base |-> base, join |-> joined]

Init == /\ saved \in SUBSET ViewNames
        /\ datasets = {} /\ viewTables = {}
        /\ sel = NULL /\ join = NULL /\ order = NULL
        /\ bootLoading = TRUE /\ status = "idle" /\ deleting = NULL /\ result = NULL
        /\ op = [h \in Handlers |-> IF h = BootHandler THEN Operation("boot", NULL, "reload")
                                                       ELSE NULL]
        /\ latest = NULL
        /\ ops = 0 /\ changes = 0
-----------------------------------------------------------------------------
(* What the user selects; every control works while operations run.         *)

\* applyDatasetDefaults
Select(d) == sel' = d /\ join' = NULL /\ order' = Columns(d, NULL)

Unselected == UNCHANGED <<saved, lists, bootLoading, status, deleting, result, op,
                          latest, counters>>

\* The dataset control, or "Open in Charts" of a listed view table.
SelectDataset == (\E d \in datasets : Select(d)) /\ Unselected

\* The join toggle and the join target: applyJoinTarget, which does nothing more
\* for a base dataset that is not listed.
SelectJoin ==
  /\ join' \in datasets \ {sel}
  /\ \/ sel \in datasets /\ order' = Columns(sel, join')
     \/ sel \notin datasets /\ join # NULL /\ UNCHANGED order
  /\ UNCHANGED sel
  /\ Unselected

\* resetJoinControls
DropJoin == /\ sel \in datasets /\ datasets # {sel} /\ join # NULL
            /\ join' = NULL /\ order' = Columns(sel, NULL)
            /\ UNCHANGED sel
            /\ Unselected

\* The sort control: no sort, or one of the columns it offers.
ActiveJoin == IF join \in datasets THEN join ELSE NULL
SelectOrder == /\ order' \in {NULL} \cup {Columns(sel, ActiveJoin) : s \in datasets \cap {sel}}
               /\ UNCHANGED <<sel, join>>
               /\ Unselected
-----------------------------------------------------------------------------
(* The buttons                                                              *)

\* Run chart, Run SQL, Preview and Save dataset.
MutCanRun == ~bootLoading
CanRun == ~bootLoading /\ status # "loading"

\* Delete of a listed view table.
MutCanDelete == deleting = NULL
CanDelete == deleting = NULL /\ status # "loading"

\* Handlers are alike: the next operation takes any that is free.
Free == CHOOSE h \in Handlers : op[h] = NULL

Begin(h, kind, name) ==
  /\ op[h] = NULL /\ h = Free
  /\ ops < MaxOps
  /\ ops' = ops + 1
  /\ status' = "loading"
  /\ op' = [op EXCEPT ![h] = Operation(kind, name, "request")]
  /\ latest' = h
  /\ UNCHANGED <<saved, lists, selection, bootLoading, result, changes>>

Run(h) == /\ CanRun
          /\ \E kind \in Queries : /\ kind = "explore" => sel \in datasets
                                   /\ Begin(h, kind, NULL)
          /\ UNCHANGED deleting

\* Run chart without a dataset.
RunNothing ==
  /\ CanRun /\ sel \notin datasets
  /\ status' = "error" /\ result' = NULL
  /\ UNCHANGED <<saved, lists, selection, bootLoading, deleting, op, latest, counters>>

Save(h) == /\ CanRun
           /\ \E v \in ViewNames : Begin(h, "save", v)
           /\ UNCHANGED deleting

Delete(h) == /\ CanDelete
             /\ \E v \in viewTables : Begin(h, "delete", v) /\ deleting' = v
-----------------------------------------------------------------------------
(* The answers                                                              *)

Running(h) == op[h] # NULL
Unanswered == UNCHANGED <<lists, selection, bootLoading, status, deleting, result, latest, counters>>

\* The request the page sends for an operation; its texts fit the proxy's limit.
Request(o) ==
  CASE o.kind = "sql" -> [method |-> "POST", path |-> FixedPath.query, large |-> FALSE]
    [] o.kind = "explore" -> [method |-> "POST", path |-> FixedPath.explore, large |-> FALSE]
    [] o.kind = "preview" -> [method |-> "POST", path |-> FixedPath.preview, large |-> FALSE]
    [] o.kind = "save" -> [method |-> "POST", path |-> FixedPath.viewTables, large |-> FALSE]
    [] o.kind = "delete" -> [method |-> "DELETE", path |-> <<"view-tables", o.name>>, large |-> FALSE]

\* The backend saves or deletes the view table.
TakesEffect(h) ==
  /\ Running(h) /\ op[h].at = "request" /\ op[h].kind \in {"save", "delete"}
  /\ Forwards(Request(op[h]))
  /\ saved' = IF op[h].kind = "save" THEN saved \cup {op[h].name} ELSE saved \ {op[h].name}
  /\ op' = [op EXCEPT ![h].at = "answer"]
  /\ Unanswered

\* Its answer arrives: reloadMetadata sends two requests.
Answered(h) ==
  /\ Running(h) /\ op[h].at = "answer"
  /\ op' = [op EXCEPT ![h].at = "reload"]
  /\ UNCHANGED saved
  /\ Unanswered

\* GET datasets; a failed catalog query leaves the generated ones.
ReadDatasets(h) ==
  /\ Running(h) /\ op[h].at = "reload" /\ op[h].datasets = NULL
  /\ \E found \in {saved, {}} : op' = [op EXCEPT ![h].datasets = Builtins \cup found]
  /\ UNCHANGED saved
  /\ Unanswered

\* GET view-tables; a failed catalog query leaves none.
ReadViewTables(h) ==
  /\ Running(h) /\ op[h].at = "reload" /\ op[h].viewTables = NULL
  /\ \E found \in {saved, {}} : op' = [op EXCEPT ![h].viewTables = found]
  /\ UNCHANGED saved
  /\ Unanswered

Finish(h) == op' = [op EXCEPT ![h] = NULL] /\ UNCHANGED <<saved, latest, counters>>

\* A query's result is shown.
Queried(h) ==
  /\ Running(h) /\ op[h].kind \in Queries
  /\ Forwards(Request(op[h]))
  /\ result' = h
  /\ status' = "success"
  /\ Finish(h)
  /\ UNCHANGED <<lists, selection, bootLoading, deleting>>

\* The dataset a reload should select.
Preferred(o) == CASE o.kind = "save" -> o.name
                  [] o.kind = "delete" -> IF o.sel = o.name THEN NULL ELSE o.sel
                  [] OTHER -> Main

\* activeDataset: preferred, or else captured, or else the page's default.
Active(o) == IF Preferred(o) \in o.datasets THEN Preferred(o)
             ELSE IF o.sel \in o.datasets THEN o.sel ELSE Main

\* Whether a reload selects it: the preferred one, or because the captured is gone.
MutSelects(o) == Preferred(o) \in o.datasets
Selects(o) == \/ Preferred(o) \in o.datasets
              \/ o.sel # NULL /\ o.sel \notin o.datasets

\* The captured join target is gone.
LosesJoin(o) == o.join # NULL /\ o.join \notin o.datasets

MutLoadedViewTables(o) == o.datasets
LoadedViewTables(o) == o.viewTables

\* Both lists have arrived: loadInitialData and reloadMetadata update the page.
Loaded(h) ==
  /\ Running(h) /\ op[h].at = "reload"
  /\ NULL \notin {op[h].datasets, op[h].viewTables}
  /\ datasets' = op[h].datasets /\ viewTables' = LoadedViewTables(op[h])
  /\ sel' = IF Selects(op[h]) THEN Active(op[h]) ELSE sel
  /\ IF Selects(op[h]) \/ LosesJoin(op[h])
       THEN join' = NULL /\ order' = Columns(Active(op[h]), NULL)
       ELSE UNCHANGED <<join, order>>
  /\ IF op[h].kind = "boot"
       THEN bootLoading' = FALSE /\ UNCHANGED <<status, result, deleting>>
       ELSE /\ status' = "success" /\ result' = NULL
            /\ deleting' = IF op[h].kind = "delete" THEN NULL ELSE deleting
            /\ UNCHANGED bootLoading
  /\ Finish(h)

\* The finally block of a deletion.
MutReleased(h) == deleting
Released(h) == IF op[h].kind = "delete" THEN NULL ELSE deleting

\* The proxy or the backend refuses, or an answer is lost: the handler's catch.
Fails(h) ==
  /\ Running(h)
  /\ status' = "error"
  /\ bootLoading' = (bootLoading /\ op[h].kind # "boot")
  /\ result' = IF op[h].kind \in {"boot", "delete"} THEN result ELSE NULL
  /\ deleting' = Released(h)
  /\ Finish(h)
  /\ UNCHANGED <<lists, selection>>

\* Other clients save and delete view tables.
OthersChange ==
  /\ changes < MaxChanges
  /\ changes' = changes + 1
  /\ \E v \in ViewNames : saved' \in {saved \cup {v}, saved \ {v}}
  /\ UNCHANGED <<lists, selection, bootLoading, status, deleting, result, op, latest, ops>>

Progress(h) == \/ TakesEffect(h) \/ Answered(h) \/ ReadDatasets(h) \/ ReadViewTables(h)
               \/ Queried(h) \/ Loaded(h) \/ Fails(h)

Next == \/ SelectDataset \/ SelectJoin \/ DropJoin \/ SelectOrder
        \/ RunNothing \/ OthersChange
        \/ \E h \in Handlers : Run(h) \/ Save(h) \/ Delete(h) \/ Progress(h)

Spec == Init /\ [][Next]_vars

\* Every HTTP request is answered or fails; the user owes nothing.
FairSpec == Spec /\ \A h \in Handlers : WF_vars(Progress(h))
-----------------------------------------------------------------------------
(* Properties                                                               *)

Lists == {Builtins \cup vs : vs \in SUBSET ViewNames}
ColumnsOf == [base : Names, join : Names \cup {NULL}]
Operations ==
  {o \in [kind : Kinds, name : ViewNames \cup {NULL}, sel : Names \cup {NULL},
          join : Names \cup {NULL}, at : {"request", "answer", "reload"},
          datasets : Lists \cup {NULL}, viewTables : (SUBSET ViewNames) \cup {NULL}] :
     o.kind \in {"save", "delete"} => o.name \in ViewNames}

TypeOK ==
  /\ saved \subseteq ViewNames
  /\ datasets \in Lists \cup {{}}
  /\ viewTables \subseteq ViewNames
  /\ sel \in Names \cup {NULL} /\ join \in Names \cup {NULL}
  /\ order \in ColumnsOf \cup {NULL}
  /\ bootLoading \in BOOLEAN
  /\ status \in {"idle", "loading", "success", "error"}
  /\ deleting \in ViewNames \cup {NULL}
  /\ result \in Handlers \cup {NULL} /\ latest \in Handlers \cup {NULL}
  /\ op \in [Handlers -> Operations \cup {NULL}]
  /\ ops \in Nat /\ changes \in Nat

\* The buttons keep operations, and the initial load, from overlapping.
OneAtATime == \A g, h \in Handlers : Running(g) /\ Running(h) => g = h

\* A result shown as a success is that of the operation started last.
ResultIsLatest == status = "success" /\ result # NULL => result = latest

\* The selection fits the lists: a listed dataset, joined with another listed one,
\* sorted by a column the two offer.
Consistent == /\ datasets # {} => sel \in datasets
              /\ join # NULL => join \in datasets \ {sel}
              /\ order \in {NULL, Columns(sel, join)}

\* A reload with nothing to select: what was saved is not in its list, or the
\* selected view table was deleted and is back, and the captured selection is
\* listed or there was none.
NothingToSelect(h) ==
  /\ Running(h) /\ op[h].at = "reload"
  /\ op[h].kind = "save" => op[h].name \notin op[h].datasets
  /\ op[h].kind = "delete" => op[h].sel \in {NULL, op[h].name}
  /\ op[h].sel \in op[h].datasets \cup {NULL}

\* What the user selects while a handler runs and what others delete make the
\* selection inconsistent only in a reload with nothing to select: in all
\* others the handler replaces the user's choice by one of its own.
ConsistencyKept ==
  [][Consistent => Consistent' \/ \E h \in Handlers : NothingToSelect(h) /\ ~Running(h)']_vars

\* The page is never left loading or deleting.
Settled == ~bootLoading /\ status # "loading" /\ deleting = NULL
PageSettles == ~Settled ~> Settled

\* Claimed: the proxy forwards every request of the page, also the preview's.
RequestsReachBackend ==
  \A h \in Handlers : Running(h) /\ op[h].at = "request" => Forwards(Request(op[h]))
=============================================================================
