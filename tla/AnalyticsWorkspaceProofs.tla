---------------------- MODULE AnalyticsWorkspaceProofs ----------------------
(***************************************************************************)
(* For any view tables, handlers and numbers of operations and changes: the *)
(* page runs one operation at a time, shows the latest result, and keeps a  *)
(* consistent selection except in a reload with nothing to select.          *)
(***************************************************************************)
EXTENDS AnalyticsWorkspace, TLAPS

\* The page waits for whatever runs, and what runs was started last.
Waits == \A h \in Handlers : Running(h) =>
           IF op[h].kind = "boot" THEN bootLoading
           ELSE status = "loading" /\ ~bootLoading /\ latest = h

\* Nothing is listed before the initial load has ended.
EmptyWhileBooting == bootLoading => viewTables = {}

Inv == TypeOK /\ OneAtATime /\ Waits /\ EmptyWhileBooting /\ ResultIsLatest

\* The types of what the handlers keep.
LEMMA OperationType ==
  ASSUME sel \in Names \cup {NULL}, join \in Names \cup {NULL},
         NEW k \in Kinds, NEW n \in ViewNames \cup {NULL}, NEW a \in {"request", "reload"},
         k \in {"save", "delete"} => n \in ViewNames
  PROVE  Operation(k, n, a) \in Operations /\ Operation(k, n, a).kind = k
  BY DEF Operation, Operations

LEMMA OperationTyped ==
  ASSUME TypeOK, NEW h \in Handlers, Running(h)
  PROVE  /\ op[h] \in Operations
         /\ op[h].kind \in Kinds /\ op[h].sel \in Names \cup {NULL}
         /\ op[h].datasets \in Lists \cup {NULL}
         /\ op[h].viewTables \in (SUBSET ViewNames) \cup {NULL}
         /\ op[h].kind \in {"save", "delete"} => op[h].name \in ViewNames
<1>1. op[h] \in Operations
  BY DEF TypeOK, Running
<1> QED
  BY <1>1 DEF Operations

\* What an answer writes into an operation.
LEMMA OperationUpdate ==
  ASSUME NEW o \in Operations
  PROVE  /\ \A a \in {"request", "answer", "reload"} :
              [o EXCEPT !.at = a] \in Operations /\ [o EXCEPT !.at = a].kind = o.kind
         /\ \A l \in Lists :
              [o EXCEPT !.datasets = l] \in Operations /\ [o EXCEPT !.datasets = l].kind = o.kind
         /\ \A vs \in SUBSET ViewNames :
              [o EXCEPT !.viewTables = vs] \in Operations
              /\ [o EXCEPT !.viewTables = vs].kind = o.kind
  BY DEF Operations

LEMMA InitInv == Init => Inv
<1> SUFFICES ASSUME Init PROVE Inv
    OBVIOUS
<1>1. Operation("boot", NULL, "reload") \in Operations
  BY OperationType DEF Init, Kinds
<1>2. TypeOK
  BY <1>1, ConstantsAssumption DEF Init, TypeOK
<1>3. \A h \in Handlers : Running(h) => h = BootHandler /\ op[h].kind = "boot"
  BY DEF Init, Running, Operation
<1> QED
  BY <1>2, <1>3 DEF Init, Inv, OneAtATime, Waits, EmptyWhileBooting, ResultIsLatest
-----------------------------------------------------------------------------
\* Selecting, refusing to run without a dataset, and others' changes leave the
\* operations alone.
LEMMA UserInv ==
  ASSUME Inv, SelectDataset \/ SelectJoin \/ DropJoin \/ SelectOrder \/ RunNothing \/ OthersChange
  PROVE  Inv'
<1> USE DEF Unselected, lists, counters, selection
<1>1. UNCHANGED <<datasets, viewTables, bootLoading, deleting, op, latest, ops>>
  BY DEF SelectDataset, SelectJoin, DropJoin, SelectOrder, RunNothing, OthersChange
<1>2. /\ status' = status /\ result' = result
      \/ /\ status' = "error" /\ status # "loading" /\ ~bootLoading /\ result' = NULL
  BY DEF SelectDataset, SelectJoin, DropJoin, SelectOrder, RunNothing, OthersChange, CanRun
<1>3. TypeOK'
  <2>1. datasets \subseteq Names
    BY DEF Inv, TypeOK, Lists, Names
  <2>2. sel' \in Names \cup {NULL} /\ join' \in Names \cup {NULL}
    BY <2>1 DEF Inv, TypeOK, SelectDataset, Select, SelectJoin, DropJoin, SelectOrder,
           RunNothing, OthersChange
  <2>3. order' \in ColumnsOf \cup {NULL}
    BY <2>1 DEF Inv, TypeOK, SelectDataset, Select, SelectJoin, DropJoin, SelectOrder,
           RunNothing, OthersChange, Columns, ColumnsOf, ActiveJoin
  <2>4. saved' \subseteq ViewNames /\ changes' \in Nat
    BY DEF Inv, TypeOK, SelectDataset, SelectJoin, DropJoin, SelectOrder,
           RunNothing, OthersChange
  <2>5. bootLoading' \in BOOLEAN
    BY <1>1, Zenon DEF Inv, TypeOK
  <2> QED
    BY <1>1, <1>2, <2>2, <2>3, <2>4, <2>5 DEF Inv, TypeOK
<1> QED
  BY <1>1, <1>2, <1>3 DEF Inv, OneAtATime, Waits, EmptyWhileBooting, ResultIsLatest, Running

\* Starting an operation: the buttons show that none runs.
LEMMA BeginInv ==
  ASSUME Inv, NEW h \in Handlers, NEW k \in Kinds \ {"boot"}, NEW n \in ViewNames \cup {NULL},
         k \in {"save", "delete"} => n \in ViewNames, Begin(h, k, n), ~bootLoading, status # "loading",
         deleting' \in ViewNames \cup {NULL}
  PROVE  Inv'
<1> DEFINE o == Operation(k, n, "request")
<1>1. o \in Operations /\ o.kind = k
  BY OperationType DEF Inv, TypeOK
<1>2. \A g \in Handlers : ~Running(g)
  BY DEF Inv, Waits
<1>3. /\ op' = [op EXCEPT ![h] = o] /\ status' = "loading" /\ latest' = h
      /\ ops' = ops + 1
      /\ UNCHANGED <<saved, datasets, viewTables, sel, join, order, bootLoading, result, changes>>
  BY DEF Begin, lists, selection
<1> HIDE DEF o
<1>4. \A g \in Handlers : Running(g)' => g = h /\ op'[g] = o
  BY <1>2, <1>3 DEF Running, Inv, TypeOK
<1>5. TypeOK'
  <2>1. bootLoading' \in BOOLEAN
    BY <1>3, Zenon DEF Inv, TypeOK
  <2> QED
    BY <1>1, <1>3, <2>1 DEF Inv, TypeOK
<1>6. OneAtATime' /\ ResultIsLatest'
  BY <1>3, <1>4 DEF OneAtATime, ResultIsLatest
<1>7. Waits'
  <2> SUFFICES ASSUME NEW g \in Handlers, Running(g)'
               PROVE  op'[g].kind # "boot" /\ status' = "loading" /\ ~bootLoading' /\ latest' = g
    BY DEF Waits
  <2> QED  BY <1>1, <1>3, <1>4
<1> QED
  BY <1>3, <1>5, <1>6, <1>7 DEF Inv, EmptyWhileBooting

LEMMA ButtonsInv ==
  ASSUME Inv, NEW h \in Handlers, Run(h) \/ Save(h) \/ Delete(h)
  PROVE  Inv'
<1>1. CASE Run(h)
  BY <1>1, BeginInv DEF Run, CanRun, Kinds, Queries, Inv, TypeOK
<1>2. CASE Save(h)
  BY <1>2, BeginInv DEF Save, CanRun, Kinds, Inv, TypeOK
<1>3. CASE Delete(h)
  <2>1. ~bootLoading /\ status # "loading"
    BY <1>3 DEF Delete, CanDelete, Inv, EmptyWhileBooting
  <2>2. PICK v \in viewTables : Begin(h, "delete", v) /\ deleting' = v
    BY <1>3 DEF Delete
  <2>3. v \in ViewNames
    BY <2>2 DEF Inv, TypeOK
  <2> QED
    BY <2>1, <2>2, <2>3, BeginInv DEF Kinds
<1> QED
  BY <1>1, <1>2, <1>3
-----------------------------------------------------------------------------
\* Answers that only move a handler on.
LEMMA MoveInv ==
  ASSUME Inv, NEW h \in Handlers,
         TakesEffect(h) \/ Answered(h) \/ ReadDatasets(h) \/ ReadViewTables(h)
  PROVE  Inv'
<1> USE DEF lists, counters, selection, Unanswered
<1>1. UNCHANGED <<datasets, viewTables, sel, join, order, bootLoading, status, deleting,
                  result, latest, ops, changes>>
  BY DEF TakesEffect, Answered, ReadDatasets, ReadViewTables
<1>2. op[h] \in Operations /\ Running(h)
  BY OperationTyped DEF Inv, TakesEffect, Answered, ReadDatasets, ReadViewTables
<1>3. saved' \subseteq ViewNames
  BY OperationTyped, <1>2 DEF Inv, TypeOK, TakesEffect, Answered, ReadDatasets, ReadViewTables
<1>4. PICK o \in Operations : op' = [op EXCEPT ![h] = o] /\ o.kind = op[h].kind
  <2>1. CASE TakesEffect(h)
    <3>3. /\ [op[h] EXCEPT !.at = "answer"] \in Operations
          /\ [op[h] EXCEPT !.at = "answer"].kind = op[h].kind
      BY <1>2, OperationUpdate
    <3> QED
      BY <3>3, <2>1 DEF TakesEffect
  <2>2. CASE Answered(h)
    <3>3. /\ [op[h] EXCEPT !.at = "reload"] \in Operations
          /\ [op[h] EXCEPT !.at = "reload"].kind = op[h].kind
      BY <1>2, OperationUpdate
    <3> QED
      BY <3>3, <2>2 DEF Answered
  <2>3. CASE ReadDatasets(h)
    <3>1. PICK found \in {saved, {}} : op' = [op EXCEPT ![h].datasets = Builtins \cup found]
      BY <2>3 DEF ReadDatasets
    <3>2. Builtins \cup found \in Lists
      BY <3>1 DEF Lists, Inv, TypeOK
    <3>3. /\ [op[h] EXCEPT !.datasets = Builtins \cup found] \in Operations
          /\ [op[h] EXCEPT !.datasets = Builtins \cup found].kind = op[h].kind
      BY <1>2, <3>2, OperationUpdate
    <3> QED
      BY <3>3, <3>1
  <2>4. CASE ReadViewTables(h)
    <3>1. PICK found \in {saved, {}} : op' = [op EXCEPT ![h].viewTables = found]
      BY <2>4 DEF ReadViewTables
    <3>2. found \in SUBSET ViewNames
      BY <3>1 DEF Inv, TypeOK
    <3>3. /\ [op[h] EXCEPT !.viewTables = found] \in Operations
          /\ [op[h] EXCEPT !.viewTables = found].kind = op[h].kind
      BY <1>2, <3>2, OperationUpdate
    <3> QED
      BY <3>3, <3>1
  <2> QED
    BY <2>1, <2>2, <2>3, <2>4
<1>5. TypeOK'
  <2>1. bootLoading' \in BOOLEAN
    BY <1>1, Zenon DEF Inv, TypeOK
  <2> QED
    BY <1>1, <1>3, <1>4, <2>1 DEF Inv, TypeOK
<1>6. \A g \in Handlers : Running(g)' => Running(g) /\ op'[g].kind = op[g].kind
  BY <1>2, <1>4 DEF Running, Inv, TypeOK
<1> QED
  BY <1>1, <1>5, <1>6 DEF Inv, OneAtATime, Waits, EmptyWhileBooting, ResultIsLatest

\* The end of an operation: nothing runs any more.
LEMMA EndInv ==
  ASSUME Inv, NEW h \in Handlers, Queried(h) \/ Loaded(h) \/ Fails(h)
  PROVE  Inv'
<1> USE DEF lists, counters, selection
<1>1. Running(h) /\ op' = [op EXCEPT ![h] = NULL] /\ UNCHANGED <<saved, latest, ops, changes>>
  BY DEF Queried, Loaded, Fails, Finish
<1>2. \A g \in Handlers : ~Running(g)'
  BY <1>1 DEF Inv, OneAtATime, Running, TypeOK
<1>3. TypeOK'
  <2>1. op' \in [Handlers -> Operations \cup {NULL}]
    BY <1>1 DEF Inv, TypeOK
  <2>2. datasets' \in Lists \cup {{}} /\ viewTables' \subseteq ViewNames
    BY <1>1, OperationTyped DEF Inv, TypeOK, Queried, Loaded, Fails, LoadedViewTables
  <2>3. sel' \in Names \cup {NULL} /\ join' \in Names \cup {NULL} /\ order' \in ColumnsOf \cup {NULL}
    <3>1. CASE Loaded(h)
      <4>1. op[h].datasets \subseteq Names
        BY <1>1, <3>1, OperationTyped DEF Inv, Loaded, Lists, Names
      <4>2. Active(op[h]) \in Names
        BY <4>1, ConstantsAssumption DEF Active, Names
      <4> QED
        BY <3>1, <4>2 DEF Inv, TypeOK, Loaded, Columns, ColumnsOf
    <3> QED
      BY <3>1 DEF Inv, TypeOK, Queried, Fails
  <2>4. bootLoading' \in BOOLEAN
    BY Zenon DEF Inv, TypeOK, Queried, Loaded, Fails
  <2>5. /\ status' \in {"idle", "loading", "success", "error"}
        /\ deleting' \in ViewNames \cup {NULL} /\ result' \in Handlers \cup {NULL}
    BY DEF Inv, TypeOK, Queried, Loaded, Fails, Released
  <2> QED
    BY <1>1, <2>1, <2>2, <2>3, <2>4, <2>5 DEF Inv, TypeOK
<1>4. EmptyWhileBooting'
  BY <1>1 DEF Inv, Waits, EmptyWhileBooting, Queried, Loaded, Fails
<1>5. ResultIsLatest'
  <2>1. CASE Queried(h)
    BY <1>1, <2>1 DEF Queried, Queries, Inv, Waits, ResultIsLatest
  <2>2. CASE Loaded(h)
    BY <1>1, <2>2 DEF Loaded, Inv, ResultIsLatest
  <2>3. CASE Fails(h)
    BY <2>3 DEF Fails, ResultIsLatest
  <2> QED
    BY <2>1, <2>2, <2>3
<1> QED
  BY <1>2, <1>3, <1>4, <1>5 DEF Inv, OneAtATime, Waits

LEMMA StepInv == Inv /\ [Next]_vars => Inv'
<1> SUFFICES ASSUME Inv, [Next]_vars PROVE Inv'
    OBVIOUS
<1>1. CASE UNCHANGED vars
  BY <1>1 DEF vars, lists, counters, selection, Inv, TypeOK, OneAtATime, Waits,
              EmptyWhileBooting, ResultIsLatest, Running
<1>2. ASSUME NEW h \in Handlers, Progress(h) PROVE Inv'
  BY <1>2, MoveInv, EndInv DEF Progress
<1> QED
  BY <1>1, <1>2, UserInv, ButtonsInv DEF Next

\* The invariant: the page waits for exactly the one operation that runs.
THEOREM WorkspaceCorrect == Spec => []Inv
<1> QED
  BY InitInv, StepInv, PTL DEF Spec

\* Every variable keeps its type.
THEOREM TypeCorrect == Spec => []TypeOK
<1>1. Inv => TypeOK
  BY DEF Inv
<1> QED
  BY <1>1, WorkspaceCorrect, PTL

\* The buttons' conditions never let two operations overlap.
THEOREM NoOverlap == Spec => []OneAtATime
<1>1. Inv => OneAtATime
  BY DEF Inv
<1> QED
  BY <1>1, WorkspaceCorrect, PTL

\* A result shown as a success is the last operation's.
THEOREM LatestResult == Spec => []ResultIsLatest
<1>1. Inv => ResultIsLatest
  BY DEF Inv
<1> QED
  BY <1>1, WorkspaceCorrect, PTL
-----------------------------------------------------------------------------
\* A reload that selects something selects a listed dataset.
LEMMA ReloadConsistent ==
  ASSUME Inv, NEW h \in Handlers, Loaded(h)
  PROVE  Consistent /\ ~Consistent' => NothingToSelect(h)
<1> DEFINE o == op[h]
<1>1. /\ o.datasets \in Lists /\ datasets' = o.datasets /\ o.at = "reload" /\ Running(h)
      /\ o.kind \in Kinds /\ o.sel \in Names \cup {NULL}
  BY OperationTyped DEF Inv, Loaded
<1>2. Main \in o.datasets /\ NULL \notin o.datasets
  BY <1>1, ConstantsAssumption DEF Lists
<1>3. CASE Selects(o)
  <2>1. Active(o) \in o.datasets
    BY <1>2 DEF Active
  <2>2. sel' = Active(o) /\ join' = NULL /\ order' = Columns(Active(o), NULL)
    BY <1>3 DEF Loaded
  <2> QED
    BY <1>1, <2>1, <2>2 DEF Consistent
<1>4. CASE ~Selects(o)
  <2>1. Preferred(o) \notin o.datasets /\ o.sel \in o.datasets \cup {NULL}
    BY <1>4 DEF Selects
  <2>2. o.kind = "save" => o.name \notin o.datasets
    BY <2>1 DEF Preferred
  <2>3. o.kind = "delete" => o.sel \in {NULL, o.name}
    BY <2>1 DEF Preferred
  <2> QED
    BY <1>1, <2>1, <2>2, <2>3 DEF NothingToSelect
<1> QED
  BY <1>3, <1>4

\* What the user selects and what others delete while a handler runs leaves the
\* selection consistent, except in a reload with nothing to select.
THEOREM SelectionConsistent == Spec => ConsistencyKept
<1> DEFINE Kept == Consistent => \/ Consistent'
                                 \/ \E h \in Handlers : NothingToSelect(h) /\ ~Running(h)'
<1>1. Inv /\ [Next]_vars => [Kept]_vars
  <2> SUFFICES ASSUME Inv, Next, Consistent PROVE Kept
    OBVIOUS
  <2> USE DEF lists, selection, counters, Unselected
  <2>1. datasets \subseteq Names /\ NULL \notin datasets
    BY ConstantsAssumption DEF Inv, TypeOK, Lists, Names
  <2>2. CASE SelectDataset \/ SelectJoin \/ DropJoin \/ SelectOrder
    BY <2>1, <2>2 DEF SelectDataset, Select, SelectJoin, DropJoin, SelectOrder, ActiveJoin,
       Consistent
  <2>3. ASSUME NEW h \in Handlers, Loaded(h) PROVE Kept
    BY <2>3, ReloadConsistent DEF Inv, Loaded, Finish, Running, TypeOK
  <2>4. CASE UNCHANGED <<datasets, sel, join, order>>
    BY <2>4 DEF Consistent
  <2>5. ASSUME NEW h \in Handlers, Run(h) \/ Save(h) \/ Delete(h) \/ TakesEffect(h) \/ Answered(h)
                 \/ ReadDatasets(h) \/ ReadViewTables(h) \/ Queried(h) \/ Fails(h)
        PROVE  Kept
    BY <2>4, <2>5 DEF Run, Save, Delete, Begin, TakesEffect, Answered, ReadDatasets,
       ReadViewTables, Queried, Fails, Unanswered
  <2>6. CASE RunNothing \/ OthersChange
    BY <2>4, <2>6 DEF RunNothing, OthersChange
  <2> QED
    BY <2>2, <2>3, <2>5, <2>6 DEF Next, Progress
<1> QED
  BY <1>1, WorkspaceCorrect, PTL DEF Spec, ConsistencyKept
=============================================================================
