-------------------------- MODULE ViewTablesProofs --------------------------
(***************************************************************************)
(* Theorems about ViewTables, for any requests, names and sources: a listed *)
(* view table works, no view reads one that is gone, circles arise only    *)
(* from replacements, and the requests implement Catalog.                  *)
(***************************************************************************)
EXTENDS ViewTables, TLAPS

\* What a request that waits at p, was asked for a, has written and locked in t.
SaveProgress(p, a, t) ==
  /\ a.op = "save" /\ a.name \in Names /\ a.source \in Sources
  /\ \/ p = "analyse" /\ t = NoTx
     \/ /\ t.shared = a.source.reads \cap Names
        /\ \/ p = "define" /\ t.view = Untouched /\ t.row = Untouched
           \/ p = "describe" /\ t.view = a.source /\ t.row = Untouched
           \/ p = "commit" /\ t.view = a.source /\ t.row = a.source

DeleteProgress(p, a, t) ==
  /\ a.op = "delete" /\ a.name \in Names /\ t.shared = {}
  /\ \/ p = "drop" /\ t = NoTx
     \/ p = "unlist" /\ t.view \in {Absent, Untouched} /\ t.row = Untouched
     \/ /\ p = "commit"
        /\ t.view \in {Absent, Untouched} /\ t.row \in {Absent, Untouched}
        /\ t.view = Absent => t.row = Absent \/ listed[a.name] = Absent

Progress(p, a, t) == \/ p = "idle" /\ a = Idle /\ t = NoTx
                     \/ SaveProgress(p, a, t)
                     \/ DeleteProgress(p, a, t)

\* What its statements found to hold still holds.
Permitted(a, t) ==
  /\ \A m \in t.shared : views[m] # Absent
  /\ t.view \in Sources => CanDefine(a.name, t.view)
  /\ t.view = Absent => Droppable(a.name)

\* The lock of a view written in t excludes the writes and reads of u.
Excludes(a, t, b, u) == t.view # Untouched =>
  /\ u.view # Untouched => b.name # a.name
  /\ a.name \notin u.shared

RequestsInv ==
  /\ \A r \in Requests : Progress(pc[r], req[r], tx[r])
  /\ \A r \in Requests : Permitted(req[r], tx[r])
  /\ \A r, q \in Requests : r # q => Excludes(req[r], tx[r], req[q], tx[q])

\* What is committed: only a commit can disturb it.
CommittedInv == ListedViewsWork /\ SourcesExist

Inv == TypeOK /\ RequestsInv /\ CommittedInv

LEMMA InitInv == Init => Inv
  BY ConstantsAssumption
  DEF Init, Inv, TypeOK, RequestsInv, CommittedInv, Progress, Permitted, Excludes,
      ListedViewsWork, SourcesExist, Catalogued, Reads, Idle, NoTx,
      Labels, Asked, Transactions
-----------------------------------------------------------------------------
\* A step of one request to p, a, t that commits nothing.
LEMMA QuietStep ==
  ASSUME Inv, NEW r \in Requests,
         NEW p \in Labels, NEW a \in Asked, NEW t \in Transactions,
         pc' = [pc EXCEPT ![r] = p], req' = [req EXCEPT ![r] = a],
         tx' = [tx EXCEPT ![r] = t], UNCHANGED <<views, listed, granted>>,
         Progress(p, a, t), Permitted(a, t),
         \A q \in Requests \ {r} : /\ Excludes(a, t, req[q], tx[q])
                                   /\ Excludes(req[q], tx[q], a, t)
  PROVE  Inv'
<1>1. TypeOK'
  <2>1. ASSUME NEW q \in Requests, pc'[q] = "idle"  PROVE tx'[q] = NoTx
    <3>1. CASE q = r
      BY <2>1, <3>1 DEF Progress, SaveProgress, DeleteProgress, Inv, TypeOK
    <3>2. CASE q # r
      BY <2>1, <3>2 DEF Inv, TypeOK
    <3>. QED  BY <3>1, <3>2
  <2>2. /\ pc' \in [Requests -> Labels] /\ req' \in [Requests -> Asked]
        /\ tx' \in [Requests -> Transactions]
    BY DEF Inv, TypeOK
  <2> QED BY <2>1, <2>2 DEF Inv, TypeOK
<1>2. /\ pc'[r] = p /\ req'[r] = a /\ tx'[r] = t
      /\ \A q \in Requests \ {r} : pc'[q] = pc[q] /\ req'[q] = req[q] /\ tx'[q] = tx[q]
  BY DEF Inv, TypeOK
<1>3. \A q \in Requests : Progress(pc[q], req[q], tx[q])'
  <2> TAKE q \in Requests
  <2>1. CASE q = r
    BY <1>2, <2>1 DEF Progress, SaveProgress, DeleteProgress
  <2>2. CASE q # r
    <3>1. Progress(pc[q], req[q], tx[q])
      BY DEF Inv, RequestsInv
    <3> QED
      BY <1>2, <2>2, <3>1 DEF Progress, SaveProgress, DeleteProgress
  <2> QED
    BY <2>1, <2>2
<1>4. \A q \in Requests : Permitted(req[q], tx[q])'
  <2> TAKE q \in Requests
  <2>1. Permitted(req'[q], tx'[q])
    BY <1>2 DEF Inv, RequestsInv
  <2> QED
    BY <2>1 DEF Permitted, CanDefine, Droppable
<1>5. \A q, s \in Requests : q # s => Excludes(req'[q], tx'[q], req'[s], tx'[s])
  BY <1>2 DEF Inv, RequestsInv
<1>6. CommittedInv'
  BY DEF Inv, CommittedInv, ListedViewsWork, SourcesExist, Catalogued, Reads
<1> QED
  BY <1>1, <1>3, <1>4, <1>5, <1>6 DEF Inv, RequestsInv, Excludes

\* A request that holds nothing is in nobody's way.
LEMMA NothingHeld ==
  ASSUME Inv, NEW r \in Requests, NEW a \in Asked
  PROVE  /\ Permitted(a, NoTx)
         /\ \A q \in Requests \ {r} : /\ Excludes(a, NoTx, req[q], tx[q])
                                      /\ Excludes(req[q], tx[q], a, NoTx)
  BY ConstantsAssumption DEF Permitted, Excludes, NoTx

LEMMA NoTxType == NoTx \in Transactions /\ Idle \in Asked
  BY DEF NoTx, Idle, Transactions, Asked

LEMMA StartSaveInv ==
  ASSUME Inv, NEW r \in Requests, NEW n \in Names, NEW s \in Sources, StartSave(r, n, s)
  PROVE  Inv'
<1> DEFINE a == [op |-> "save", name |-> n, source |-> s]
<1>1. tx[r] = NoTx
  BY DEF Inv, RequestsInv, Progress, SaveProgress, DeleteProgress, StartSave
<1>2. tx' = [tx EXCEPT ![r] = NoTx]
  BY <1>1 DEF Inv, TypeOK, StartSave
<1>3. Progress("analyse", a, NoTx)
  BY DEF Progress, SaveProgress
<1>4. a \in Asked /\ "analyse" \in Labels
  BY DEF Asked, Labels
<1> QED
  BY <1>2, <1>3, <1>4, NothingHeld, NoTxType, QuietStep DEF StartSave, Goto

LEMMA StartDeleteInv ==
  ASSUME Inv, NEW r \in Requests, NEW n \in Names, StartDelete(r, n)
  PROVE  Inv'
<1> DEFINE a == [op |-> "delete", name |-> n, source |-> Absent]
<1>1. tx[r] = NoTx
  BY DEF Inv, RequestsInv, Progress, SaveProgress, DeleteProgress, StartDelete
<1>2. tx' = [tx EXCEPT ![r] = NoTx]
  BY <1>1 DEF Inv, TypeOK, StartDelete
<1>3. Progress("drop", a, NoTx)
  BY DEF Progress, DeleteProgress, NoTx
<1>4. a \in Asked /\ "drop" \in Labels
  BY DEF Asked, Labels
<1> QED
  BY <1>2, <1>3, <1>4, NothingHeld, NoTxType, QuietStep DEF StartDelete, Goto

\* A failed request leaves the database as it was.
LEMMA FailureInv ==
  ASSUME Inv, NEW r \in Requests, StatementFails(r) \/ DatabaseRaises(r)
  PROVE  Inv'
<1>1. Progress("idle", Idle, NoTx) /\ "idle" \in Labels
  BY DEF Progress, Labels
<1> QED
  BY <1>1, NothingHeld, NoTxType, QuietStep
  DEF StatementFails, DatabaseRaises, Rollback, Answer

\* What a request's transaction becomes has its type.
LEMMA RequestTypes ==
  ASSUME Inv, NEW r \in Requests
  PROVE  /\ req[r] \in Asked /\ tx[r] \in Transactions
         /\ req' = req => req' = [req EXCEPT ![r] = req[r]]
         /\ tx' = tx => tx' = [tx EXCEPT ![r] = tx[r]]
  BY DEF Inv, TypeOK

\* CREATE OR REPLACE VIEW locks what it reads.
LEMMA AnalyseInv ==
  ASSUME Inv, NEW r \in Requests, Analyse(r)
  PROVE  Inv'
<1> DEFINE t == [tx[r] EXCEPT !.shared = req[r].source.reads \cap Names]
<1>1. SaveProgress("analyse", req[r], tx[r])
  BY DEF Inv, RequestsInv, Progress, SaveProgress, DeleteProgress, Analyse
<1>2. tx' = [tx EXCEPT ![r] = t] /\ t \in Transactions
  BY RequestTypes DEF Analyse, Transactions
<1>3. Progress("define", req[r], t) /\ "define" \in Labels
  BY <1>1, RequestTypes DEF Progress, SaveProgress, NoTx, Labels, Transactions
<1>4. Permitted(req[r], t)
  BY <1>1, ConstantsAssumption DEF Permitted, SaveProgress, NoTx, Analyse
<1>5. ASSUME NEW q \in Requests \ {r}
      PROVE  Excludes(req[r], t, req[q], tx[q]) /\ Excludes(req[q], tx[q], req[r], t)
  BY <1>1 DEF Excludes, SaveProgress, NoTx, Analyse, ViewHolders
<1> QED
  BY <1>2, <1>3, <1>4, <1>5, RequestTypes, QuietStep DEF Analyse, Goto

\* ... and the view it defines.
LEMMA DefineInv ==
  ASSUME Inv, NEW r \in Requests, Define(r)
  PROVE  Inv'
<1> DEFINE t == [tx[r] EXCEPT !.view = req[r].source]
<1>1. SaveProgress("define", req[r], tx[r])
  BY DEF Inv, RequestsInv, Progress, SaveProgress, DeleteProgress, Define
<1>2. tx' = [tx EXCEPT ![r] = t] /\ t \in Transactions
  BY <1>1, RequestTypes DEF Define, SaveProgress, Transactions
<1>3. Progress("describe", req[r], t) /\ "describe" \in Labels
  BY <1>1, RequestTypes DEF Progress, SaveProgress, Labels, Transactions
<1>4. Permitted(req[r], t)
  <2>1. Permitted(req[r], tx[r])
    BY DEF Inv, RequestsInv
  <2> QED
    BY <1>1, <2>1, RequestTypes, ConstantsAssumption
    DEF Permitted, SaveProgress, Define, Transactions
<1>5. ASSUME NEW q \in Requests \ {r}
      PROVE  Excludes(req[r], t, req[q], tx[q]) /\ Excludes(req[q], tx[q], req[r], t)
  <2>1. Excludes(req[q], tx[q], req[r], tx[r])
    BY DEF Inv, RequestsInv
  <2> QED
    BY <2>1, RequestTypes DEF Excludes, Define, ViewHolders, ReadHolders, Transactions
<1> QED
  BY <1>2, <1>3, <1>4, <1>5, RequestTypes, QuietStep DEF Define, Goto

\* The metadata row is written.
LEMMA DescribeInv ==
  ASSUME Inv, NEW r \in Requests, Describe(r)
  PROVE  Inv'
<1> DEFINE t == [tx[r] EXCEPT !.row = req[r].source]
<1>1. SaveProgress("describe", req[r], tx[r])
  BY DEF Inv, RequestsInv, Progress, SaveProgress, DeleteProgress, Describe
<1>2. tx' = [tx EXCEPT ![r] = t] /\ t \in Transactions
  BY <1>1, RequestTypes DEF Describe, SaveProgress, Transactions, UpsertedRow
<1>3. Progress("commit", req[r], t) /\ "commit" \in Labels
  BY <1>1, RequestTypes DEF Progress, SaveProgress, Labels, Transactions
<1>4. t.view = tx[r].view /\ t.shared = tx[r].shared
  BY RequestTypes DEF Transactions
<1>5. Permitted(req[r], t) /\ \A q \in Requests \ {r} :
        Excludes(req[r], t, req[q], tx[q]) /\ Excludes(req[q], tx[q], req[r], t)
  BY <1>4 DEF Inv, RequestsInv, Permitted, Excludes
<1> QED
  BY <1>2, <1>3, <1>5, RequestTypes, QuietStep DEF Describe, Goto

\* DROP VIEW, of a view or of nothing.
LEMMA DropInv ==
  ASSUME Inv, NEW r \in Requests, Drop(r) \/ DropNothing(r)
  PROVE  Inv'
<1> DEFINE t == [tx[r] EXCEPT !.view = Absent]
<1>1. DeleteProgress("drop", req[r], tx[r])
  BY DEF Inv, RequestsInv, Progress, SaveProgress, DeleteProgress, Drop, DropNothing
<1>2. CASE Drop(r)
  <2>1. tx' = [tx EXCEPT ![r] = t] /\ t \in Transactions
    BY <1>2, RequestTypes DEF Drop, Transactions
  <2>2. Progress("unlist", req[r], t) /\ "unlist" \in Labels
    BY <1>1, RequestTypes DEF Progress, DeleteProgress, NoTx, Labels, Transactions
  <2>3. Permitted(req[r], t)
    BY <1>1, <1>2, ConstantsAssumption DEF Permitted, DeleteProgress, NoTx, Drop
  <2>4. ASSUME NEW q \in Requests \ {r}
        PROVE  Excludes(req[r], t, req[q], tx[q]) /\ Excludes(req[q], tx[q], req[r], t)
    BY <1>1, <1>2 DEF Excludes, DeleteProgress, NoTx, Drop, ViewHolders, ReadHolders
  <2> QED
    BY <1>2, <2>1, <2>2, <2>3, <2>4, RequestTypes, QuietStep DEF Drop, Goto
<1>3. CASE DropNothing(r)
  <2>1. Progress("unlist", req[r], tx[r]) /\ "unlist" \in Labels
    BY <1>1 DEF Progress, DeleteProgress, NoTx, Labels
  <2> QED
    BY <1>3, <2>1, RequestTypes, QuietStep DEF DropNothing, Goto, Inv, RequestsInv
<1> QED
  BY <1>2, <1>3

\* The metadata row is deleted, if there is one.
LEMMA UnlistInv ==
  ASSUME Inv, NEW r \in Requests, Unlist(r)
  PROVE  Inv'
<1> DEFINE t == [tx[r] EXCEPT !.row = Absent]
<1>1. DeleteProgress("unlist", req[r], tx[r])
  BY DEF Inv, RequestsInv, Progress, SaveProgress, DeleteProgress, Unlist
<1>2. CASE listed[req[r].name] = Absent
  <2>1. Progress("commit", req[r], tx[r]) /\ "commit" \in Labels
    BY <1>1, <1>2 DEF Progress, DeleteProgress, Labels
  <2> QED
    BY <1>2, <2>1, RequestTypes, QuietStep DEF Unlist, Goto, Inv, RequestsInv
<1>3. CASE listed[req[r].name] # Absent
  <2>1. tx' = [tx EXCEPT ![r] = t] /\ t \in Transactions
    BY <1>3, RequestTypes DEF Unlist, Transactions
  <2>2. Progress("commit", req[r], t) /\ "commit" \in Labels
    BY <1>1, RequestTypes DEF Progress, DeleteProgress, Labels, Transactions
  <2>3. t.view = tx[r].view /\ t.shared = tx[r].shared
    BY RequestTypes DEF Transactions
  <2>4. Permitted(req[r], t) /\ \A q \in Requests \ {r} :
          Excludes(req[r], t, req[q], tx[q]) /\ Excludes(req[q], tx[q], req[r], t)
    BY <2>3 DEF Inv, RequestsInv, Permitted, Excludes
  <2> QED
    BY <2>1, <2>2, <2>4, RequestTypes, QuietStep DEF Unlist, Goto
<1> QED
  BY <1>2, <1>3
-----------------------------------------------------------------------------
\* What a commit does, by what the transaction is: a saved view, a dropped view,
\* or, when there was no view to drop, at most a deleted row.
LEMMA CommitCases ==
  ASSUME Inv, NEW r \in Requests, Commit(r)
  PROVE  LET n == req[r].name
             s == req[r].source
         IN /\ n \in Names
            /\ \/ /\ SaveProgress("commit", req[r], tx[r])
                  /\ views' = [views EXCEPT ![n] = s]
                  /\ listed' = [listed EXCEPT ![n] = s]
                  /\ granted' = granted \cup {n}
               \/ /\ tx[r].view = Absent /\ tx[r].shared = {}
                  /\ views' = [views EXCEPT ![n] = Absent]
                  /\ listed' = [listed EXCEPT ![n] = Absent]
                  /\ granted' = granted \ {n}
               \/ /\ tx[r].view = Untouched /\ tx[r].shared = {}
                  /\ UNCHANGED <<views, granted>>
                  /\ listed' \in {listed, [listed EXCEPT ![n] = Absent]}
<1>1. SaveProgress("commit", req[r], tx[r]) \/ DeleteProgress("commit", req[r], tx[r])
  BY DEF Inv, RequestsInv, Progress, SaveProgress, DeleteProgress, Commit
<1>2. CASE SaveProgress("commit", req[r], tx[r])
  BY <1>2, ConstantsAssumption DEF SaveProgress, Commit, Applied
<1>3. CASE DeleteProgress("commit", req[r], tx[r])
  <2>1. req[r].name \in Names /\ tx[r].shared = {}
    BY <1>3 DEF DeleteProgress
  <2>2. CASE tx[r].view = Absent
    <3>1. /\ views' = [views EXCEPT ![req[r].name] = Absent]
          /\ granted' = granted \ {req[r].name}
      BY <2>2, ConstantsAssumption DEF Commit, Applied
    <3>2. listed' = [listed EXCEPT ![req[r].name] = Absent]
      BY <1>3, <2>1, <2>2, ConstantsAssumption DEF DeleteProgress, Commit, Applied, Inv, TypeOK
    <3> QED
      BY <2>1, <2>2, <3>1, <3>2
  <2>3. CASE tx[r].view = Untouched
    BY <1>3, <2>1, <2>3, ConstantsAssumption DEF DeleteProgress, Commit, Applied, Inv, TypeOK
  <2> QED
    BY <1>3, <2>2, <2>3 DEF DeleteProgress
<1> QED
  BY <1>1, <1>2, <1>3

\* The other transactions are not disturbed by a commit: they neither read nor
\* wrote a view it defines or drops.
LEMMA CommitRequestsInv ==
  ASSUME Inv, NEW r \in Requests, Commit(r)
  PROVE  RequestsInv'
<1> DEFINE n == req[r].name
<1>1. /\ pc'[r] = "idle" /\ req'[r] = Idle /\ tx'[r] = NoTx
      /\ \A q \in Requests \ {r} : pc'[q] = pc[q] /\ req'[q] = req[q] /\ tx'[q] = tx[q]
  BY DEF Inv, TypeOK, Commit, Answer
<1>2. n \in Names /\ \A m \in Names \ {n} : views'[m] = views[m] /\ listed'[m] = listed[m]
  BY CommitCases DEF Inv, TypeOK
<1>3. tx[r].view = Untouched => views' = views /\ listed'[n] \in {listed[n], Absent}
  BY CommitCases, ConstantsAssumption DEF Inv, TypeOK, SaveProgress
<1>4. \A q \in Requests : Progress(pc[q], req[q], tx[q])'
  <2> TAKE q \in Requests
  <2>1. CASE q = r
    BY <1>1, <2>1 DEF Progress
  <2>2. CASE q # r
    <3>1. Progress(pc[q], req[q], tx[q])
      BY DEF Inv, RequestsInv
    <3>2. ASSUME DeleteProgress("commit", req[q], tx[q]), tx[q].view = Absent,
                 listed[req[q].name] = Absent
          PROVE  listed'[req[q].name] = Absent
      <4>1. CASE req[q].name # n
        BY <1>2, <3>2, <4>1 DEF DeleteProgress
      <4>2. CASE req[q].name = n
        <5>1. tx[r].view = Untouched
          BY <2>2, <3>2, <4>2, ConstantsAssumption DEF Inv, RequestsInv, Excludes
        <5> QED
          BY <1>3, <3>2, <4>2, <5>1
      <4> QED
        BY <4>1, <4>2
    <3> QED
      BY <1>1, <2>2, <3>1, <3>2 DEF Progress, SaveProgress, DeleteProgress
  <2> QED
    BY <2>1, <2>2
<1>5. \A q \in Requests : Permitted(req[q], tx[q])'
  <2> TAKE q \in Requests
  <2>1. CASE q = r
    BY <1>1, <2>1, ConstantsAssumption DEF Permitted, NoTx
  <2>2. CASE q # r
    <3>1. Permitted(req[q], tx[q]) /\ req'[q] = req[q] /\ tx'[q] = tx[q]
      BY <1>1, <2>2 DEF Inv, RequestsInv
    <3>2. CASE tx[r].view = Untouched
      BY <1>3, <3>1, <3>2 DEF Permitted, CanDefine, Droppable
    <3>3. CASE tx[r].view # Untouched
      <4>1. n \notin tx[q].shared /\ (tx[q].view # Untouched => req[q].name # n)
        BY <2>2, <3>3 DEF Inv, RequestsInv, Excludes
      <4>2. \A m \in tx[q].shared : m \in Names /\ views'[m] # Absent
        BY <1>2, <3>1, <4>1 DEF Permitted, Inv, TypeOK, Transactions
      <4>3. tx[q].view \in Sources => CanDefine(req[q].name, tx[q].view)'
        <5>1. HAVE tx[q].view \in Sources
        <5>2. req[q].name \in Names \ {n}
          BY <4>1, <5>1, ConstantsAssumption
          DEF Inv, RequestsInv, Progress, SaveProgress, DeleteProgress, NoTx
        <5> QED
          BY <1>2, <3>1, <5>1, <5>2 DEF Permitted, CanDefine
      <4>4. tx[q].view = Absent => Droppable(req[q].name)'
        <5>1. HAVE tx[q].view = Absent
        <5>2. Droppable(req[q].name) /\ n \in Names
          BY <1>2, <3>1, <5>1 DEF Permitted
        <5>3. views'[n] # Absent => req[q].name \notin views'[n].reads
          <6>1. HAVE views'[n] # Absent
          <6>2. /\ views'[n] = req[r].source
                /\ tx[r].shared = req[r].source.reads \cap Names
            BY <3>3, <6>1, CommitCases DEF Inv, TypeOK, SaveProgress
          <6>3. req[q].name \notin tx[r].shared
            BY <2>2, <5>1, ConstantsAssumption DEF Inv, RequestsInv, Excludes
          <6>4. req[q].name \in Names
            BY <5>1, ConstantsAssumption
            DEF Inv, RequestsInv, Progress, SaveProgress, DeleteProgress, NoTx
          <6> QED
            BY <6>2, <6>3, <6>4
        <5> QED
          BY <1>2, <3>1, <5>2, <5>3 DEF Droppable
      <4> QED
        BY <3>1, <4>2, <4>3, <4>4 DEF Permitted
    <3> QED
      BY <3>2, <3>3
  <2> QED
    BY <2>1, <2>2
<1>6. \A q, s \in Requests : q # s => Excludes(req'[q], tx'[q], req'[s], tx'[s])
  <2> TAKE q, s \in Requests
  <2> HAVE q # s
  <2>1. CASE q = r \/ s = r
    BY <1>1, <2>1 DEF Excludes, NoTx
  <2>2. CASE q # r /\ s # r
    BY <1>1, <2>2 DEF Inv, RequestsInv
  <2> QED
    BY <2>1, <2>2
<1> QED
  BY <1>4, <1>5, <1>6 DEF RequestsInv, Excludes

\* The committed catalog stays consistent.
LEMMA CommitCommittedInv ==
  ASSUME Inv, NEW r \in Requests, Commit(r)
  PROVE  CommittedInv'
<1> DEFINE n == req[r].name  s == req[r].source
<1>1. CASE /\ SaveProgress("commit", req[r], tx[r])
           /\ views' = [views EXCEPT ![n] = s] /\ listed' = [listed EXCEPT ![n] = s]
           /\ granted' = granted \cup {n}
  <2>1. \A m \in s.reads \cap Names : views[m] # Absent
    BY <1>1 DEF SaveProgress, Inv, RequestsInv, Permitted
  <2>2. s # Absent /\ n \in Names
    BY <1>1, ConstantsAssumption DEF SaveProgress
  <2>3. SourcesExist'
    BY <1>1, <2>1, <2>2 DEF Inv, TypeOK, CommittedInv, SourcesExist, Reads
  <2>4. ListedViewsWork'
    BY <1>1, <2>2 DEF Inv, TypeOK, CommittedInv, ListedViewsWork, Catalogued
  <2> QED
    BY <2>3, <2>4 DEF CommittedInv
<1>2. CASE /\ tx[r].view = Absent
           /\ views' = [views EXCEPT ![n] = Absent] /\ listed' = [listed EXCEPT ![n] = Absent]
           /\ granted' = granted \ {n}
  <2>1. Droppable(n) /\ n \in Names
    BY <1>2, CommitCases DEF Inv, RequestsInv, Permitted
  <2>2. SourcesExist'
    BY <1>2, <2>1 DEF Inv, TypeOK, CommittedInv, SourcesExist, Reads, Droppable
  <2>3. ListedViewsWork'
    BY <1>2, <2>1 DEF Inv, TypeOK, CommittedInv, ListedViewsWork, Catalogued
  <2> QED
    BY <2>2, <2>3 DEF CommittedInv
<1>3. CASE /\ UNCHANGED <<views, granted>>
           /\ listed' \in {listed, [listed EXCEPT ![n] = Absent]}
  <2>1. \A m \in Names : listed'[m] \in {listed[m], Absent}
    BY <1>3 DEF Inv, TypeOK
  <2> QED
    BY <1>3, <2>1 DEF Inv, TypeOK, CommittedInv, ListedViewsWork, SourcesExist, Catalogued, Reads
<1> QED
  BY <1>1, <1>2, <1>3, CommitCases

LEMMA CommitInv ==
  ASSUME Inv, NEW r \in Requests, Commit(r)
  PROVE  Inv'
<1>1. pc' \in [Requests -> Labels] /\ req' \in [Requests -> Asked]
      /\ tx' \in [Requests -> Transactions]
  BY NoTxType DEF Inv, TypeOK, Commit, Answer, Labels
<1>2. /\ views' \in [Names -> Sources \cup {Absent}]
      /\ listed' \in [Names -> Sources \cup {Absent}]
      /\ granted' \subseteq Names
  BY CommitCases DEF Inv, TypeOK, SaveProgress
<1>3. \A q \in Requests : pc'[q] = "idle" => tx'[q] = NoTx
  BY DEF Inv, TypeOK, Commit, Answer
<1> QED
  BY <1>1, <1>2, <1>3, CommitRequestsInv, CommitCommittedInv DEF Inv, TypeOK

LEMMA StepInv == Inv /\ [Next]_vars => Inv'
<1> SUFFICES ASSUME Inv, [Next]_vars PROVE Inv'
  OBVIOUS
<1>1. ASSUME NEW r \in Requests, Step(r) PROVE Inv'
  BY <1>1, AnalyseInv, DefineInv, DescribeInv, DropInv, UnlistInv, CommitInv, FailureInv
  DEF Step
<1>2. CASE UNCHANGED vars
  BY <1>2 DEF vars, Inv, TypeOK, RequestsInv, CommittedInv, Progress, SaveProgress,
     DeleteProgress, Permitted, Excludes, CanDefine, Droppable, ListedViewsWork,
     SourcesExist, Catalogued, Reads
<1> QED
  BY <1>1, <1>2, StartSaveInv, StartDeleteInv, FailureInv DEF Next
-----------------------------------------------------------------------------
\* The inductive invariant: how far each request got, what its locks exclude
\* and what its statements may still rely on.
THEOREM ViewTablesCorrect == Spec => []Inv
<1>1. Init => Inv
  BY InitInv
<1>2. Inv /\ [Next]_vars => Inv'
  BY StepInv
<1> QED
  BY <1>1, <1>2, PTL DEF Spec

\* Every variable keeps its type.
THEOREM TypeCorrect == Spec => []TypeOK
  BY ViewTablesCorrect, PTL DEF Inv

\* A listed view table exists, is defined by the SELECT it is listed with and may
\* be read, under any number of concurrent saves and deletes.
THEOREM ListedWork == Spec => []ListedViewsWork
  BY ViewTablesCorrect, PTL DEF Inv, CommittedInv

\* No saved view reads one that was dropped, however old the allow-list was that
\* its source was checked against.
THEOREM NoDanglingSource == Spec => []SourcesExist
  BY ViewTablesCorrect, PTL DEF Inv, CommittedInv

\* A step of a request other than a commit leaves the catalog alone.
LEMMA OnlyCommits ==
  ASSUME [Next]_vars
  PROVE  \/ UNCHANGED <<views, listed, granted>>
         \/ \E r \in Requests : Commit(r)
  BY DEF Next, Step, vars, StartSave, StartDelete, Analyse, Define, Describe, Drop,
         DropNothing, Unlist, StatementFails, DatabaseRaises

\* A new view closes no circle, because nobody reads a name before it exists.
LEMMA NewViewClosesNoCircle ==
  ASSUME Inv, NEW n \in Names, NEW s, n \notin s.reads,
         views[n] = Absent, views' = [views EXCEPT ![n] = s], SomeCircle'
  PROVE  SomeCircle
<1>1. PICK S \in SUBSET Names : Circular(S)'
  BY DEF SomeCircle
<1>2. \A m \in Names \ {n} : Reads(m)' = Reads(m) /\ n \notin Reads(m)
  BY DEF Inv, TypeOK, CommittedInv, SourcesExist, Reads
<1>3. n \notin Reads(n)'
  BY DEF Inv, TypeOK, Reads
<1>4. S \ {n} # {}
  BY <1>1, <1>3 DEF Circular
<1>5. Circular(S \ {n})
  BY <1>1, <1>2, <1>4 DEF Circular
<1> QED
  BY <1>5 DEF SomeCircle

\* Views read each other in a circle only after a view was replaced.
THEOREM CirclesNeedReplacement == Spec => CirclesOnlyByReplacement
<1> DEFINE Replaced == \E n \in Names : /\ Absent \notin {views[n], views'[n]}
                                        /\ views'[n] # views[n]
<1>1. Inv /\ [Next]_vars => [SomeCircle' => SomeCircle \/ Replaced]_vars
  <2> SUFFICES ASSUME Inv, [Next]_vars, SomeCircle', ~Replaced
               PROVE  SomeCircle
    OBVIOUS
  <2>1. CASE UNCHANGED views
    BY <2>1 DEF SomeCircle, Circular, Reads
  <2>2. ASSUME NEW r \in Requests, Commit(r), views' # views
        PROVE  SomeCircle
    <3> DEFINE s == req[r].source
    <3>1. PICK n \in Names : n = req[r].name
      BY <2>2, CommitCases
    <3>2. CASE views' = [views EXCEPT ![n] = Absent]
      <4>1. PICK S \in SUBSET Names : Circular(S)'
        BY DEF SomeCircle
      <4>2. Reads(n)' = {} /\ \A m \in Names \ {n} : Reads(m)' = Reads(m)
        BY <3>1, <3>2 DEF Inv, TypeOK, Reads
      <4>3. Circular(S)
        BY <4>1, <4>2 DEF Circular
      <4> QED
        BY <4>3 DEF SomeCircle
    <3>3. CASE SaveProgress("commit", req[r], tx[r]) /\ views' = [views EXCEPT ![n] = s]
      <4>1. s \in Sources /\ s # Absent /\ tx[r].shared = s.reads \cap Names
        BY <3>3, ConstantsAssumption DEF SaveProgress
      <4>2. views[n] = Absent
        BY <2>2, <3>1, <3>3, <4>1 DEF Inv, TypeOK
      <4>3. n \notin s.reads
        BY <3>1, <4>1, <4>2 DEF Inv, RequestsInv, Permitted
      <4> QED
        BY <3>1, <3>3, <4>2, <4>3, NewViewClosesNoCircle
    <3> QED
      BY <2>2, <3>1, <3>2, <3>3, CommitCases
  <2> QED
    BY <2>1, <2>2, OnlyCommits
<1> QED
  BY <1>1, ViewTablesCorrect, PTL DEF Spec, CirclesOnlyByReplacement

\* Saving and deleting view tables implements the catalog: each commit is one of
\* its steps.
THEOREM RequestsImplementCatalog == Spec => ImplementsCatalog
<1>1. Init => C!Init
  BY DEF Init, C!Init
<1>2. Inv /\ [Next]_vars => [C!Next]_C!catalogVars
  <2> SUFFICES ASSUME Inv, [Next]_vars PROVE C!Next \/ UNCHANGED C!catalogVars
    OBVIOUS
  <2>1. CASE UNCHANGED <<views, listed, granted>>
    BY <2>1 DEF C!catalogVars
  <2>2. ASSUME NEW r \in Requests, Commit(r)
        PROVE  C!Next \/ UNCHANGED C!catalogVars
    <3> DEFINE n == req[r].name  s == req[r].source
    <3>1. n \in Names /\ Permitted(req[r], tx[r])
      BY <2>2, CommitCases DEF Inv, RequestsInv
    <3>2. CASE /\ SaveProgress("commit", req[r], tx[r])
               /\ views' = [views EXCEPT ![n] = s] /\ listed' = [listed EXCEPT ![n] = s]
      <4>1. s \in Sources /\ s.reads \subseteq C!Readable
        BY <3>1, <3>2, ConstantsAssumption
        DEF SaveProgress, Permitted, C!Readable, Bases
      <4>2. views[n] # Absent => C!IsPrefix(views[n].columns, s.columns)
        BY <3>1, <3>2 DEF SaveProgress, Permitted, CanDefine, IsPrefix, C!IsPrefix
      <4> QED
        BY <3>1, <3>2, <4>1, <4>2 DEF C!Next, C!Save
    <3>3. CASE /\ tx[r].view = Absent
               /\ views' = [views EXCEPT ![n] = Absent]
               /\ listed' = [listed EXCEPT ![n] = Absent]
      BY <3>1, <3>3 DEF C!Next, C!Delete, Permitted, Droppable
    <3>4. CASE UNCHANGED views /\ listed' \in {listed, [listed EXCEPT ![n] = Absent]}
      BY <3>1, <3>4 DEF C!Next, C!Forget, C!catalogVars
    <3> QED
      BY <2>2, <3>2, <3>3, <3>4, CommitCases
  <2> QED
    BY <2>1, <2>2, OnlyCommits
<1> QED
  BY <1>1, <1>2, ViewTablesCorrect, PTL DEF Spec, ImplementsCatalog, C!CatalogSpec
=============================================================================
