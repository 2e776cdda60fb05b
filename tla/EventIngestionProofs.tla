------------------------ MODULE EventIngestionProofs ------------------------
(***************************************************************************)
(* Proofs about EventIngestion for every value of its constants: type      *)
(* correctness, the acknowledgement rule, that no event is lost between    *)
(* the cursor and the pending list, that rows never change, and that the   *)
(* pipeline implements EventDelivery.                                      *)
(***************************************************************************)
EXTENDS EventIngestion, FiniteSetTheorems, WellFoundedInduction, TLAPS

-----------------------------------------------------------------------------
(* Operators *)

\* First(S), the row ON CONFLICT DO NOTHING keeps, is one of the candidates.
LEMMA FirstIsLeast ==
  ASSUME NEW S, S \subseteq Nat, S # {}
  PROVE  First(S) \in S /\ \A j \in S : First(S) <= j
<1>. DEFINE R == {ss \in Nat \X Nat : ss[1] < ss[2]}
<1>1. IsWellFoundedOn(R, Nat)
  BY NatLessThanWellFounded DEF OpToRel
<1>2. PICK m \in S : \A y \in S : ~ (<<y, m>> \in R)
  <2>. HIDE DEF R
  <2>. QED  BY <1>1, WFMin
<1>3. ASSUME NEW y \in S, y < m  PROVE FALSE
  <2>1. y \in Nat /\ m \in Nat
    OBVIOUS
  <2>2. <<y, m>> \in R
    BY <1>3, <2>1
  <2>. QED  BY <1>2, <2>2
<1>4. \A y \in S : m <= y
  BY <1>3
<1>. QED  BY <1>4 DEF First

LEMMA FirstIsMember ==
  ASSUME NEW S, S \subseteq Nat, S # {}
  PROVE  First(S) \in S
  BY FirstIsLeast

\* A batch of the oldest entries of S leaves behind only entries newer than
\* every entry of the batch.
LEMMA OldestIsPrefix ==
  ASSUME NEW S, S \subseteq Nat, IsFiniteSet(S), NEW n \in Nat,
         NEW last \in Oldest(S, n), NEW i \in S, i <= last
  PROVE  i \in Oldest(S, n)
<1>. DEFINE Below(k) == {j \in S : j < k}
<1>. last \in S
  BY DEF Oldest
<1>1. Below(last) \subseteq S /\ Below(i) \subseteq Below(last)
  <2>1. i \in Nat /\ last \in Nat
    OBVIOUS
  <2>2. ASSUME NEW j \in Below(i)  PROVE j \in Below(last)
    BY <2>1
  <2>. QED  BY <2>2
<1>2. IsFiniteSet(Below(last)) /\ IsFiniteSet(Below(i))
  BY <1>1, FS_Subset
<1>3. Cardinality(Below(i)) <= Cardinality(Below(last))
  BY <1>1, <1>2, FS_Subset
<1>4. Cardinality(Below(last)) < n
  BY DEF Oldest
<1>5. Cardinality(Below(i)) \in Nat /\ Cardinality(Below(last)) \in Nat
  BY <1>2, FS_CardinalityType
<1>6. Cardinality(Below(i)) < n
  <2>. HIDE DEF Below
  <2>. QED  BY <1>3, <1>4, <1>5
<1>. QED  BY <1>6 DEF Oldest

\* What InsertInto returns for entries of the history: every old row as it was,
\* and a row for the event of every entry.
LEMMA InsertIntoFacts ==
  ASSUME TypeOK, NEW S, S \subseteq Ids, \A i \in S : published[i] \in Valid
  PROVE  /\ InsertInto(S) \in [EventId -> Payload \cup {NULL}]
         /\ \A e \in EventId : rows[e] # NULL => InsertInto(S)[e] = rows[e]
         /\ \A i \in S : InsertInto(S)[Event(i)] # NULL
<1>. USE ConstantsAssumption
<1>1. S \subseteq Nat /\ \A i \in S : published[i] \in Payload
  BY DEF TypeOK, Ids
<1>2. ASSUME NEW e \in EventId, Candidates(S, e) # {}
      PROVE  published[First(Candidates(S, e))] \in Payload
  <2>1. Candidates(S, e) \subseteq S
    BY DEF Candidates
  <2>2. First(Candidates(S, e)) \in S
    BY <1>1, <1>2, <2>1, FirstIsMember
  <2>. QED  BY <1>1, <2>2
<1>3. InsertInto(S) \in [EventId -> Payload \cup {NULL}]
  BY <1>2 DEF InsertInto, TypeOK
<1>4. \A e \in EventId : rows[e] # NULL => InsertInto(S)[e] = rows[e]
  BY DEF InsertInto
<1>5. ASSUME NEW i \in S  PROVE InsertInto(S)[Event(i)] # NULL
  <2>1. Event(i) \in EventId
    BY DEF Event
  <2>2. i \in Candidates(S, Event(i))
    BY DEF Candidates
  <2>. QED  BY <1>2, <2>1, <2>2 DEF InsertInto
<1>. QED  BY <1>3, <1>4, <1>5

-----------------------------------------------------------------------------
(* Type correctness *)

LEMMA TypeInit == Init => TypeOK
<1>. SUFFICES ASSUME Init  PROVE TypeOK
  OBVIOUS
<1>. USE ConstantsAssumption DEF Init
<1>1. published \in Seq(Payload) /\ Len(published) = 0
  OBVIOUS
<1>2. rdb \in [stream: SUBSET Ids, group: BOOLEAN,
               cursor: 0 .. Len(published), pel: SUBSET Ids]
  BY <1>1
<1>3. stream \subseteq Ids /\ pel \subseteq Ids /\ acked \subseteq Ids /\ evicted \subseteq Ids
  OBVIOUS
<1>4. cursor \in 0 .. Len(published)
  BY <1>1
<1>5. pc \in [Procs -> Labels]
  BY DEF Labels
<1>6. batch \in [Procs -> SUBSET Ids] /\ nil \in [Procs -> SUBSET Ids]
  OBVIOUS
<1>7. crashes \in 0 .. MaxCrashes /\ redisRestarts \in 0 .. MaxRedisRestarts
  OBVIOUS
<1>8. stop \in [Procs -> BOOLEAN] /\ sent \in [Procs -> 0 .. Resends]
  OBVIOUS
<1>. QED  BY <1>1, <1>2, <1>3, <1>4, <1>5, <1>6, <1>7, <1>8 DEF TypeOK

\* How a step that gives up or finishes an iteration changes the task.
LEMMA NextIterationType ==
  ASSUME TypeOK, NEW p \in Procs, NEW ready \in BOOLEAN, NextIteration(p, ready)
  PROVE  /\ pc' \in [Procs -> Labels] /\ groupReady' \in [Procs -> BOOLEAN]
         /\ batch' \in [Procs -> SUBSET Ids] /\ nil' \in [Procs -> SUBSET Ids]
         /\ stop' \in [Procs -> BOOLEAN] /\ sent' \in [Procs -> 0 .. Resends]
  BY ConstantsAssumption DEF NextIteration, LoopHead, TypeOK, Labels, Awaits

LEMMA EnterBackoffType ==
  ASSUME TypeOK, NEW p \in Procs, NEW ready \in BOOLEAN, EnterBackoff(p, ready)
  PROVE  /\ pc' \in [Procs -> Labels] /\ groupReady' \in [Procs -> BOOLEAN]
         /\ batch' \in [Procs -> SUBSET Ids] /\ nil' \in [Procs -> SUBSET Ids]
         /\ stop' \in [Procs -> BOOLEAN] /\ sent' \in [Procs -> 0 .. Resends]
  BY ConstantsAssumption DEF EnterBackoff, TypeOK, Labels, Awaits

LEMMA TakeBatchType ==
  ASSUME TypeOK, NEW p \in Procs, NEW ids, ids \subseteq Ids, TakeBatch(p, ids)
  PROVE  /\ pc' \in [Procs -> Labels] /\ groupReady' \in [Procs -> BOOLEAN]
         /\ batch' \in [Procs -> SUBSET Ids] /\ nil' \in [Procs -> SUBSET Ids]
         /\ stop' \in [Procs -> BOOLEAN] /\ sent' \in [Procs -> 0 .. Resends]
<1>1. CASE EnterBackoff(p, FALSE)
  BY <1>1, EnterBackoffType
<1>2. CASE ~ EnterBackoff(p, FALSE)
  <2>1. PICK l \in {"store", "ackInvalid"} : pc' = [pc EXCEPT ![p] = l]
    BY <1>2 DEF TakeBatch
  <2>2. pc' \in [Procs -> Labels]
    BY <2>1 DEF TypeOK, Labels, Awaits
  <2>3. batch' = [batch EXCEPT ![p] = ids] /\ nil' = [nil EXCEPT ![p] = ids \ stream]
    BY <1>2 DEF TakeBatch
  <2>4. UNCHANGED <<groupReady, stop>> /\ sent' = [sent EXCEPT ![p] = 0]
    BY <1>2 DEF TakeBatch
  <2>. QED  BY ConstantsAssumption, <2>2, <2>3, <2>4 DEF TypeOK
<1>. QED  BY <1>1, <1>2

\* A commit leaves the table typed.
LEMMA StoreCommitsType ==
  ASSUME TypeOK, NEW p \in Procs, StoreCommits(p)
  PROVE  rows' \in [EventId -> Payload \cup {NULL}]
<1>1. Accepted(p) \subseteq Ids /\ \A i \in Accepted(p) : published[i] \in Valid
  BY DEF Accepted, TypeOK
<1>. QED  BY <1>1, InsertIntoFacts DEF StoreCommits

\* The Redis commands keep Redis's own state typed.
RedisTypeOK ==
  /\ stream \subseteq Ids /\ group \in BOOLEAN
  /\ cursor \in 0 .. Len(published) /\ pel \subseteq Ids

LEMMA XackType ==
  ASSUME TypeOK, UNCHANGED published, NEW ids, Xack(ids)
  PROVE  RedisTypeOK' /\ acked' \subseteq Ids
  BY DEF TypeOK, RedisTypeOK, Xack, Ids

LEMMA DeliverNewType ==
  ASSUME TypeOK, UNCHANGED published, NEW ids, ids \subseteq Ids, DeliverNew(ids)
  PROVE  RedisTypeOK'
  BY DEF TypeOK, RedisTypeOK, DeliverNew, CursorAfter, Ids

LEMMA CreateGroupType ==
  ASSUME TypeOK, UNCHANGED published, CreateGroup
  PROVE  RedisTypeOK'
  BY DEF TypeOK, RedisTypeOK, CreateGroup, GroupStart, Ids

LEMMA BatchType ==
  ASSUME TypeOK
  PROVE  /\ Oldest(PendingIds(pel), BatchSize) \subseteq Ids
         /\ Oldest(Undelivered, BatchSize) \subseteq Ids
  BY DEF TypeOK, Oldest, PendingIds, Undelivered

LEMMA TypeStep ==
  ASSUME TypeOK, [Next]_vars
  PROVE  TypeOK'
<1>. USE ConstantsAssumption DEF Labels, Awaits, RedisAwaits
<1>1. ASSUME NEW pl \in Payload, Emit(pl)  PROVE TypeOK'
  <2>1. stream' \subseteq stream \cup {Len(published) + 1}
    BY <1>1 DEF Emit, Trimmings
  <2>2. published' \in Seq(Payload) /\ Len(published') = Len(published) + 1
    BY <1>1 DEF Emit, TypeOK
  <2>3. Ids \subseteq Ids' /\ Len(published) + 1 \in Ids' /\ Len(published) \in Nat
    BY <2>2 DEF Ids, TypeOK
  <2>. QED  BY <1>1, <2>1, <2>2, <2>3 DEF Emit, TypeOK, taskVars, budgets
<1>2. CASE RedisSave
  BY <1>2 DEF RedisSave, TypeOK, Ids, redisVars, taskVars, budgets
<1>3. CASE RedisRestart
  <2>1. /\ rdb.stream \subseteq Ids /\ rdb.group \in BOOLEAN
        /\ rdb.cursor \in 0 .. Len(published) /\ rdb.pel \subseteq Ids
    BY DEF TypeOK
  <2>2. Ids' = Ids /\ Len(published') = Len(published)
    BY <1>3 DEF RedisRestart, Ids
  <2>3. redisRestarts' \in 0 .. MaxRedisRestarts
    BY <1>3 DEF RedisRestart, TypeOK
  <2>. QED  BY <1>3, <2>1, <2>2, <2>3 DEF RedisRestart, TypeOK, taskVars
<1>4. ASSUME NEW p \in Procs, Process(p)  PROVE TypeOK'
  <2>. USE DEF TypeOK, Ids, redisVars, taskVars, budgets
  <2>1. CASE Start(p)
    BY <2>1, CreateGroupType DEF Start, RedisTypeOK
  <2>2. CASE StartFails(p)
    BY <2>2, CreateGroupType DEF StartFails, RedisTypeOK
  <2>3. CASE EnsureGroup(p)
    BY <2>3, CreateGroupType DEF EnsureGroup, RedisTypeOK
  <2>4. CASE ReadPending(p)
    <3>1. CASE pc' = [pc EXCEPT ![p] = "readNew"] /\ UNCHANGED <<groupReady, batch, nil, stop, sent>>
      BY <2>4, <3>1 DEF ReadPending
    <3>2. CASE EnterBackoff(p, FALSE)
      BY <2>4, <3>2, EnterBackoffType DEF ReadPending
    <3>3. CASE TakeBatch(p, Oldest(PendingIds(pel), BatchSize))
      BY <2>4, <3>3, BatchType, TakeBatchType DEF ReadPending
    <3>. QED  BY <2>4, <3>1, <3>2, <3>3 DEF ReadPending
  <2>5. CASE ReadNew(p)
    <3>1. CASE EnterBackoff(p, FALSE) /\ UNCHANGED redisVars
      BY <2>5, <3>1, EnterBackoffType DEF ReadNew
    <3>2. CASE NextIteration(p, TRUE) /\ UNCHANGED redisVars
      BY <2>5, <3>2, NextIterationType DEF ReadNew
    <3>3. CASE /\ DeliverNew(Oldest(Undelivered, BatchSize))
               /\ TakeBatch(p, Oldest(Undelivered, BatchSize))
      BY <2>5, <3>3, BatchType, DeliverNewType, TakeBatchType DEF ReadNew, RedisTypeOK
    <3>. QED  BY <2>5, <3>1, <3>2, <3>3 DEF ReadNew
  <2>6. CASE AckInvalid(p)
    <3>1. CASE NextIteration(p, TRUE)
      BY <2>6, <3>1, XackType, NextIterationType DEF AckInvalid, RedisTypeOK
    <3>2. CASE ~ NextIteration(p, TRUE)
      BY <2>6, <3>2, XackType DEF AckInvalid, RedisTypeOK
    <3>. QED  BY <3>1, <3>2
  <2>7. CASE Store(p)
    BY <2>7, StoreCommitsType DEF Store
  <2>8. CASE StoreRaises(p)
    BY <2>8, StoreCommitsType, EnterBackoffType DEF StoreRaises
  <2>9. CASE AckValid(p)
    BY <2>9, XackType, NextIterationType DEF AckValid, RedisTypeOK
  <2>10. CASE RedisCallRaises(p)
    BY <2>10, EnterBackoffType DEF RedisCallRaises
  <2>11. TookEffect(p) => RedisTypeOK' /\ acked' \subseteq Ids
    BY CreateGroupType, DeliverNewType, BatchType, XackType DEF TookEffect
  <2>12. CASE ReplyLost(p)
    BY <2>11, <2>12, EnterBackoffType DEF ReplyLost, TookEffect, RedisTypeOK
  <2>13. CASE Resend(p)
    <3>1. sent' \in [Procs -> 0 .. Resends]
      BY <2>13 DEF Resend
    <3>. QED  BY <2>11, <2>13, <3>1 DEF Resend, TookEffect, RedisTypeOK
  <2>14. CASE Resume(p)
    BY <2>14, NextIterationType DEF Resume
  <2>15. CASE RequestStop(p)
    BY <2>15 DEF RequestStop
  <2>16. CASE CancelTask(p)
    <3>1. sent' \in [Procs -> 0 .. Resends]
      BY <2>16 DEF CancelTask
    <3>2. pc' \in [Procs -> Labels]
      BY <2>16 DEF CancelTask
    <3>3. batch' \in [Procs -> SUBSET Ids] /\ nil' \in [Procs -> SUBSET Ids]
      BY <2>16 DEF CancelTask
    <3>. QED  BY <2>16, <3>1, <3>2, <3>3 DEF CancelTask
  <2>17. CASE Rollback(p)
    <3>1. rows' \in [EventId -> Payload \cup {NULL}]
      BY <2>17, StoreCommitsType DEF Rollback
    <3>2. CASE EnterBackoff(p, TRUE)
      BY <2>17, <3>1, <3>2, EnterBackoffType DEF Rollback
    <3>3. CASE ~ EnterBackoff(p, TRUE)
      BY <2>17, <3>1, <3>3 DEF Rollback
    <3>. QED  BY <3>2, <3>3
  <2>18. CASE CloseRedis(p)
    <3>1. CASE EnterDown(p)
      BY <2>18, <3>1 DEF CloseRedis, EnterDown
    <3>2. CASE ~ EnterDown(p)
      BY <2>18, <3>2 DEF CloseRedis
    <3>. QED  BY <3>1, <3>2
  <2>19. CASE Dispose(p)
    BY <2>19 DEF Dispose, EnterDown
  <2>20. CASE Crash(p)
    BY <2>20 DEF Crash, EnterDown
  <2>. QED
    BY <1>4, <2>1, <2>2, <2>3, <2>4, <2>5, <2>6, <2>7, <2>8, <2>9, <2>10,
       <2>12, <2>13, <2>14, <2>15, <2>16, <2>17, <2>18, <2>19, <2>20 DEF Process
<1>5. CASE UNCHANGED vars
  BY <1>5 DEF vars, TypeOK, Ids, redisVars, taskVars, budgets
<1>. QED  BY <1>1, <1>2, <1>3, <1>4, <1>5 DEF Next, Environment

\* Every variable keeps the values the code can give it: in particular the
\* cursor never passes the last entry and only published ids are pending.
THEOREM TypeCorrect == Spec => []TypeOK
  BY TypeInit, TypeStep, PTL DEF Spec

-----------------------------------------------------------------------------
(* The ingestion invariant.  LogInv relates Redis, its snapshot and the     *)
(* table; TaskInv relates a task's locals to them.                          *)

LogInv ==
  /\ StreamOrEvicted
  /\ AckedOnlyWhenHandled
  /\ NoEventLost
  /\ NoEventLostBySnapshot

TaskInv == NilWasEvicted /\ StoredBeforeAck

\* An entry that is no obstacle to an XACK.
Handled(i) == i \in evicted \/ published[i] \notin Valid \/ Stored(i)

\* What every step of a task except Store does to the tasks' locals: a batch
\* that reaches or stays at the second XACK is the one that was there, and
\* what comes back without fields is no longer in the stream.
QuietTasks ==
  \A q \in Procs :
    /\ nil'[q] \subseteq nil[q] \cup (Ids \ stream)
    /\ pc'[q] = "ackValid" =>
         pc[q] = "ackValid" /\ batch'[q] = batch[q] /\ nil'[q] = nil[q]

LEMMA QuietWhenUnchanged ==
  ASSUME UNCHANGED <<pc, batch, nil>>
  PROVE  QuietTasks
  BY DEF QuietTasks

LEMMA QuietRelabel ==
  ASSUME TypeOK, NEW p \in Procs, NEW l, l # "ackValid",
         pc' = [pc EXCEPT ![p] = l], UNCHANGED <<batch, nil>>
  PROVE  QuietTasks
  BY DEF QuietTasks, TypeOK

LEMMA QuietNextIteration ==
  ASSUME TypeOK, NEW p \in Procs, NEW ready, NextIteration(p, ready)
  PROVE  QuietTasks
  BY DEF QuietTasks, NextIteration, LoopHead, TypeOK

LEMMA QuietBackoff ==
  ASSUME TypeOK, NEW p \in Procs, NEW ready, EnterBackoff(p, ready)
  PROVE  QuietTasks
  BY DEF QuietTasks, EnterBackoff, TypeOK

LEMMA QuietDown ==
  ASSUME TypeOK, NEW p \in Procs, EnterDown(p)
  PROVE  QuietTasks
  BY DEF QuietTasks, EnterDown, TypeOK

LEMMA QuietTakeBatch ==
  ASSUME TypeOK, NEW p \in Procs, NEW ids, ids \subseteq Ids, TakeBatch(p, ids)
  PROVE  QuietTasks
<1>1. CASE EnterBackoff(p, FALSE)
  BY <1>1, QuietBackoff
<1>2. CASE ~ EnterBackoff(p, FALSE)
  <2>1. PICK l \in {"store", "ackInvalid"} : pc' = [pc EXCEPT ![p] = l]
    BY <1>2 DEF TakeBatch
  <2>2. batch' = [batch EXCEPT ![p] = ids] /\ nil' = [nil EXCEPT ![p] = ids \ stream]
    BY <1>2 DEF TakeBatch
  <2>. QED  BY <2>1, <2>2 DEF QuietTasks, TypeOK
<1>. QED  BY <1>1, <1>2

\* A quiet step keeps TaskInv if the history only grows.
LEMMA QuietTaskInv ==
  ASSUME TypeOK, StreamOrEvicted, TaskInv, QuietTasks,
         evicted \subseteq evicted', published' = published,
         \A i \in Ids : Stored(i) => Stored(i)'
  PROVE  TaskInv'
<1>1. NilWasEvicted'
  BY DEF TaskInv, NilWasEvicted, QuietTasks, StreamOrEvicted
<1>2. ASSUME NEW q \in Procs, pc'[q] = "ackValid", NEW i \in Accepted(q)'
      PROVE  Stored(i)'
  <2>1. pc[q] = "ackValid" /\ i \in Accepted(q)
    BY <1>2 DEF QuietTasks, Accepted
  <2>2. i \in Ids /\ Stored(i)
    BY <2>1 DEF TaskInv, StoredBeforeAck, Accepted, TypeOK
  <2>. QED  BY <2>2
<1>. QED  BY <1>1, <1>2 DEF TaskInv, StoredBeforeAck

\* The log half of the invariant, one lemma per kind of effect.
LEMMA LogUnchanged ==
  ASSUME LogInv, UNCHANGED <<published, stream, cursor, pel, rdb, rows, acked, evicted>>
  PROVE  LogInv'
  BY DEF LogInv, StreamOrEvicted, AckedOnlyWhenHandled, NoEventLost,
         NoEventLostBySnapshot, Ids, Stored, Event

LEMMA LogXack ==
  ASSUME TypeOK, LogInv, NEW ids, Xack(ids), \A i \in ids : i \in Ids => Handled(i),
         UNCHANGED <<published, rdb, rows, evicted>>
  PROVE  LogInv'
<1>. USE DEF LogInv, Ids, Stored, Event, Handled, Xack
<1>1. StreamOrEvicted' /\ NoEventLostBySnapshot'
  BY DEF StreamOrEvicted, NoEventLostBySnapshot
<1>2. AckedOnlyWhenHandled'
  BY DEF AckedOnlyWhenHandled, TypeOK
<1>3. NoEventLost'
  BY DEF NoEventLost
<1>. QED  BY <1>1, <1>2, <1>3

LEMMA LogDeliver ==
  ASSUME TypeOK, LogInv, DeliverNew(Oldest(Undelivered, BatchSize)),
         UNCHANGED <<published, rdb, rows, acked, evicted>>
  PROVE  LogInv'
<1>. DEFINE new == Oldest(Undelivered, BatchSize)
<1>1. PICK last \in new : cursor' = last
  BY DEF DeliverNew, CursorAfter
<1>2. pel' = pel \cup new /\ stream' = stream
  BY DEF DeliverNew
<1>3. Undelivered \subseteq Ids /\ Ids \subseteq Nat /\ IsFiniteSet(Ids)
  <2>1. Len(published) \in Nat
    BY DEF TypeOK
  <2>2. IsFiniteSet(Ids)
    BY <2>1, FS_Interval DEF Ids
  <2>3. Undelivered \subseteq Ids
    BY DEF Undelivered, TypeOK
  <2>4. Ids \subseteq Nat
    BY DEF Ids
  <2>. QED  BY <2>2, <2>3, <2>4
<1>4. IsFiniteSet(Undelivered) /\ Undelivered \subseteq Nat
  BY <1>3, FS_Subset
<1>5. \A i \in Undelivered : i <= last => i \in new
  BY <1>1, <1>4, OldestIsPrefix, ConstantsAssumption
<1>6. ASSUME NEW i \in Ids, i \notin evicted, ~ (i > cursor')
      PROVE  i \in pel' \/ published[i] \notin Valid \/ Stored(i)
  <2>1. i \in stream /\ i \in Nat /\ last \in Nat /\ cursor \in Nat
    BY <1>1, <1>3, <1>6 DEF LogInv, StreamOrEvicted, TypeOK, Oldest
  <2>2. CASE i > cursor
    BY <1>1, <1>2, <1>5, <1>6, <2>1, <2>2 DEF Undelivered
  <2>3. CASE ~ (i > cursor)
    BY <1>2, <1>6, <2>3 DEF LogInv, NoEventLost
  <2>. QED  BY <2>2, <2>3
<1>7. NoEventLost'
  BY <1>6 DEF NoEventLost, Ids, Stored, Event
<1>8. StreamOrEvicted' /\ AckedOnlyWhenHandled' /\ NoEventLostBySnapshot'
  BY <1>2 DEF LogInv, StreamOrEvicted, AckedOnlyWhenHandled, NoEventLostBySnapshot,
              Ids, Stored, Event
<1>. QED  BY <1>7, <1>8 DEF LogInv

LEMMA LogCreateGroup ==
  ASSUME TypeOK, LogInv, CreateGroup, UNCHANGED <<published, rdb, rows, acked, evicted>>
  PROVE  LogInv'
<1>1. NoEventLost'
  BY DEF LogInv, NoEventLost, CreateGroup, GroupStart, Ids, Stored, Event, TypeOK
<1>2. StreamOrEvicted' /\ AckedOnlyWhenHandled' /\ NoEventLostBySnapshot'
  BY DEF LogInv, StreamOrEvicted, AckedOnlyWhenHandled, NoEventLostBySnapshot,
         CreateGroup, Ids, Stored, Event
<1>. QED  BY <1>1, <1>2 DEF LogInv

\* A commit keeps every row and gives every accepted entry of the batch one.
LEMMA CommitFacts ==
  ASSUME TypeOK, NEW p \in Procs, StoreCommits(p), published' = published
  PROVE  /\ \A i \in Ids : Stored(i) => Stored(i)'
         /\ \A i \in Accepted(p) : Stored(i)'
         /\ \A e \in EventId : rows[e] # NULL => rows'[e] = rows[e]
<1>1. Accepted(p) \subseteq Ids /\ \A i \in Accepted(p) : published[i] \in Valid
  BY DEF Accepted, TypeOK
<1>2. /\ \A e \in EventId : rows[e] # NULL => rows'[e] = rows[e]
      /\ \A i \in Accepted(p) : rows'[Event(i)] # NULL
  BY <1>1, InsertIntoFacts DEF StoreCommits
<1>3. \A i \in Ids : published[i] \in Valid => Event(i) \in EventId
  BY ConstantsAssumption DEF Event
<1>. QED  BY <1>1, <1>2, <1>3 DEF Stored, Event

LEMMA LogCommit ==
  ASSUME TypeOK, LogInv, NEW p \in Procs, StoreCommits(p),
         UNCHANGED <<published, stream, cursor, pel, rdb, acked, evicted>>
  PROVE  LogInv'
<1>1. \A i \in Ids : Stored(i) => Stored(i)'
  BY CommitFacts
<1>2. AckedOnlyWhenHandled'
  BY <1>1 DEF LogInv, AckedOnlyWhenHandled, TypeOK
<1>3. NoEventLost' /\ NoEventLostBySnapshot'
  BY <1>1 DEF LogInv, NoEventLost, NoEventLostBySnapshot, Ids
<1>4. StreamOrEvicted'
  BY DEF LogInv, StreamOrEvicted, Ids
<1>. QED  BY <1>2, <1>3, <1>4 DEF LogInv

LEMMA LogSave ==
  ASSUME LogInv, RedisSave
  PROVE  LogInv'
<1>1. NoEventLostBySnapshot'
  BY DEF LogInv, NoEventLost, NoEventLostBySnapshot, RedisSave, redisVars, Ids,
         Stored, Event
<1>2. StreamOrEvicted' /\ AckedOnlyWhenHandled' /\ NoEventLost'
  BY DEF LogInv, StreamOrEvicted, AckedOnlyWhenHandled, NoEventLost, RedisSave,
         redisVars, Ids, Stored, Event
<1>. QED  BY <1>1, <1>2 DEF LogInv

LEMMA LogRestart ==
  ASSUME LogInv, RedisRestart
  PROVE  LogInv'
<1>1. evicted' = evicted \cup (stream \ rdb.stream) /\ UNCHANGED <<published, rows, acked, rdb>>
  BY DEF RedisRestart
<1>2. stream' = rdb.stream /\ cursor' = rdb.cursor /\ pel' = rdb.pel
  BY DEF RedisRestart
<1>3. StreamOrEvicted' /\ AckedOnlyWhenHandled'
  BY <1>1, <1>2 DEF LogInv, StreamOrEvicted, AckedOnlyWhenHandled, Ids, Stored, Event
<1>4. NoEventLost' /\ NoEventLostBySnapshot'
  BY <1>1, <1>2 DEF LogInv, NoEventLost, NoEventLostBySnapshot, Ids, Stored, Event
<1>. QED  BY <1>3, <1>4 DEF LogInv

\* The new entry is beyond the cursor and beyond the snapshot's.
LEMMA EmitInv ==
  ASSUME TypeOK, LogInv, TaskInv, NEW pl \in Payload, Emit(pl)
  PROVE  LogInv' /\ TaskInv'
<1>. DEFINE new == Len(published) + 1
<1>1. /\ Len(published) \in Nat
      /\ Ids' = Ids \cup {new}
      /\ \A i \in Ids : published'[i] = published[i]
  BY DEF Emit, TypeOK, Ids
<1>2. stream' \subseteq stream \cup {new}
      /\ evicted' = evicted \cup ((stream \cup {new}) \ stream')
  BY DEF Emit, Trimmings
<1>3. UNCHANGED <<cursor, pel, rdb, rows, pc, batch, nil, acked>>
  BY DEF Emit, taskVars
<1>4. new > cursor /\ new > rdb.cursor
  <2>1. cursor \in 0 .. Len(published) /\ rdb.cursor \in 0 .. Len(published)
    BY DEF TypeOK
  <2>. QED  BY <1>1, <2>1
<1>5. \A i \in Ids : (Stored(i) => Stored(i)') /\ (published[i] \notin Valid => published'[i] \notin Valid)
  BY <1>1, <1>3 DEF Stored, Event
<1>6. StreamOrEvicted'
  BY <1>1, <1>2 DEF LogInv, StreamOrEvicted
<1>7. AckedOnlyWhenHandled'
  BY <1>2, <1>3, <1>5 DEF LogInv, AckedOnlyWhenHandled, TypeOK
<1>8. NoEventLost'
  BY <1>1, <1>2, <1>3, <1>4, <1>5 DEF LogInv, NoEventLost
<1>9. NoEventLostBySnapshot'
  BY <1>1, <1>2, <1>3, <1>4, <1>5 DEF LogInv, NoEventLostBySnapshot
<1>10. NilWasEvicted'
  BY <1>2, <1>3 DEF TaskInv, NilWasEvicted
<1>11. ASSUME NEW q \in Procs, pc'[q] = "ackValid", NEW i \in Accepted(q)'
       PROVE  Stored(i)'
  <2>1. i \in Ids
    BY <1>3, <1>11 DEF Accepted, TypeOK
  <2>2. i \in Accepted(q)
    BY <1>1, <1>3, <1>11, <2>1 DEF Accepted
  <2>. QED  BY <1>3, <1>5, <1>11, <2>1, <2>2 DEF TaskInv, StoredBeforeAck
<1>. QED
  BY <1>6, <1>7, <1>8, <1>9, <1>10, <1>11 DEF LogInv, TaskInv, StoredBeforeAck

-----------------------------------------------------------------------------
(* Invariance *)

LEMMA IngestionInit == Init => IngestionInv
<1>1. ASSUME Init  PROVE LogInv
  <2>1. Ids = {}
    BY <1>1 DEF Init, Ids
  <2>. QED
    BY <1>1, <2>1 DEF Init, LogInv, StreamOrEvicted, AckedOnlyWhenHandled, NoEventLost,
                      NoEventLostBySnapshot
<1>2. ASSUME Init  PROVE TaskInv
  BY <1>2 DEF Init, TaskInv, NilWasEvicted, StoredBeforeAck
<1>. QED  BY <1>1, <1>2, TypeInit DEF IngestionInv, LogInv, TaskInv

\* A step that leaves the history and the table alone is quiet enough.
LEMMA QuietStep ==
  ASSUME TypeOK, StreamOrEvicted, TaskInv, QuietTasks, UNCHANGED <<published, rows, evicted>>
  PROVE  TaskInv'
<1>1. \A i \in Ids : Stored(i) => Stored(i)'
  BY DEF Stored, Event
<1>. QED  BY <1>1, QuietTaskInv

LEMMA ProcessInv ==
  ASSUME TypeOK, LogInv, TaskInv, NEW p \in Procs, Process(p)
  PROVE  LogInv' /\ TaskInv'
<1>. USE DEF redisVars, taskVars, budgets
<1>0. StreamOrEvicted
  BY DEF LogInv
<1>1. CASE Start(p)
  <2>1. LogInv'
    BY <1>1, LogCreateGroup DEF Start
  <2>2. QuietTasks
    BY <1>1, QuietRelabel DEF Start
  <2>. QED  BY <1>0, <1>1, <2>1, <2>2, QuietStep DEF Start
<1>2. CASE StartFails(p)
  <2>1. LogInv'
    BY <1>2, LogCreateGroup DEF StartFails
  <2>2. QuietTasks
    BY <1>2, QuietWhenUnchanged DEF StartFails
  <2>. QED  BY <1>0, <1>2, <2>1, <2>2, QuietStep DEF StartFails
<1>3. CASE EnsureGroup(p)
  <2>1. LogInv'
    BY <1>3, LogCreateGroup DEF EnsureGroup
  <2>2. QuietTasks
    BY <1>3, QuietRelabel DEF EnsureGroup
  <2>. QED  BY <1>0, <1>3, <2>1, <2>2, QuietStep DEF EnsureGroup
<1>4. CASE ReadPending(p)
  <2>. DEFINE ids == Oldest(PendingIds(pel), BatchSize)
  <2>1. LogInv'
    BY <1>4, LogUnchanged DEF ReadPending
  <2>2. QuietTasks
    <3>1. CASE EnterBackoff(p, FALSE)
      BY <3>1, QuietBackoff
    <3>2. CASE pc' = [pc EXCEPT ![p] = "readNew"] /\ UNCHANGED <<groupReady, batch, nil, stop, sent>>
      BY <3>2, QuietRelabel
    <3>3. CASE TakeBatch(p, ids)
      BY <3>3, BatchType, QuietTakeBatch
    <3>. QED  BY <1>4, <3>1, <3>2, <3>3 DEF ReadPending
  <2>. QED  BY <1>0, <1>4, <2>1, <2>2, QuietStep DEF ReadPending
<1>5. CASE ReadNew(p)
  <2>. DEFINE ids == Oldest(Undelivered, BatchSize)
  <2>1. LogInv'
    BY <1>5, LogUnchanged, LogDeliver DEF ReadNew
  <2>2. QuietTasks
    <3>1. CASE EnterBackoff(p, FALSE)
      BY <3>1, QuietBackoff
    <3>2. CASE NextIteration(p, TRUE)
      BY <3>2, QuietNextIteration
    <3>3. CASE TakeBatch(p, ids)
      BY <3>3, BatchType, QuietTakeBatch
    <3>. QED  BY <1>5, <3>1, <3>2, <3>3 DEF ReadNew
  <2>. QED  BY <1>0, <1>5, <2>1, <2>2, QuietStep DEF ReadNew
<1>6. ASSUME NEW i \in Rejected(p)  PROVE Handled(i)
  BY DEF Rejected, Handled, TaskInv, NilWasEvicted
<1>7. CASE AckInvalid(p)
  <2>1. LogInv'
    BY <1>6, <1>7, LogXack DEF AckInvalid
  <2>2. QuietTasks
    <3>1. CASE NextIteration(p, TRUE)
      BY <3>1, QuietNextIteration
    <3>2. CASE pc' = [pc EXCEPT ![p] = "store"] /\ UNCHANGED <<groupReady, batch, nil, stop, sent>>
      BY <3>2, QuietRelabel
    <3>. QED  BY <1>7, <3>1, <3>2 DEF AckInvalid
  <2>. QED  BY <1>0, <1>7, <2>1, <2>2, QuietStep DEF AckInvalid
<1>8. CASE Store(p)
  <2>1. StoreCommits(p) /\ UNCHANGED <<published, stream, cursor, pel, rdb, acked, evicted>>
    BY <1>8 DEF Store
  <2>2. LogInv'
    BY <2>1, LogCommit
  <2>3. UNCHANGED <<batch, nil, evicted>> /\ pc' = [pc EXCEPT ![p] = "ackValid"]
    BY <1>8 DEF Store
  <2>4. NilWasEvicted'
    BY <2>3 DEF TaskInv, NilWasEvicted
  <2>5. ASSUME NEW q \in Procs, pc'[q] = "ackValid", NEW i \in Accepted(q)'
        PROVE  Stored(i)'
    <3>1. i \in Accepted(q)
      BY <2>1, <2>3 DEF Accepted
    <3>2. CASE q = p
      BY <2>1, <3>1, <3>2, CommitFacts
    <3>3. CASE q # p
      <4>1. pc[q] = "ackValid"
        BY <2>3, <2>5, <3>3 DEF TypeOK
      <4>2. Stored(i) /\ i \in Ids
        BY <3>1, <4>1 DEF TaskInv, StoredBeforeAck, Accepted, TypeOK
      <4>. QED  BY <2>1, <4>2, CommitFacts
    <3>. QED  BY <3>2, <3>3
  <2>. QED  BY <2>2, <2>4, <2>5 DEF TaskInv, StoredBeforeAck
<1>9. ASSUME UNCHANGED rows \/ StoreCommits(p), QuietTasks,
             UNCHANGED <<published, stream, cursor, pel, rdb, acked, evicted>>
      PROVE  LogInv' /\ TaskInv'
  <2>1. CASE UNCHANGED rows
    BY <1>0, <1>9, <2>1, LogUnchanged, QuietStep
  <2>2. CASE StoreCommits(p)
    <3>1. LogInv'
      BY <1>9, <2>2, LogCommit
    <3>2. \A i \in Ids : Stored(i) => Stored(i)'
      BY <1>9, <2>2, CommitFacts
    <3>. QED  BY <1>0, <1>9, <3>1, <3>2, QuietTaskInv
  <2>. QED  BY <1>9, <2>1, <2>2
<1>19. CASE StoreRaises(p)
  <2>1. QuietTasks
    BY <1>19, QuietBackoff DEF StoreRaises
  <2>. QED  BY <1>9, <1>19, <2>1 DEF StoreRaises
<1>20. CASE Rollback(p)
  <2>1. QuietTasks
    <3>1. CASE EnterBackoff(p, TRUE)
      BY <3>1, QuietBackoff
    <3>2. CASE ~ EnterBackoff(p, TRUE)
      BY <1>20, <3>2 DEF Rollback, QuietTasks, TypeOK
    <3>. QED  BY <3>1, <3>2
  <2>. QED  BY <1>9, <1>20, <2>1 DEF Rollback
<1>10. ASSUME pc[p] = "ackValid", NEW i \in Accepted(p)  PROVE Handled(i)
  BY <1>10 DEF Handled, TaskInv, StoredBeforeAck
<1>11. CASE AckValid(p)
  <2>1. LogInv'
    BY <1>10, <1>11, LogXack DEF AckValid
  <2>2. QuietTasks
    BY <1>11, QuietNextIteration DEF AckValid
  <2>. QED  BY <1>0, <1>11, <2>1, <2>2, QuietStep DEF AckValid
<1>12. CASE RedisCallRaises(p)
  <2>1. QuietTasks
    BY <1>12, QuietBackoff DEF RedisCallRaises
  <2>. QED  BY <1>0, <1>12, <2>1, LogUnchanged, QuietStep DEF RedisCallRaises
<1>13. ASSUME TookEffect(p), QuietTasks  PROVE LogInv' /\ TaskInv'
  <2>1. UNCHANGED <<published, rdb, rows, evicted>>
    BY <1>13 DEF TookEffect
  <2>2. LogInv'
    <3>1. CASE CreateGroup /\ UNCHANGED acked
      BY <2>1, <3>1, LogCreateGroup
    <3>2. CASE DeliverNew(Oldest(Undelivered, BatchSize)) /\ UNCHANGED acked
      BY <2>1, <3>2, LogDeliver
    <3>3. CASE Xack(Rejected(p))
      BY <1>6, <2>1, <3>3, LogXack
    <3>4. CASE pc[p] = "ackValid" /\ Xack(Accepted(p))
      BY <1>10, <2>1, <3>4, LogXack
    <3>. QED  BY <1>13, <3>1, <3>2, <3>3, <3>4 DEF TookEffect
  <2>. QED  BY <1>0, <1>13, <2>1, <2>2, QuietStep
<1>21. CASE ReplyLost(p)
  BY <1>13, <1>21, QuietBackoff DEF ReplyLost
<1>22. CASE Resend(p)
  BY <1>13, <1>22, QuietWhenUnchanged DEF Resend
<1>14. CASE Resume(p)
  <2>1. QuietTasks
    BY <1>14, QuietNextIteration DEF Resume
  <2>. QED  BY <1>0, <1>14, <2>1, LogUnchanged, QuietStep DEF Resume
<1>15. CASE RequestStop(p)
  <2>1. QuietTasks
    BY <1>15, QuietWhenUnchanged DEF RequestStop
  <2>. QED  BY <1>0, <1>15, <2>1, LogUnchanged, QuietStep DEF RequestStop
<1>16. CASE CancelTask(p)
  <2>1. QuietTasks
    BY <1>16 DEF CancelTask, QuietTasks, TypeOK
  <2>. QED  BY <1>0, <1>16, <2>1, LogUnchanged, QuietStep DEF CancelTask
<1>17. CASE CloseRedis(p) \/ Dispose(p)
  <2>1. QuietTasks
    BY <1>17, QuietDown, QuietRelabel DEF CloseRedis, Dispose
  <2>. QED  BY <1>0, <1>17, <2>1, LogUnchanged, QuietStep DEF CloseRedis, Dispose
<1>18. CASE Crash(p)
  <2>1. QuietTasks
    BY <1>18, QuietDown DEF Crash
  <2>. QED  BY <1>0, <1>18, <2>1, LogUnchanged, QuietStep DEF Crash
<1>. QED
  BY <1>1, <1>2, <1>3, <1>4, <1>5, <1>7, <1>8, <1>11, <1>12, <1>14, <1>15, <1>16,
     <1>17, <1>18, <1>19, <1>20, <1>21, <1>22 DEF Process

LEMMA IngestionStep == IngestionInv /\ [Next]_vars => IngestionInv'
<1>. SUFFICES ASSUME IngestionInv, [Next]_vars  PROVE IngestionInv'
  OBVIOUS
<1>1. TypeOK /\ LogInv /\ TaskInv
  BY DEF IngestionInv, LogInv, TaskInv
<1>2. TypeOK'
  BY <1>1, TypeStep
<1>3. LogInv' /\ TaskInv'
  <2>1. ASSUME NEW pl \in Payload, Emit(pl)  PROVE LogInv' /\ TaskInv'
    BY <1>1, <2>1, EmitInv
  <2>2. CASE RedisSave
    <3>1. UNCHANGED <<published, rows, pc, batch, nil, evicted>>
      BY <2>2 DEF RedisSave, taskVars
    <3>. QED
      BY <1>1, <2>2, <3>1, LogSave, QuietWhenUnchanged, QuietStep DEF LogInv
  <2>3. CASE RedisRestart
    <3>1. UNCHANGED <<published, rows, pc, batch, nil>> /\ evicted \subseteq evicted'
      BY <2>3 DEF RedisRestart, taskVars
    <3>2. QuietTasks
      BY <3>1, QuietWhenUnchanged
    <3>3. \A i \in Ids : Stored(i) => Stored(i)'
      BY <3>1 DEF Stored, Event
    <3>4. TaskInv'
      BY <1>1, <3>1, <3>2, <3>3, QuietTaskInv DEF LogInv
    <3>. QED  BY <1>1, <2>3, <3>4, LogRestart
  <2>4. ASSUME NEW p \in Procs, Process(p)  PROVE LogInv' /\ TaskInv'
    BY <1>1, <2>4, ProcessInv
  <2>5. CASE UNCHANGED vars
    <3>1. UNCHANGED <<published, redisVars, rdb, rows, pc, batch, nil, acked, evicted>>
      BY <2>5 DEF vars, taskVars
    <3>. QED
      BY <1>1, <3>1, LogUnchanged, QuietWhenUnchanged, QuietStep DEF LogInv, redisVars
  <2>. QED  BY <2>1, <2>2, <2>3, <2>4, <2>5 DEF Next, Environment
<1>. QED  BY <1>2, <1>3 DEF IngestionInv, LogInv, TaskInv

\* The invariant that relates the stream, the group, its snapshot, the table
\* and the batches in progress holds whatever fails in whatever order.
THEOREM IngestionCorrect == Spec => []IngestionInv
  BY IngestionInit, IngestionStep, PTL DEF Spec

\* poll_once acknowledges a valid entry only when its event has a row or when
\* Redis dropped the entry.
THEOREM AckSafety == Spec => []AckedOnlyWhenHandled
<1>1. IngestionInv => AckedOnlyWhenHandled
  BY DEF IngestionInv
<1>. QED  BY <1>1, IngestionCorrect, PTL

\* Every entry Redis still holds is undelivered, pending or handled.
THEOREM NothingLost == Spec => []NoEventLost
<1>1. IngestionInv => NoEventLost
  BY DEF IngestionInv
<1>. QED  BY <1>1, IngestionCorrect, PTL

-----------------------------------------------------------------------------
(* Steps: what happens to the table, and the refinement of EventDelivery *)

\* What a step of a consumer task does to the table and the acknowledgements:
\* nothing, one commit, or one XACK.
LEMMA ProcessEffect ==
  ASSUME NEW p \in Procs, Process(p)
  PROVE  /\ UNCHANGED <<published, evicted>>
         /\ \/ UNCHANGED <<rows, acked>>
            \/ StoreCommits(p) /\ UNCHANGED acked
            \/ UNCHANGED rows /\ acked' = acked \cup (Rejected(p) \cap pel)
            \/ /\ pc[p] = "ackValid"
               /\ UNCHANGED rows /\ acked' = acked \cup (Accepted(p) \cap pel)
<1>. USE DEF redisVars, taskVars, budgets
<1>1. CASE Start(p) \/ StartFails(p) \/ EnsureGroup(p)
  BY <1>1 DEF Start, StartFails, EnsureGroup
<1>2. CASE ReadPending(p) \/ ReadNew(p)
  BY <1>2 DEF ReadPending, ReadNew
<1>3. CASE AckInvalid(p) \/ AckValid(p)
  BY <1>3 DEF AckInvalid, AckValid, Xack
<1>4. CASE Store(p) \/ StoreRaises(p) \/ Rollback(p)
  BY <1>4 DEF Store, StoreRaises, Rollback
<1>5. CASE RedisCallRaises(p) \/ ReplyLost(p) \/ Resend(p) \/ Resume(p)
  BY <1>5 DEF RedisCallRaises, ReplyLost, Resend, TookEffect, Xack, Resume
<1>6. CASE RequestStop(p) \/ CancelTask(p) \/ CloseRedis(p) \/ Dispose(p) \/ Crash(p)
  BY <1>6 DEF RequestStop, CancelTask, CloseRedis, Dispose, Crash
<1>. QED  BY <1>1, <1>2, <1>3, <1>4, <1>5, <1>6 DEF Process

\* A stored row survives every step: redeliveries, replays after a Redis
\* restart and other payloads with the same event_id leave it as it is.
THEOREM RowsImmutable == Spec => RowsNeverChange
<1>1. ASSUME TypeOK, [Next]_vars
      PROVE  \A e \in EventId : rows[e] # NULL => rows'[e] = rows[e]
  <2>1. ASSUME NEW p \in Procs, Process(p)
        PROVE  \A e \in EventId : rows[e] # NULL => rows'[e] = rows[e]
    <3>1. UNCHANGED rows \/ (StoreCommits(p) /\ UNCHANGED published)
      BY <2>1, ProcessEffect
    <3>. QED  BY <1>1, <3>1, CommitFacts
  <2>2. CASE Environment \/ UNCHANGED vars
    BY <2>2 DEF Environment, Emit, RedisSave, RedisRestart, vars
  <2>. QED  BY <1>1, <2>1, <2>2 DEF Next
<1>2. TypeOK /\ [Next]_vars
        => [\A e \in EventId : rows[e] # NULL => rows'[e] = rows[e]]_vars
  BY <1>1
<1>. QED  BY <1>2, TypeCorrect, PTL DEF Spec, RowsNeverChange

\* A commit is one step of the abstract store.
LEMMA CommitImplementsStore ==
  ASSUME TypeOK, NEW p \in Procs, StoreCommits(p), UNCHANGED <<published, evicted, acked>>
  PROVE  Delivery!Store(Accepted(p))
<1>. DEFINE S == Accepted(p)
            Offers(e) == {published[i] : i \in {j \in S : EventIdOf[published[j]] = e}}
<1>1. S \subseteq Ids /\ S \subseteq Nat /\ \A i \in S : published[i] \in Valid
  BY DEF Accepted, TypeOK, Ids
<1>2. rows' = InsertInto(S)
  BY DEF StoreCommits
<1>3. DOMAIN rows' = EventId
  BY <1>2 DEF InsertInto
<1>4. ASSUME NEW e \in EventId
      PROVE  IF rows[e] # NULL \/ Offers(e) = {} THEN rows'[e] = rows[e]
                                                ELSE rows'[e] \in Offers(e)
  <2>1. Candidates(S, e) = {j \in S : EventIdOf[published[j]] = e}
    BY DEF Candidates, Event
  <2>2. CASE rows[e] # NULL \/ Candidates(S, e) = {}
    BY <1>2, <2>1, <2>2 DEF InsertInto
  <2>3. CASE rows[e] = NULL /\ Candidates(S, e) # {}
    <3>1. Candidates(S, e) \subseteq Nat
      BY <1>1, <2>1
    <3>2. First(Candidates(S, e)) \in Candidates(S, e)
      BY <2>3, <3>1, FirstIsMember
    <3>3. rows'[e] = published[First(Candidates(S, e))]
      BY <1>2, <2>3 DEF InsertInto
    <3>. QED  BY <2>1, <2>3, <3>2, <3>3
  <2>. QED  BY <2>2, <2>3
<1>. QED  BY <1>1, <1>3, <1>4 DEF Delivery!Store

LEMMA XackImplementsSettle ==
  ASSUME NEW S, \A i \in S : Handled(i),
         acked' = acked \cup S, UNCHANGED <<published, evicted, rows>>
  PROVE  Delivery!Settle(S)
  BY DEF Delivery!Settle, Delivery!MaySettle, Handled, Stored, Event

LEMMA DeliveryStep ==
  IngestionInv /\ IngestionInv' /\ [Next]_vars => [Delivery!Next]_(Delivery!vars)
<1>. SUFFICES ASSUME IngestionInv, IngestionInv', [Next]_vars
              PROVE  Delivery!Next \/ UNCHANGED <<published, evicted, rows, acked>>
  BY DEF Delivery!vars
<1>1. TypeOK /\ LogInv /\ TaskInv /\ TypeOK'
  BY DEF IngestionInv, LogInv, TaskInv
<1>2. Delivery!Entries = Ids /\ Delivery!Entries' = Ids'
  BY <1>1 DEF Delivery!Entries, TypeOK, Ids
<1>3. ASSUME NEW pl \in Payload, Emit(pl)  PROVE Delivery!Publish(pl)
  BY <1>1, <1>2, <1>3 DEF Emit, Delivery!Publish, TypeOK
<1>4. ASSUME RedisRestart  PROVE Delivery!Lose
  <2>1. evicted \subseteq evicted' /\ UNCHANGED <<published, rows, acked>>
    BY <1>4 DEF RedisRestart
  <2>2. evicted' \subseteq Ids
    BY <1>1, <2>1 DEF TypeOK, Ids
  <2>. QED  BY <1>2, <2>1, <2>2 DEF Delivery!Lose
<1>5. ASSUME RedisSave \/ UNCHANGED vars  PROVE UNCHANGED <<published, evicted, rows, acked>>
  BY <1>5 DEF RedisSave, vars
<1>6. ASSUME NEW p \in Procs, Process(p)
      PROVE  \/ \E S \in SUBSET Ids : Delivery!Store(S) \/ Delivery!Settle(S)
             \/ UNCHANGED <<published, evicted, rows, acked>>
  <2>1. Rejected(p) \subseteq Ids /\ Accepted(p) \subseteq Ids
    BY <1>1 DEF Rejected, Accepted, TypeOK
  <2>2. UNCHANGED <<published, evicted>>
    BY <1>6, ProcessEffect
  <2>3. CASE UNCHANGED <<rows, acked>>
    BY <2>2, <2>3
  <2>4. CASE StoreCommits(p) /\ UNCHANGED acked
    BY <1>1, <2>1, <2>2, <2>4, CommitImplementsStore
  <2>5. CASE UNCHANGED rows /\ acked' = acked \cup (Rejected(p) \cap pel)
    <3>1. \A i \in Rejected(p) \cap pel : Handled(i)
      BY <1>1 DEF Rejected, Handled, TaskInv, NilWasEvicted
    <3>2. Delivery!Settle(Rejected(p) \cap pel)
      BY <2>2, <2>5, <3>1, XackImplementsSettle
    <3>. QED  BY <2>1, <3>2
  <2>6. CASE /\ pc[p] = "ackValid"
             /\ UNCHANGED rows /\ acked' = acked \cup (Accepted(p) \cap pel)
    <3>1. \A i \in Accepted(p) \cap pel : Handled(i)
      BY <1>1, <2>6 DEF Handled, TaskInv, StoredBeforeAck
    <3>2. Delivery!Settle(Accepted(p) \cap pel)
      BY <2>2, <2>6, <3>1, XackImplementsSettle
    <3>. QED  BY <2>1, <3>2
  <2>. QED  BY <1>6, <2>3, <2>4, <2>5, <2>6, ProcessEffect
<1>. QED  BY <1>2, <1>3, <1>4, <1>5, <1>6 DEF Next, Environment, Delivery!Next

\* The pipeline implements at-least-once delivery with first-writer-wins: an
\* entry is settled only when it is useless, lost or stored.
THEOREM PipelineImplementsDelivery == Spec => ImplementsDelivery
<1>1. Init => Delivery!Init
  BY DEF Init, Delivery!Init
<1>. QED
  BY <1>1, DeliveryStep, IngestionCorrect, PTL DEF Spec, ImplementsDelivery, Delivery!Spec

-----------------------------------------------------------------------------
(* The bound on the pending list *)

\* XREADGROUP COUNT n returns at most n entries: the number of older entries
\* tells the entries of a batch apart and is less than n.
LEMMA OldestIsBounded ==
  ASSUME NEW S, S \subseteq Nat, IsFiniteSet(S), NEW n \in Nat
  PROVE  IsFiniteSet(Oldest(S, n)) /\ Cardinality(Oldest(S, n)) <= n
<1>. DEFINE Below(i) == {j \in S : j < i}
            O == Oldest(S, n)
            rank == [i \in O |-> Cardinality(Below(i))]
            T == 0 .. (n - 1)
<1>1. O \subseteq S /\ \A i \in O : Cardinality(Below(i)) < n
  BY DEF Oldest
<1>2. \A i \in S : Below(i) \subseteq S /\ IsFiniteSet(Below(i))
  BY FS_Subset
<1>3. \A i \in S : Cardinality(Below(i)) \in Nat
  BY <1>2, FS_CardinalityType
<1>4. ASSUME NEW i \in O, NEW k \in O, i < k
      PROVE  Cardinality(Below(i)) # Cardinality(Below(k))
  <2>1. i \in S /\ k \in S /\ i \in Nat /\ k \in Nat
    BY <1>1
  <2>2. Below(i) \subseteq Below(k)
    <3>1. ASSUME NEW j \in S, j < i  PROVE j < k
      <4>1. j \in Nat
        OBVIOUS
      <4>. QED  BY <1>4, <2>1, <3>1, <4>1
    <3>. QED  BY <3>1
  <2>3. i \in Below(k) /\ i \notin Below(i)
    BY <1>4, <2>1
  <2>. QED  BY <1>2, <2>1, <2>2, <2>3, FS_Subset
<1>5. rank \in [O -> T]
  <2>1. ASSUME NEW i \in O  PROVE Cardinality(Below(i)) \in T
    <3>. DEFINE c == Cardinality(Below(i))
    <3>1. c \in Nat /\ c < n
      BY <1>1, <1>3
    <3>. HIDE DEF c
    <3>2. c \in 0 .. (n - 1)
      BY <3>1
    <3>. QED  BY <3>2 DEF c
  <2>. QED  BY <2>1
<1>6. ASSUME NEW i \in O, NEW k \in O, rank[i] = rank[k]  PROVE i = k
  <2>1. i \in Nat /\ k \in Nat
    BY <1>1
  <2>2. ~ (i < k) /\ ~ (k < i)
    BY <1>4, <1>6
  <2>. QED  BY <2>1, <2>2
<1>7. rank \in Injection(O, T)
  <2>. HIDE DEF rank, O, T
  <2>. QED  BY <1>5, <1>6 DEF Injection, IsInjective
<1>8. IsFiniteSet(T) /\ Cardinality(T) = n
  BY FS_Interval
<1>. QED
  <2>. HIDE DEF rank, T
  <2>. QED  BY <1>7, <1>8, FS_Injection

\* Adding a batch to the pending list adds at most BatchSize.
LEMMA PelGrowth ==
  ASSUME TypeOK
  PROVE  /\ IsFiniteSet(pel) /\ Cardinality(pel) \in Nat
         /\ LET all == pel \cup Oldest(Undelivered, BatchSize)
            IN IsFiniteSet(all) /\ Cardinality(all) \in Nat
               /\ Cardinality(all) <= Cardinality(pel) + BatchSize
<1>. DEFINE new == Oldest(Undelivered, BatchSize)
<1>1. IsFiniteSet(Ids) /\ Ids \subseteq Nat
  <2>1. Len(published) \in Nat
    BY DEF TypeOK
  <2>. QED  BY <2>1, FS_Interval DEF Ids
<1>2. pel \subseteq Ids /\ Undelivered \subseteq Ids
  BY DEF TypeOK, Undelivered
<1>3. IsFiniteSet(pel) /\ IsFiniteSet(Undelivered)
  BY <1>1, <1>2, FS_Subset
<1>4. IsFiniteSet(new) /\ Cardinality(new) <= BatchSize
  BY <1>1, <1>2, <1>3, OldestIsBounded, ConstantsAssumption
<1>5. /\ IsFiniteSet(pel \cup new) /\ IsFiniteSet(pel \cap new)
      /\ Cardinality(pel \cup new) =
           Cardinality(pel) + Cardinality(new) - Cardinality(pel \cap new)
  BY <1>3, <1>4, FS_Union, FS_Subset
<1>6. /\ Cardinality(pel) \in Nat /\ Cardinality(new) \in Nat
      /\ Cardinality(pel \cup new) \in Nat /\ Cardinality(pel \cap new) \in Nat
  BY <1>3, <1>4, <1>5, FS_CardinalityType
<1>7. BatchSize \in Nat
  BY ConstantsAssumption
<1>. HIDE DEF new
<1>8. Cardinality(pel \cup new) <= Cardinality(pel) + BatchSize
  BY <1>4, <1>5, <1>6, <1>7
<1>. QED  BY <1>3, <1>5, <1>6, <1>8 DEF new

\* The slots of a process that is not about to deliver are all in Slots, and one
\* that is has its next slot outside.
LEMMA SlotsFinite ==
  ASSUME TypeOK
  PROVE  /\ IsFiniteSet(Slots) /\ Cardinality(Slots) \in Nat
         /\ Cardinality(Slots) <= Cardinality(Procs) * (Resends + 1)
         /\ Cardinality(Procs) \in Nat
<1>. DEFINE All == Procs \X (0 .. Resends)
<1>1. IsFiniteSet(Procs) /\ Resends \in Nat
  BY ConstantsAssumption
<1>2. IsFiniteSet(0 .. Resends) /\ Cardinality(0 .. Resends) = Resends + 1
  BY <1>1, FS_Interval
<1>3. IsFiniteSet(All) /\ Cardinality(All) = Cardinality(Procs) * (Resends + 1)
  BY <1>1, <1>2, FS_Product
<1>4. Slots \subseteq All
  BY DEF Slots
<1>. QED  BY <1>1, <1>3, <1>4, FS_Subset, FS_CardinalityType

LEMMA RelabelSlots ==
  ASSUME TypeOK, NEW p \in Procs, NEW l, l # "readNew", pc' = [pc EXCEPT ![p] = l],
         \A q \in Procs : q # p => sent'[q] = sent[q]
  PROVE  Slots \cup {<<p, sent[p]>>} \subseteq Slots'
<1>1. sent[p] \in 0 .. Resends
  BY DEF TypeOK
<1>2. pc'[p] = l /\ \A q \in Procs : q # p => pc'[q] = pc[q]
  BY DEF TypeOK
<1>. QED  BY <1>1, <1>2 DEF Slots

LEMMA TaskStepSlots ==
  ASSUME TypeOK, NEW p \in Procs,
         \/ \E ready \in BOOLEAN : NextIteration(p, ready) \/ EnterBackoff(p, ready)
         \/ EnterDown(p)
         \/ \E ids : TakeBatch(p, ids)
  PROVE  Slots \cup {<<p, sent[p]>>} \subseteq Slots'
<1>1. PICK l : l # "readNew" /\ pc' = [pc EXCEPT ![p] = l]
  BY DEF NextIteration, LoopHead, EnterBackoff, EnterDown, TakeBatch
<1>2. sent' = [sent EXCEPT ![p] = 0]
  BY DEF NextIteration, EnterBackoff, EnterDown, TakeBatch
<1>3. \A q \in Procs : q # p => sent'[q] = sent[q]
  BY <1>2 DEF TypeOK
<1>. QED  BY <1>1, <1>3, RelabelSlots

\* What a step does to the pending list and to the slots.
LEMMA ProcessPel ==
  ASSUME TypeOK, NEW p \in Procs, Process(p)
  PROVE  /\ UNCHANGED redisRestarts
         /\ \/ pel' \subseteq pel /\ Slots \subseteq Slots'
            \/ pel' = {}
            \/ /\ pc[p] = "readNew" /\ Slots \cup {<<p, sent[p]>>} \subseteq Slots'
               /\ pel' = pel \cup Oldest(Undelivered, BatchSize)
<1>. USE DEF redisVars, taskVars, budgets
<1>0. UNCHANGED <<pc, sent>> => Slots' = Slots
  BY DEF Slots
<1>00. \/ pel' \subseteq pel
       \/ pc[p] = "readNew" /\ pel' = pel \cup Oldest(Undelivered, BatchSize)
       \/ ~ TookEffect(p)
  BY DEF TookEffect, CreateGroup, DeliverNew, Xack
<1>1. CASE Start(p) \/ StartFails(p) \/ EnsureGroup(p)
  BY <1>0, <1>1, RelabelSlots DEF Start, StartFails, EnsureGroup, CreateGroup
<1>2. CASE ReadPending(p)
  <2>1. UNCHANGED <<pel, redisRestarts>>
    BY <1>2 DEF ReadPending
  <2>2. CASE EnterBackoff(p, FALSE) \/ TakeBatch(p, Oldest(PendingIds(pel), BatchSize))
    BY <2>1, <2>2, TaskStepSlots
  <2>3. CASE Oldest(PendingIds(pel), BatchSize) = {}
    <3>1. pel = {}
      <4>1. IsFiniteSet(pel) /\ pel \subseteq Nat
        BY PelGrowth DEF TypeOK, Ids
      <4>2. ASSUME pel # {}  PROVE FALSE
        <5>1. First(pel) \in pel /\ \A j \in pel : First(pel) <= j
          BY <4>1, <4>2, FirstIsLeast
        <5>2. {j \in pel : j < First(pel)} = {}
          <6>1. ASSUME NEW j \in pel  PROVE ~ (j < First(pel))
            <7>1. j \in Nat /\ First(pel) \in Nat /\ First(pel) <= j
              BY <4>1, <5>1
            <7>. QED  BY <7>1
          <6>. QED  BY <6>1
        <5>3. First(pel) \in Oldest(pel, BatchSize)
          BY <5>1, <5>2, FS_EmptySet, ConstantsAssumption DEF Oldest
        <5>. QED  BY <2>3, <5>3 DEF PendingIds
      <4>. QED  BY <4>2
    <3>. QED  BY <2>1, <3>1
  <2>. QED  BY <1>2, <2>2, <2>3 DEF ReadPending
<1>3. CASE ReadNew(p)
  <2>1. UNCHANGED redisRestarts /\ pc[p] = "readNew"
    BY <1>3 DEF ReadNew
  <2>2. Slots \cup {<<p, sent[p]>>} \subseteq Slots'
    BY <1>3, TaskStepSlots DEF ReadNew
  <2>3. UNCHANGED pel \/ pel' = pel \cup Oldest(Undelivered, BatchSize)
    BY <1>3 DEF ReadNew, DeliverNew
  <2>. QED  BY <2>1, <2>2, <2>3
<1>4. CASE AckInvalid(p)
  <2>1. UNCHANGED redisRestarts /\ pel' \subseteq pel
    BY <1>4 DEF AckInvalid, Xack
  <2>2. Slots \subseteq Slots'
    BY <1>4, RelabelSlots, TaskStepSlots DEF AckInvalid
  <2>. QED  BY <2>1, <2>2
<1>5. CASE Store(p) \/ RequestStop(p)
  BY <1>0, <1>5, RelabelSlots DEF Store, RequestStop
<1>6. CASE CancelTask(p)
  <2>1. PICK l : l # "readNew" /\ pc' = [pc EXCEPT ![p] = l]
    BY <1>6 DEF CancelTask
  <2>2. \A q \in Procs : q # p => sent'[q] = sent[q]
    BY <1>6 DEF CancelTask, TypeOK
  <2>. QED  BY <1>6, <2>1, <2>2, RelabelSlots DEF CancelTask
<1>7. CASE AckValid(p)
  BY <1>7, TaskStepSlots DEF AckValid, Xack
<1>8. CASE StoreRaises(p) \/ RedisCallRaises(p)
  BY <1>8, TaskStepSlots DEF StoreRaises, RedisCallRaises
<1>9. CASE Resume(p)
  BY <1>9, TaskStepSlots DEF Resume, TypeOK
<1>10. CASE Rollback(p)
  <2>1. Slots \subseteq Slots'
    BY <1>10, TaskStepSlots, RelabelSlots DEF Rollback
  <2>. QED  BY <1>10, <2>1 DEF Rollback
<1>11. CASE CloseRedis(p)
  <2>1. Slots \subseteq Slots'
    BY <1>11, TaskStepSlots, RelabelSlots DEF CloseRedis
  <2>. QED  BY <1>11, <2>1 DEF CloseRedis
<1>12. CASE Dispose(p) \/ Crash(p)
  BY <1>12, TaskStepSlots DEF Dispose, Crash
<1>13. CASE ReplyLost(p)
  <2>1. UNCHANGED redisRestarts /\ Slots \cup {<<p, sent[p]>>} \subseteq Slots'
    BY <1>13, TaskStepSlots DEF ReplyLost, TookEffect
  <2>. QED  BY <1>00, <1>13, <2>1 DEF ReplyLost
<1>14. CASE Resend(p)
  <2>1. UNCHANGED <<redisRestarts, pc>> /\ sent[p] < Resends
    BY <1>14 DEF Resend, TookEffect
  <2>2. CASE pc[p] = "readNew"
    <3>1. sent' = [sent EXCEPT ![p] = sent[p] + 1] /\ sent \in [Procs -> 0 .. Resends]
      BY <1>14, <2>2 DEF Resend, TypeOK
    <3>2. sent[p] \in Nat /\ Resends \in Nat
      BY <3>1, ConstantsAssumption
    <3>3. ASSUME NEW q \in Procs, NEW k \in 0 .. Resends, k < sent[q]  PROVE k < sent'[q]
      BY <3>1, <3>2, <3>3
    <3>4. sent[p] \in 0 .. Resends /\ sent[p] < sent'[p]
      BY <3>1, <3>2
    <3>5. Slots \subseteq Slots'
      BY <2>1, <3>3 DEF Slots
    <3>6. <<p, sent[p]>> \in Slots'
      BY <3>4 DEF Slots
    <3>. QED  BY <1>00, <1>14, <2>1, <2>2, <3>5, <3>6 DEF Resend
  <2>3. CASE pc[p] # "readNew"
    BY <1>0, <1>00, <1>14, <2>1, <2>3 DEF Resend
  <2>. QED  BY <2>2, <2>3
<1>. QED
  BY <1>1, <1>2, <1>3, <1>4, <1>5, <1>6, <1>7, <1>8, <1>9, <1>10, <1>11, <1>12,
     <1>13, <1>14 DEF Process

LEMMA PelStep == TypeOK /\ TypeOK' /\ PelInv /\ [Next]_vars => PelInv'
<1>. SUFFICES ASSUME TypeOK, TypeOK', PelInv, [Next]_vars  PROVE PelInv'
  OBVIOUS
<1>. DEFINE k == Cardinality(Slots)
            m == Cardinality(Slots')
<1>1. IsFiniteSet(Slots) /\ k \in Nat
  BY SlotsFinite
<1>2. IsFiniteSet(Slots') /\ m \in Nat
  <2>1. Slots' \subseteq Procs \X (0 .. Resends)
    BY DEF Slots
  <2>2. IsFiniteSet(0 .. Resends) /\ IsFiniteSet(Procs)
    BY ConstantsAssumption, FS_Interval
  <2>3. IsFiniteSet(Procs \X (0 .. Resends))
    BY <2>2, FS_Product
  <2>. QED  BY <2>1, <2>3, FS_Subset, FS_CardinalityType
<1>3. /\ IsFiniteSet(pel) /\ IsFiniteSet(pel')
      /\ Cardinality(pel) \in Nat /\ Cardinality(pel') \in Nat
  <2>1. IsFiniteSet(pel) /\ Cardinality(pel) \in Nat
    BY PelGrowth
  <2>2. IsFiniteSet(pel')
    <3>1. Len(published') \in Nat /\ pel' \subseteq 1 .. Len(published')
      BY DEF TypeOK, Ids
    <3>2. IsFiniteSet(1 .. Len(published'))
      BY <3>1, FS_Interval
    <3>. QED  BY <3>1, <3>2, FS_Subset
  <2>. QED  BY <2>1, <2>2, FS_CardinalityType
<1>4. BatchSize \in Nat
  BY ConstantsAssumption
<1>5. CASE pel' \subseteq pel /\ Slots \subseteq Slots' /\ UNCHANGED redisRestarts
  <2>1. Cardinality(pel') <= Cardinality(pel) /\ k <= m
    BY <1>1, <1>2, <1>3, <1>5, FS_Subset
  <2>2. BatchSize * k <= BatchSize * m
    <3>. HIDE DEF k, m
    <3>. QED  BY <1>1, <1>2, <1>4, <2>1
  <2>. QED  BY <1>1, <1>2, <1>3, <1>4, <1>5, <2>1, <2>2 DEF PelInv
<1>6. CASE pel' = {}
  <2>1. Cardinality(pel') = 0
    BY <1>6, FS_EmptySet
  <2>2. 0 <= BatchSize * m
    <3>. HIDE DEF m
    <3>. QED  BY <1>2, <1>4
  <2>. QED  BY <2>1, <2>2 DEF PelInv
<1>7. ASSUME NEW p \in Procs, pc[p] = "readNew", Slots \cup {<<p, sent[p]>>} \subseteq Slots',
             pel' = pel \cup Oldest(Undelivered, BatchSize), UNCHANGED redisRestarts
      PROVE  PelInv'
  <2>1. <<p, sent[p]>> \notin Slots
    <3>1. sent[p] \in Nat
      BY DEF TypeOK
    <3>. QED  BY <1>7, <3>1 DEF Slots
  <2>2. k + 1 <= m
    <3>1. Cardinality(Slots \cup {<<p, sent[p]>>}) = k + 1
      BY <1>1, <2>1, FS_AddElement
    <3>. QED  BY <1>2, <1>7, <3>1, FS_Subset
  <2>3. Cardinality(pel') <= Cardinality(pel) + BatchSize
    BY <1>7, PelGrowth
  <2>4. BatchSize * k + BatchSize <= BatchSize * m
    <3>. HIDE DEF k, m
    <3>1. BatchSize * (k + 1) <= BatchSize * m
      BY <1>1, <1>2, <1>4, <2>2
    <3>. QED  BY <1>1, <1>2, <1>4, <3>1
  <2>. QED  BY <1>1, <1>2, <1>3, <1>4, <1>7, <2>3, <2>4 DEF PelInv
<1>8. ASSUME NEW p \in Procs, Process(p)  PROVE PelInv'
  BY <1>5, <1>6, <1>7, <1>8, ProcessPel
<1>9. CASE RedisRestart
  BY <1>9 DEF RedisRestart, PelInv, TypeOK
<1>10. CASE RedisSave \/ (\E pl \in Payload : Emit(pl)) \/ UNCHANGED vars
  <2>1. UNCHANGED <<pel, pc, sent, redisRestarts>>
    BY <1>10 DEF RedisSave, Emit, vars, redisVars, taskVars, budgets
  <2>2. Slots' = Slots
    BY <2>1 DEF Slots
  <2>. QED  BY <1>5, <2>1, <2>2
<1>. QED  BY <1>8, <1>9, <1>10 DEF Next, Environment

LEMMA PelCorrect == Spec => []PelInv
<1>1. Init => PelInv
  <2>. SUFFICES ASSUME Init  PROVE PelInv
    OBVIOUS
  <2>1. Cardinality(pel) = 0
    BY FS_EmptySet DEF Init
  <2>2. BatchSize \in Nat /\ Cardinality(Slots) \in Nat
    BY TypeInit, SlotsFinite, ConstantsAssumption
  <2>3. 0 <= BatchSize * Cardinality(Slots)
    BY <2>2
  <2>. QED  BY <2>1, <2>3 DEF PelInv
<1>. QED  BY <1>1, PelStep, TypeCorrect, PTL DEF Spec

\* While Redis keeps its state the pending list holds at most one batch per
\* process and command sent, whatever the processes and the failures.
THEOREM PendingBounded == Spec => []PelBounded
<1>1. TypeOK /\ PelInv => PelBounded
  <2>. SUFFICES ASSUME TypeOK, PelInv, redisRestarts = 0
                PROVE  Cardinality(pel) <= BatchSize * (Cardinality(Procs) * (Resends + 1))
    BY DEF PelBounded
  <2>. DEFINE k == Cardinality(Slots)
              n == Cardinality(Procs) * (Resends + 1)
  <2>1. k \in Nat /\ k <= n /\ Cardinality(Procs) \in Nat
    BY SlotsFinite
  <2>2. BatchSize \in Nat /\ Resends \in Nat /\ Cardinality(pel) \in Nat
    BY PelGrowth, ConstantsAssumption
  <2>3. n \in Nat
    BY <2>1, <2>2
  <2>4. BatchSize * k <= BatchSize * n
    <3>. HIDE DEF k, n
    <3>. QED  BY <2>1, <2>2, <2>3
  <2>5. Cardinality(pel) <= BatchSize * k
    BY DEF PelInv
  <2>. QED
    <3>. HIDE DEF k
    <3>. QED  BY <2>1, <2>2, <2>3, <2>4, <2>5
<1>. QED  BY <1>1, PelCorrect, TypeCorrect, PTL

LEMMA NatInterval ==
  ASSUME NEW n \in Nat
  PROVE  IsFiniteSet(0 .. (n - 1)) /\ Cardinality(0 .. (n - 1)) = n
  BY FS_Interval

\* A single process asks Redis for new entries only when none is pending, so what
\* it failed to store is retried before anything newer is read; only a command the
\* client sent again reads on, behind at most one batch per earlier sending.
THEOREM RetriesComeFirst == Spec => []NewOnlyWhenNonePending
<1>1. TypeOK /\ PelInv => NewOnlyWhenNonePending
  <2>. SUFFICES ASSUME TypeOK, PelInv, Cardinality(Procs) = 1, redisRestarts = 0,
                       NEW p \in Procs, pc[p] = "readNew"
                PROVE  Cardinality(pel) <= BatchSize * sent[p]
    BY DEF NewOnlyWhenNonePending
  <2>. DEFINE Earlier == 0 .. (sent[p] - 1)
  <2>1. PICK q : Procs = {q}
    BY FS_Singleton, ConstantsAssumption
  <2>2. Procs = {p} /\ sent[p] \in 0 .. Resends /\ Resends \in Nat
    BY <2>1, ConstantsAssumption DEF TypeOK
  <2>3. Slots = {p} \X Earlier
    BY <2>2 DEF Slots
  <2>4. IsFiniteSet(Earlier) /\ Cardinality(Earlier) = sent[p]
    BY <2>2, NatInterval
  <2>5. IsFiniteSet({p}) /\ Cardinality({p}) = 1
    BY FS_Singleton
  <2>6. Cardinality(Slots) = 1 * sent[p]
    <3>. HIDE DEF Earlier
    <3>. QED  BY <2>3, <2>4, <2>5, FS_Product
  <2>. QED  BY <2>2, <2>6 DEF PelInv
<1>. QED  BY <1>1, PelCorrect, TypeCorrect, PTL
=============================================================================
