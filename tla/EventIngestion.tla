--------------------------- MODULE EventIngestion ---------------------------
(***************************************************************************)
(* Redis Stream -> FastAPI background consumer -> PostgreSQL events.       *)
(*                                                                         *)
(* Producers XADD payloads to one capped stream.  Every running backend    *)
(* process polls it through the same consumer group and the same consumer  *)
(* name: it reads its pending entries first and new entries only when none *)
(* is pending, acknowledges the entries it cannot use, stores the others   *)
(* in one transaction and acknowledges them afterwards.  Processes crash   *)
(* and are stopped, calls fail before or after they took effect or are     *)
(* sent again by the cluster client, and Redis may restart from an older   *)
(* snapshot.                                                               *)
(***************************************************************************)
EXTENDS Naturals, Sequences, FiniteSets

CONSTANTS
  Procs,        \* backend processes; all use the consumer name app-consumer-1
  Payload,      \* stream payloads a producer may publish
  Valid,        \* payloads that pass the web_event.v1 schema
  Undecodable,  \* payloads whose decoding raises an error nobody catches
  Unstorable,   \* valid payloads PostgreSQL refuses (numeric overflow, NUL, ...)
  EventId,      \* primary keys of the events table
  EventIdOf,    \* the event_id a valid payload carries
  NULL,         \* "no row"
  BatchSize,    \* STREAM_BATCH_SIZE
  MaxLen,       \* EVENT_STREAM_MAXLEN
  Resends,      \* how often the Redis client sends a command again: 0 for the
                \* single-node client, more for redis-py's cluster client
  MaxPublished,     \* bound: XADDs in a behaviour
  MaxCrashes,       \* bound: process crashes and stop requests in a behaviour
  MaxRedisRestarts  \* bound: Redis restarts in a behaviour

ASSUME ConstantsAssumption ==
  /\ IsFiniteSet(Procs)
  /\ Valid \subseteq Payload
  /\ Undecodable \subseteq Payload \ Valid
  /\ Unstorable \subseteq Valid
  /\ EventIdOf \in [Valid -> EventId]
  /\ NULL \notin Payload
  /\ BatchSize \in Nat \ {0}
  /\ MaxLen \in Nat \ {0}
  /\ Resends \in Nat
  /\ MaxPublished \in Nat
  /\ MaxCrashes \in Nat
  /\ MaxRedisRestarts \in Nat

VARIABLES
  published,  \* history: payload of every XADD; its index is the entry's id
  stream,     \* ids of the entries Redis still holds
  group,      \* does the consumer group exist?
  cursor,     \* the group's last-delivered id
  pel,        \* delivered, unacknowledged ids of the one consumer name
  rdb,        \* the snapshot Redis restarts from
  rows,       \* the events table: event_id -> payload or NULL
  pc,         \* the await each process's consumer task is at
  groupReady, \* run_forever's group_ready flag
  batch,      \* ids poll_once is working on
  nil,        \* ids of the batch that came back without fields
  stop,       \* each process's stop_event
  sent,       \* how often the XREADGROUP ">" in progress was sent again
  acked,      \* history: ids an XACK removed from the pending list
  evicted,    \* history: ids Redis dropped (trimmed, or lost in a restart)
  crashes,
  redisRestarts

redisVars == <<stream, group, cursor, pel>>
taskVars  == <<pc, groupReady, batch, nil, stop, sent>>
budgets   == <<crashes, redisRestarts>>
vars == <<published, redisVars, rdb, rows, taskVars, acked, evicted, budgets>>

Ids == 1 .. Len(published)

\* Awaits of a running task; then a cancelled transaction being rolled back, the
\* task ended (closing the Redis client), the engine being disposed of, and a
\* process without a runtime.
Awaits == {"ensure", "readPending", "readNew", "ackInvalid", "store",
           "ackValid", "backoff"}
RedisAwaits == {"ensure", "readPending", "readNew", "ackInvalid", "ackValid"}
Labels == Awaits \cup {"rollback", "exited", "disposing", "down"}

TypeOK ==
  /\ published \in Seq(Payload)
  /\ stream \subseteq Ids
  /\ group \in BOOLEAN
  /\ cursor \in 0 .. Len(published)
  /\ pel \subseteq Ids
  /\ rdb \in [stream: SUBSET Ids, group: BOOLEAN,
              cursor: 0 .. Len(published), pel: SUBSET Ids]
  /\ rows \in [EventId -> Payload \cup {NULL}]
  /\ pc \in [Procs -> Labels]
  /\ groupReady \in [Procs -> BOOLEAN]
  /\ batch \in [Procs -> SUBSET Ids]
  /\ nil \in [Procs -> SUBSET Ids]
  /\ stop \in [Procs -> BOOLEAN]
  /\ sent \in [Procs -> 0 .. Resends]
  /\ acked \subseteq Ids
  /\ evicted \subseteq Ids
  /\ crashes \in 0 .. MaxCrashes
  /\ redisRestarts \in 0 .. MaxRedisRestarts

Init ==
  /\ published = <<>>
  /\ stream = {} /\ group = FALSE /\ cursor = 0 /\ pel = {}
  /\ rdb = [stream |-> {}, group |-> FALSE, cursor |-> 0, pel |-> {}]
  /\ rows = [e \in EventId |-> NULL]
  /\ pc = [p \in Procs |-> "down"]
  /\ groupReady = [p \in Procs |-> FALSE]
  /\ batch = [p \in Procs |-> {}]
  /\ nil = [p \in Procs |-> {}]
  /\ stop = [p \in Procs |-> FALSE]
  /\ sent = [p \in Procs |-> 0]
  /\ acked = {} /\ evicted = {}
  /\ crashes = 0 /\ redisRestarts = 0

-----------------------------------------------------------------------------
(* Operators the handlers are built from.  A definition whose name starts   *)
(* with Mut is a faulty variant of the one that follows it: the project's   *)
(* mutation runs put it in the other's place to show that a property fails. *)

\* The at most n smallest ids of S: how XREADGROUP applies COUNT.
Oldest(S, n) == {i \in S : Cardinality({j \in S : j < i}) < n}

\* What XADD MAXLEN ~ may leave of the entries S: a suffix, never shorter
\* than MaxLen because of the trimming.
Trimmings(S) ==
  {T \in {{i \in S : i >= low} : low \in S} : T = S \/ Cardinality(T) >= MaxLen}

\* read_batch asks for the pending entries ("0") before the new ones (">").
MutSkipPending(ids) == {}
PendingIds(ids) == ids

\* EVENT_STREAM_GROUP_START_ID "0-0": entries older than the group count.
MutGroupStart == Len(published)
GroupStart == 0

Event(i) == EventIdOf[published[i]]

\* _coerce_payload's two outcomes on the batch: an entry that is gone comes
\* back as {} and is as invalid as one that fails the schema.
MutRejected(p) == batch[p]
Rejected(p) == {i \in batch[p] : i \in nil[p] \/ published[i] \notin Valid}
Accepted(p) == {i \in batch[p] : i \notin nil[p] /\ published[i] \in Valid}

\* INSERT ... ON CONFLICT (event_id) DO NOTHING: existing rows stay, and of
\* several rows of the statement with one event_id the first is inserted.
Candidates(S, e) == {i \in S : Event(i) = e}
First(S) == CHOOSE i \in S : \A j \in S : i <= j
MutInsertInto(S) ==
  [e \in EventId |-> IF Candidates(S, e) = {} THEN rows[e]
                                              ELSE published[First(Candidates(S, e))]]
InsertInto(S) ==
  [e \in EventId |-> IF rows[e] # NULL \/ Candidates(S, e) = {}
                     THEN rows[e]
                     ELSE published[First(Candidates(S, e))]]

\* run_forever's loop head: no await lies between it and the end of the
\* iteration before, so the test of stop_event belongs to that step.
LoopHead(p, ready) ==
  IF stop[p] THEN "exited" ELSE IF ready THEN "readPending" ELSE "ensure"

NextIteration(p, ready) ==
  /\ pc' = [pc EXCEPT ![p] = LoopHead(p, ready)]
  /\ groupReady' = [groupReady EXCEPT ![p] = ready]
  /\ batch' = [batch EXCEPT ![p] = {}]
  /\ nil' = [nil EXCEPT ![p] = {}]
  /\ sent' = [sent EXCEPT ![p] = 0]
  /\ UNCHANGED stop

\* The backoff wait, entered with group_ready reset when an exception left
\* poll_once or ensure_group and kept when only the store failed.
EnterBackoff(p, ready) ==
  /\ pc' = [pc EXCEPT ![p] = "backoff"]
  /\ groupReady' = [groupReady EXCEPT ![p] = ready]
  /\ batch' = [batch EXCEPT ![p] = {}]
  /\ nil' = [nil EXCEPT ![p] = {}]
  /\ sent' = [sent EXCEPT ![p] = 0]
  /\ UNCHANGED stop

\* The process image is gone: every local of the runtime is.
EnterDown(p) ==
  /\ pc' = [pc EXCEPT ![p] = "down"]
  /\ groupReady' = [groupReady EXCEPT ![p] = FALSE]
  /\ batch' = [batch EXCEPT ![p] = {}]
  /\ nil' = [nil EXCEPT ![p] = {}]
  /\ stop' = [stop EXCEPT ![p] = FALSE]
  /\ sent' = [sent EXCEPT ![p] = 0]

\* XGROUP CREATE ... MKSTREAM; BUSYGROUP is ignored.
CreateGroup ==
  /\ group' = TRUE
  /\ cursor' = IF group THEN cursor ELSE GroupStart
  /\ UNCHANGED <<stream, pel>>

\* XACK removes ids from the pending list and skips those not in it.
Xack(ids) ==
  /\ pel' = pel \ ids
  /\ acked' = acked \cup (ids \cap pel)
  /\ UNCHANGED <<stream, group, cursor>>

\* XREADGROUP ">" moves the oldest undelivered entries to the pending list.
Undelivered == {i \in stream : i > cursor}
MutCursorAfter(last) == last + 1
CursorAfter(last) == last
DeliverNew(ids) ==
  /\ \E last \in ids : (\A i \in ids : i <= last) /\ cursor' = CursorAfter(last)
  /\ pel' = pel \cup ids
  /\ UNCHANGED <<stream, group>>

\* poll_once after read_batch returned ids: decoding may raise; otherwise the
\* batch is split, and ack_many makes no call for an empty list.
TakeBatch(p, ids) ==
  LET gone == ids \ stream
      kept == ids \ gone
  IN \/ /\ \E i \in kept : published[i] \in Undecodable
        /\ EnterBackoff(p, FALSE)
     \/ /\ \A i \in kept : published[i] \notin Undecodable
        /\ batch' = [batch EXCEPT ![p] = ids]
        /\ nil' = [nil EXCEPT ![p] = gone]
        /\ pc' = [pc EXCEPT ![p] =
                    IF gone = {} /\ \A i \in ids : published[i] \in Valid
                    THEN "store" ELSE "ackInvalid"]
        /\ sent' = [sent EXCEPT ![p] = 0]
        /\ UNCHANGED <<groupReady, stop>>

-----------------------------------------------------------------------------
(* Producers and Redis *)

\* RedisStreamEventSink.emit: one XADD, trimming included.  Emitting a payload
\* twice is a rerun with the same seed, or a client that retried.
Emit(pl) ==
  LET id == Len(published) + 1
      all == stream \cup {id}
  IN /\ Len(published) < MaxPublished
     /\ published' = Append(published, pl)
     /\ stream' \in Trimmings(all)
     /\ evicted' = evicted \cup (all \ stream')
     /\ UNCHANGED <<group, cursor, pel, rdb, rows, taskVars, acked, budgets>>

\* Redis writes its snapshot (no snapshot is kept that no restart will load).
RedisSave ==
  /\ redisRestarts < MaxRedisRestarts
  /\ rdb' = [stream |-> stream, group |-> group, cursor |-> cursor, pel |-> pel]
  /\ UNCHANGED <<published, redisVars, rows, taskVars, acked, evicted, budgets>>

\* Redis dies and starts from the snapshot: newer entries, deliveries and
\* acknowledgements are gone, and so is a group the snapshot does not hold.
RedisRestart ==
  /\ redisRestarts < MaxRedisRestarts
  /\ redisRestarts' = redisRestarts + 1
  /\ stream' = rdb.stream /\ group' = rdb.group
  /\ cursor' = rdb.cursor /\ pel' = rdb.pel
  /\ evicted' = evicted \cup (stream \ rdb.stream)
  /\ UNCHANGED <<published, rdb, rows, taskVars, acked, crashes>>

-----------------------------------------------------------------------------
(* The consumer task *)

\* start_event_consumer_runtime: both pings answered, group ensured, task
\* created; run_forever starts with group_ready = False.
Start(p) ==
  /\ pc[p] = "down"
  /\ CreateGroup
  /\ pc' = [pc EXCEPT ![p] = "ensure"]
  /\ UNCHANGED <<published, rdb, rows, groupReady, batch, nil, stop, sent, acked,
                 evicted, budgets>>

\* Startup fails after Redis created the group: the application does not start.
StartFails(p) ==
  /\ pc[p] = "down"
  /\ ~group
  /\ CreateGroup
  /\ UNCHANGED <<published, rdb, rows, taskVars, acked, evicted, budgets>>

EnsureGroup(p) ==
  /\ pc[p] = "ensure"
  /\ CreateGroup
  /\ pc' = [pc EXCEPT ![p] = "readPending"]
  /\ groupReady' = [groupReady EXCEPT ![p] = TRUE]
  /\ UNCHANGED <<published, rdb, rows, batch, nil, stop, sent, acked, evicted,
                 budgets>>

\* read_batch's first call.  It lists the pending list and changes nothing in
\* Redis; without a group it raises NOGROUP.
ReadPending(p) ==
  LET ids == Oldest(PendingIds(pel), BatchSize)
  IN /\ pc[p] = "readPending"
     /\ \/ ~group /\ EnterBackoff(p, FALSE)
        \/ /\ group /\ ids = {}
           /\ pc' = [pc EXCEPT ![p] = "readNew"]
           /\ UNCHANGED <<groupReady, batch, nil, stop, sent>>
        \/ group /\ ids # {} /\ TakeBatch(p, ids)
     /\ UNCHANGED <<published, redisVars, rdb, rows, acked, evicted, budgets>>

\* read_batch's second call, answered with new entries, with nothing after
\* block_ms, or with NOGROUP.
ReadNew(p) ==
  LET ids == Oldest(Undelivered, BatchSize)
  IN /\ pc[p] = "readNew"
     /\ \/ ~group /\ EnterBackoff(p, FALSE) /\ UNCHANGED redisVars
        \/ group /\ ids = {} /\ NextIteration(p, TRUE) /\ UNCHANGED redisVars
        \/ group /\ ids # {} /\ DeliverNew(ids) /\ TakeBatch(p, ids)
     /\ UNCHANGED <<published, rdb, rows, acked, evicted, budgets>>

\* poll_once acknowledges what it rejected, then stores the rest if any.
AckInvalid(p) ==
  /\ pc[p] = "ackInvalid"
  /\ Xack(Rejected(p))
  /\ \/ /\ Accepted(p) # {}
        /\ pc' = [pc EXCEPT ![p] = "store"]
        /\ UNCHANGED <<groupReady, batch, nil, stop, sent>>
     \/ Accepted(p) = {} /\ NextIteration(p, TRUE)
  /\ UNCHANGED <<published, rdb, rows, evicted, budgets>>

\* save_batch: one INSERT in one transaction.
StoreCommits(p) ==
  /\ \A i \in Accepted(p) : published[i] \notin Unstorable
  /\ rows' = InsertInto(Accepted(p))

Store(p) ==
  /\ pc[p] = "store"
  /\ StoreCommits(p)
  /\ pc' = [pc EXCEPT ![p] = "ackValid"]
  /\ UNCHANGED <<published, redisVars, rdb, groupReady, batch, nil, stop, sent, acked,
                 evicted, budgets>>

\* ingest raises: the transaction rolled back, or it committed and the answer
\* was lost.  poll_once swallows the error and acknowledges nothing.
StoreRaises(p) ==
  /\ pc[p] = "store"
  /\ UNCHANGED rows \/ StoreCommits(p)
  /\ EnterBackoff(p, TRUE)
  /\ UNCHANGED <<published, redisVars, rdb, acked, evicted, budgets>>

AckValid(p) ==
  /\ pc[p] = "ackValid"
  /\ Xack(Accepted(p))
  /\ NextIteration(p, TRUE)
  /\ UNCHANGED <<published, rdb, rows, evicted, budgets>>

\* A Redis call raises without having taken effect ...
RedisCallRaises(p) ==
  /\ pc[p] \in RedisAwaits
  /\ EnterBackoff(p, FALSE)
  /\ UNCHANGED <<published, redisVars, rdb, rows, acked, evicted, budgets>>

\* ... or after the command took effect: only the reply is lost.
TookEffect(p) ==
  /\ \/ pc[p] = "ensure" /\ CreateGroup /\ UNCHANGED acked
     \/ /\ pc[p] = "readNew" /\ group
        /\ LET ids == Oldest(Undelivered, BatchSize)
           IN ids # {} /\ DeliverNew(ids)
        /\ UNCHANGED acked
     \/ pc[p] = "ackInvalid" /\ Xack(Rejected(p))
     \/ pc[p] = "ackValid" /\ Xack(Accepted(p))
  /\ UNCHANGED <<published, rdb, rows, evicted, budgets>>

ReplyLost(p) == TookEffect(p) /\ EnterBackoff(p, FALSE)

\* The cluster client answers a lost reply by sending the command again within
\* the same call: a second XREADGROUP ">" delivers the entries that follow those
\* of the first.  (XGROUP CREATE and XACK sent again change nothing.)
Resend(p) ==
  /\ sent[p] < Resends
  /\ TookEffect(p)
  /\ sent' = IF pc[p] = "readNew" THEN [sent EXCEPT ![p] = @ + 1] ELSE sent
  /\ UNCHANGED <<pc, groupReady, batch, nil, stop>>

\* The backoff ends, by its timeout or because stop_event was set.
Resume(p) ==
  /\ pc[p] = "backoff"
  /\ NextIteration(p, groupReady[p])
  /\ UNCHANGED <<published, redisVars, rdb, rows, acked, evicted, budgets>>

-----------------------------------------------------------------------------
(* Shutdown and crashes *)

\* EventConsumerRuntime.stop sets the event and waits for the task ...
RequestStop(p) ==
  /\ pc[p] \in Awaits /\ ~stop[p]
  /\ crashes < MaxCrashes
  /\ crashes' = crashes + 1
  /\ stop' = [stop EXCEPT ![p] = TRUE]
  /\ UNCHANGED <<published, redisVars, rdb, rows, pc, groupReady, batch, nil,
                 sent, acked, evicted, redisRestarts>>

\* ... at most shutdown_timeout_seconds, after which the task is cancelled at
\* the await it is at: a Redis call or the backoff ends at once, a transaction
\* is rolled back first.  A Redis call cancelled after it took effect is
\* ReplyLost followed by this step.
MutCancellable == Awaits \ {"store"}
Cancellable == Awaits
CancelTask(p) ==
  /\ pc[p] \in Cancellable /\ stop[p]
  /\ sent' = [sent EXCEPT ![p] = 0]
  /\ \/ /\ pc[p] = "store"
        /\ pc' = [pc EXCEPT ![p] = "rollback"]
        /\ UNCHANGED <<batch, nil>>
     \/ /\ pc[p] # "store"
        /\ pc' = [pc EXCEPT ![p] = "exited"]
        /\ batch' = [batch EXCEPT ![p] = {}]
        /\ nil' = [nil EXCEPT ![p] = {}]
  /\ UNCHANGED <<published, redisVars, rdb, rows, groupReady, stop, acked,
                 evicted, budgets>>

\* The session of a cancelled save_batch closed, which may wait for PostgreSQL:
\* the INSERT is undone unless it had committed.  The task ends with the
\* cancellation, or poll_once swallows an error the clean-up raised instead.
Rollback(p) ==
  /\ pc[p] = "rollback"
  /\ UNCHANGED rows \/ StoreCommits(p)
  /\ \/ EnterBackoff(p, TRUE)
     \/ /\ pc' = [pc EXCEPT ![p] = "exited"]
        /\ batch' = [batch EXCEPT ![p] = {}]
        /\ nil' = [nil EXCEPT ![p] = {}]
        /\ UNCHANGED <<groupReady, stop, sent>>
  /\ UNCHANGED <<published, redisVars, rdb, acked, evicted, budgets>>

\* The finally clause of stop: the client's connections are closed, and then the
\* engine's.  Neither has a time limit, and an error of the first leaves the
\* second undone.
CloseRedis(p) ==
  /\ pc[p] = "exited"
  /\ \/ /\ pc' = [pc EXCEPT ![p] = "disposing"]
        /\ UNCHANGED <<groupReady, batch, nil, stop, sent>>
     \/ EnterDown(p)
  /\ UNCHANGED <<published, redisVars, rdb, rows, acked, evicted, budgets>>

Dispose(p) ==
  /\ pc[p] = "disposing"
  /\ EnterDown(p)
  /\ UNCHANGED <<published, redisVars, rdb, rows, acked, evicted, budgets>>

\* The process dies at any point.
Crash(p) ==
  /\ pc[p] # "down"
  /\ crashes < MaxCrashes
  /\ crashes' = crashes + 1
  /\ EnterDown(p)
  /\ UNCHANGED <<published, redisVars, rdb, rows, acked, evicted, redisRestarts>>

-----------------------------------------------------------------------------
Environment ==
  \/ \E pl \in Payload : Emit(pl)
  \/ RedisSave
  \/ RedisRestart

Process(p) ==
  \/ Start(p) \/ StartFails(p) \/ EnsureGroup(p)
  \/ ReadPending(p) \/ ReadNew(p) \/ AckInvalid(p)
  \/ Store(p) \/ StoreRaises(p) \/ AckValid(p)
  \/ RedisCallRaises(p) \/ ReplyLost(p) \/ Resend(p) \/ Resume(p)
  \/ RequestStop(p) \/ CancelTask(p) \/ Rollback(p)
  \/ CloseRedis(p) \/ Dispose(p) \/ Crash(p)

Next == Environment \/ \E p \in Procs : Process(p)

Spec == Init /\ [][Next]_vars

\* Redis and PostgreSQL answer again and again (each call kept being retried
\* succeeds in the end), timers fire, and a stopped application is started
\* again.  Nothing obliges anyone to publish, crash, stop or restart Redis.
Fairness ==
  \A p \in Procs :
    /\ SF_vars(EnsureGroup(p)) /\ SF_vars(ReadPending(p)) /\ SF_vars(ReadNew(p))
    /\ SF_vars(AckInvalid(p)) /\ SF_vars(Store(p)) /\ SF_vars(AckValid(p))
    /\ WF_vars(Start(p)) /\ WF_vars(Resume(p)) /\ WF_vars(CancelTask(p))
    /\ WF_vars(Rollback(p)) /\ WF_vars(CloseRedis(p)) /\ WF_vars(Dispose(p))

FairSpec == Spec /\ Fairness

\* The timers alone: Redis and PostgreSQL may hang for ever, in a rollback and in
\* the closing of connections too.
HangSpec ==
  Spec /\ \A p \in Procs : WF_vars(Resume(p)) /\ WF_vars(CancelTask(p))

-----------------------------------------------------------------------------
(* Safety *)

Storable(i) == published[i] \in Valid \ Unstorable
Stored(i) == published[i] \in Valid /\ rows[Event(i)] # NULL

\* An acknowledged entry is one that Redis dropped, one that fails the schema,
\* or one whose event has a row: poll_once acknowledges valid entries only
\* after save_batch committed, however calls fail and processes interleave.
AckedOnlyWhenHandled ==
  \A i \in acked : i \in evicted \/ published[i] \notin Valid \/ Stored(i)

\* No event falls between the cursor and the pending list: an entry Redis did
\* not drop is still undelivered, or still pending (so read_batch will return
\* it), or handled.  In particular a lost reply, a cancelled read and a group
\* created after the first XADD skip nothing.
NoEventLost ==
  \A i \in Ids : \/ i \in evicted \/ i > cursor \/ i \in pel
                 \/ published[i] \notin Valid \/ Stored(i)

\* read_batch asks for new entries only when this consumer has none pending, as
\* long as one process runs and Redis does not lose its state: what is pending
\* then was delivered by the same call, to a command the client sent again.
NewOnlyWhenNonePending ==
  Cardinality(Procs) = 1 /\ redisRestarts = 0 =>
    \A p \in Procs : pc[p] = "readNew" => Cardinality(pel) <= BatchSize * sent[p]

\* The pending list never holds more than one batch per process and command sent,
\* so a stuck database leaves the backlog in the stream and not in the group.
PelBounded ==
  redisRestarts = 0 =>
    Cardinality(pel) <= BatchSize * (Cardinality(Procs) * (Resends + 1))

\* Why: a process has Resends + 1 deliveries, and has all of them before it only
\* when it saw an empty pending list.  Those behind it account for what is pending.
Slots ==
  {slot \in Procs \X (0 .. Resends) :
     pc[slot[1]] # "readNew" \/ slot[2] < sent[slot[1]]}
PelInv == redisRestarts = 0 => Cardinality(pel) <= BatchSize * Cardinality(Slots)

\* The inductive invariant behind the first two properties.  It adds: an entry
\* is in the stream or was dropped; what NoEventLost says of the live state
\* holds of the snapshot too; an entry read without fields was dropped; and at
\* the second XACK every accepted entry of the batch has its row.
StreamOrEvicted == Ids \subseteq stream \cup evicted

NoEventLostBySnapshot ==
  \A i \in Ids : \/ i \in evicted \/ i > rdb.cursor \/ i \in rdb.pel
                 \/ published[i] \notin Valid \/ Stored(i)

NilWasEvicted == \A p \in Procs : nil[p] \subseteq evicted

StoredBeforeAck ==
  \A p \in Procs : pc[p] = "ackValid" => \A i \in Accepted(p) : Stored(i)

IngestionInv ==
  /\ TypeOK
  /\ StreamOrEvicted
  /\ AckedOnlyWhenHandled
  /\ NoEventLost
  /\ NoEventLostBySnapshot
  /\ NilWasEvicted
  /\ StoredBeforeAck

\* The documents' reading of the acknowledgement rule: a valid entry is
\* acknowledged only after its event was stored.
AckOnlyAfterStore == \A i \in acked : published[i] \in Valid => Stored(i)

\* A stored event is never changed or removed: redeliveries and other payloads
\* with its event_id are ignored (ON CONFLICT DO NOTHING).
RowsNeverChange ==
  [][\A e \in EventId : rows[e] # NULL => rows'[e] = rows[e]]_vars

\* The pipeline implements the at-least-once delivery of EventDelivery.
Delivery == INSTANCE EventDelivery WITH lost <- evicted, settled <- acked
ImplementsDelivery == Delivery!Spec

(* Liveness *)

\* Every storable event gets its row unless Redis dropped the entry, whatever
\* failures, crashes and restarts happen on the way.
EveryEventStored ==
  \A i \in 1 .. MaxPublished :
    (i \in Ids /\ Storable(i)) ~> (i \in Ids /\ (Stored(i) \/ i \in evicted))

\* An entry whose payload is invalid is acknowledged and dropped in the end.
InvalidIsDropped ==
  \A i \in 1 .. MaxPublished :
    (i \in Ids /\ published[i] \notin Valid) ~> i \in acked \cup evicted

\* The pending list is drained: nothing stays in retry for ever.
PendingDrains == <>[](pel = {})

\* stop() waits for no command or statement longer than its time limit, even if
\* Redis and PostgreSQL never answer again: what it still waits for afterwards is
\* the rollback of a transaction it cancelled and the closing of connections.
StopEndsTask == \A p \in Procs : stop[p] ~> pc[p] \notin Awaits
=============================================================================
