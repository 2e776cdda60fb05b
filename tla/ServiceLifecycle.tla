-------------------------- MODULE ServiceLifecycle --------------------------
(***************************************************************************)
(* The process-local LifecycleState, the lifespan of the FastAPI app that   *)
(* moves it, and concurrent /health/ready and /health/heartbeat requests,   *)
(* each of which pings PostgreSQL, then Redis, and answers with a snapshot. *)
(* A step runs from one await to the next; nothing else runs in between.    *)
(***************************************************************************)
EXTENDS Naturals

CONSTANTS
  Requests,      \* the health requests that may be in progress at once
  MaxLifespans,  \* bound: lifespans one process runs through
  NULL           \* no answer yet

Deps == {"database", "redis"}
DepStatuses == {"disabled", "starting", "ok", "draining", "unavailable"}
Statuses == {"starting", "running", "draining", "stopping"}

VARIABLES
  enabled,   \* EVENT_CONSUMER_ENABLED
  status,    \* LifecycleState._status
  dep,       \* LifecycleState._database_status and _redis_status
  runtime,   \* whether the lifespan owns an EventConsumerRuntime
  app,       \* where the lifespan is
  pc,        \* the ping each request waits for
  answer,    \* the last answer of each request
  proven,    \* history: dependencies that answered a ping since the request arrived
  drained,   \* history: a drain began and no shutdown has completed since
  lifespans  \* lifespans begun

vars == <<enabled, status, dep, runtime, app, pc, answer, proven, drained, lifespans>>
stateVars == <<status, dep>>
requestVars == <<pc, answer, proven>>

Init == /\ enabled \in BOOLEAN
        /\ status = "starting"
        /\ dep = [d \in Deps |-> "disabled"]
        /\ runtime = FALSE
        /\ app = "down"
        /\ pc = [r \in Requests |-> "idle"]
        /\ answer = [r \in Requests |-> NULL]
        /\ proven = [r \in Requests |-> {}]
        /\ drained = FALSE
        /\ lifespans = 0
-----------------------------------------------------------------------------
(* The operations of LifecycleState                                         *)

All(s) == [d \in Deps |-> s]

\* What a dependency that answered is marked as.
MutHealthy == "ok"
Healthy == IF status \in {"draining", "stopping"} THEN "draining" ELSE "ok"

\* What a dependency that did not answer in time is marked as.
MutUnanswered(d) == dep[d]
Unanswered(d) == "unavailable"

\* _drain_dependency: only a healthy dependency drains.
MutDrain(s) == IF s = "ok" THEN "stopping" ELSE s
Drain(s) == IF s = "ok" THEN "draining" ELSE s

DrainAll == dep' = [d \in Deps |-> Drain(dep[d])]

\* mark_running: an application that drains does not recover.
MutRunning == "running"
Running == IF status \in {"starting", "stopping"} THEN "running" ELSE status

\* The ready property of a snapshot.
Ready(s) == s.status = "running" /\ \A d \in Deps : s.dep[d] \in {"disabled", "ok"}
-----------------------------------------------------------------------------
(* The lifespan                                                             *)

\* Startup: without a consumer the application is running at once, otherwise the
\* dependencies start and the consumer runtime is built.
Begin ==
  /\ app = "down"
  /\ lifespans < MaxLifespans
  /\ lifespans' = lifespans + 1
  /\ IF enabled
       THEN /\ dep' = All("starting")
            /\ app' = "connecting"
            /\ UNCHANGED status
       ELSE /\ status' = Running
            /\ app' = "serving"
            /\ UNCHANGED dep
  /\ UNCHANGED <<enabled, runtime, requestVars, drained>>

StartupSucceeds ==
  /\ app = "connecting"
  /\ runtime' = TRUE
  /\ dep' = All(Healthy)
  /\ status' = Running
  /\ app' = "serving"
  /\ UNCHANGED <<enabled, requestVars, drained, lifespans>>

\* A ping or ensure_group raised: the exception leaves the lifespan.
StartupFails ==
  /\ app = "connecting"
  /\ dep' = All("unavailable")
  /\ app' = "down"
  /\ UNCHANGED <<enabled, status, runtime, requestVars, drained, lifespans>>

\* The server is told to stop: it takes no further requests.
Leave ==
  /\ app = "serving"
  /\ app' = "leaving"
  /\ UNCHANGED <<enabled, stateVars, runtime, requestVars, drained, lifespans>>

\* It waits for the requests in progress before the lifespan goes on.
Shutdown ==
  /\ app = "leaving"
  /\ \A r \in Requests : pc[r] = "idle"
  /\ IF runtime THEN DrainAll /\ app' = "stopping"
                ELSE app' = "releasing" /\ UNCHANGED dep
  /\ UNCHANGED <<enabled, status, runtime, requestVars, drained, lifespans>>

\* EventConsumerRuntime.stop returned: client and engine are closed.
Stopped ==
  /\ app = "stopping"
  /\ dep' = All("disabled")
  /\ runtime' = FALSE
  /\ app' = "releasing"
  /\ UNCHANGED <<enabled, status, requestVars, drained, lifespans>>

\* Closing the Redis client or the engine, or the consumer task itself, raised.
StopRaises ==
  /\ app = "stopping"
  /\ app' = "down"
  /\ UNCHANGED <<enabled, stateVars, runtime, requestVars, drained, lifespans>>

\* The container's engines are disposed: mark_stopping.
Released ==
  /\ app = "releasing"
  /\ status' = "stopping"
  /\ DrainAll
  /\ app' = "down"
  /\ drained' = FALSE
  /\ UNCHANGED <<enabled, runtime, requestVars, lifespans>>

\* start_draining, called by whatever operates the process.
StartDraining ==
  /\ app # "down"
  /\ status \notin {"draining", "stopping"}
  /\ status' = "draining"
  /\ DrainAll
  /\ drained' = TRUE
  /\ UNCHANGED <<enabled, runtime, app, requestVars, lifespans>>
-----------------------------------------------------------------------------
(* Health requests                                                          *)

Waiting == {r \in Requests : pc[r] # "idle"}

\* The snapshot a request answers with, and what is known when it does.
Respond(r, prov) ==
  /\ pc' = [pc EXCEPT ![r] = "idle"]
  /\ answer' = [answer EXCEPT ![r] =
       [status |-> status, dep |-> dep', proven |-> prov, drained |-> drained]]

\* refresh_dependency_health without a runtime disables both dependencies.
ArriveDisabled(r) ==
  /\ app = "serving" /\ pc[r] = "idle"
  /\ ~runtime
  /\ dep' = All("disabled")
  /\ Respond(r, {})
  /\ UNCHANGED <<enabled, status, runtime, app, proven, drained, lifespans>>

Arrive(r) ==
  /\ app = "serving" /\ pc[r] = "idle"
  /\ runtime
  /\ pc' = [pc EXCEPT ![r] = "database"]
  /\ proven' = [proven EXCEPT ![r] = {}]
  /\ UNCHANGED <<enabled, stateVars, runtime, app, answer, drained, lifespans>>

\* A ping of dependency d that was answered is a proof for every request in progress.
Proof(d) == [r \in Requests |-> IF r \in Waiting THEN proven[r] \cup {d} ELSE proven[r]]

\* The ping of request r ends: d answers, or raises, or a second has passed.
PingEnds(r, d, mark, prov) ==
  /\ pc[r] = d
  /\ dep' = [dep EXCEPT ![d] = mark]
  /\ proven' = prov
  /\ IF d = "database" THEN pc' = [pc EXCEPT ![r] = "redis"] /\ UNCHANGED answer
                       ELSE Respond(r, prov[r])
  /\ UNCHANGED <<enabled, status, runtime, app, drained, lifespans>>

PingAnswered(r, d) == PingEnds(r, d, Healthy, Proof(d))

Limited(d) == TRUE

PingUnanswered(r, d) == Limited(d) /\ PingEnds(r, d, Unanswered(d), proven)

Lifespan == \/ Begin \/ StartupSucceeds \/ StartupFails
            \/ Leave \/ Shutdown \/ Stopped \/ StopRaises \/ Released

Health(r) == \/ ArriveDisabled(r) \/ Arrive(r)
             \/ \E d \in Deps : PingAnswered(r, d) \/ PingUnanswered(r, d)

Next == Lifespan \/ StartDraining \/ \E r \in Requests : Health(r)

Spec == Init /\ [][Next]_vars

\* The ping's timer and the server's wait for its requests.  Dependencies may hang,
\* and with them the ends of EventConsumerRuntime.stop and of the container, which
\* close connections without a time limit.
FairSpec ==
  /\ Spec
  /\ \A r \in Requests, d \in Deps : WF_vars(PingUnanswered(r, d))
  /\ WF_vars(Shutdown)
-----------------------------------------------------------------------------
(* Properties                                                               *)

Answers == [status : Statuses, dep : [Deps -> DepStatuses],
            proven : SUBSET Deps, drained : BOOLEAN]

TypeOK ==
  /\ enabled \in BOOLEAN
  /\ status \in Statuses
  /\ dep \in [Deps -> DepStatuses]
  /\ runtime \in BOOLEAN
  /\ app \in {"down", "connecting", "serving", "leaving", "stopping", "releasing"}
  /\ pc \in [Requests -> Deps \cup {"idle"}]
  /\ answer \in [Requests -> Answers \cup {NULL}]
  /\ proven \in [Requests -> SUBSET Deps]
  /\ drained \in BOOLEAN
  /\ lifespans \in Nat

Answered == {answer[r] : r \in {q \in Requests : answer[q] # NULL}}

\* An application that drains or stops shows no dependency as ok, whatever
\* ping of a health request, startup or shutdown marks it in between.
NoOkWhileDraining ==
  /\ status \in {"draining", "stopping"} => \A d \in Deps : dep[d] # "ok"
  /\ \A a \in Answered :
       a.status \in {"draining", "stopping"} => \A d \in Deps : a.dep[d] # "ok"

\* A dependency an answer shows as ok answered a ping after the request arrived,
\* although concurrent requests overwrite each other's marks between the pings
\* and the snapshot.
OkIsFresh == \A a \in Answered : \A d \in Deps : a.dep[d] = "ok" => d \in a.proven

\* Once a drain began, also during startup, no answer is ready until a
\* shutdown has completed.
DrainHolds == \A a \in Answered : a.drained => ~Ready(a)

=============================================================================
