----------------------- MODULE ServiceLifecycleProofs -----------------------
(***************************************************************************)
(* For any set of health requests and any number of lifespans: an answer    *)
(* shows a dependency as ok only on a ping answered since the request       *)
(* arrived, draining shows none, and a drained application is not ready.    *)
(***************************************************************************)
EXTENDS ServiceLifecycle, TLAPS

\* The states a drain or a shutdown may show.
NoOk(s, d) == s \in {"draining", "stopping"} => \A e \in Deps : d[e] # "ok"

\* What every answer promises.
AnswerOK(a) == /\ NoOk(a.status, a.dep)
               /\ \A d \in Deps : a.dep[d] = "ok" => d \in a.proven
               /\ a.drained => ~Ready(a)

\* Requests are in progress only between startup and shutdown.
OnlyServing == \A r \in Requests : pc[r] # "idle" => app \in {"serving", "leaving"}

\* A request behind its first ping finds PostgreSQL ok only on a proof.
DatabaseProven ==
  \A r \in Requests : pc[r] = "redis" /\ dep["database"] = "ok"
                        => "database" \in proven[r]

Inv == /\ TypeOK
       /\ NoOk(status, dep)
       /\ drained => status = "draining"
       /\ OnlyServing
       /\ DatabaseProven
       /\ \A r \in Requests : answer[r] # NULL => AnswerOK(answer[r])

LEMMA InitInv == Init => Inv
<1> SUFFICES ASSUME Init PROVE Inv
    OBVIOUS
<1>1. TypeOK
  <2>1. enabled \in BOOLEAN /\ runtime \in BOOLEAN /\ drained \in BOOLEAN
    BY DEF Init
  <2>2. status \in Statuses /\ dep \in [Deps -> DepStatuses] /\ lifespans \in Nat
    BY DEF Init, Statuses, DepStatuses
  <2> QED
    BY <2>1, <2>2 DEF Init, TypeOK
<1> QED
  BY <1>1 DEF Init, Inv, NoOk, OnlyServing, DatabaseProven

\* The marks of LifecycleState keep the types and never show ok while draining.
LEMMA Marks ==
  ASSUME TypeOK
  PROVE  /\ Running \in Statuses /\ Healthy \in DepStatuses
         /\ \A s \in DepStatuses : Drain(s) \in DepStatuses /\ Drain(s) # "ok"
         /\ \A d \in Deps : Unanswered(d) \in DepStatuses /\ Unanswered(d) # "ok"
         /\ status \in {"draining", "stopping"} => Healthy # "ok"
         /\ Running = status \/ (Running = "running" /\ status # "draining")
  BY DEF TypeOK, Running, Healthy, Drain, Unanswered, Statuses, DepStatuses

\* A step of the lifespan or of a drain, which answers nobody and shows a
\* dependency as ok only while no request is in progress, keeps the invariant.
LEMMA LifespanInv == Inv /\ (Lifespan \/ StartDraining) => Inv'
<1> SUFFICES ASSUME Inv, Lifespan \/ StartDraining PROVE Inv'
    OBVIOUS
<1> USE DEF requestVars, stateVars, All, DrainAll
<1>1. TypeOK
  BY DEF Inv
<1>2. TypeOK'
  <2>1. UNCHANGED <<pc, answer, proven, enabled>>
    BY DEF Lifespan, Begin, StartupSucceeds, StartupFails, Leave, Shutdown, Stopped,
           StopRaises, Released, StartDraining
  <2>2. status' \in Statuses /\ dep' \in [Deps -> DepStatuses]
    BY <1>1, Marks DEF Lifespan, Begin, StartupSucceeds, StartupFails, Leave, Shutdown,
           Stopped, StopRaises, Released, StartDraining, TypeOK, Statuses, DepStatuses
  <2>3. runtime' \in BOOLEAN /\ drained' \in BOOLEAN
    BY <1>1, Zenon DEF Lifespan, Begin, StartupSucceeds, StartupFails, Leave, Shutdown,
           Stopped, StopRaises, Released, StartDraining, TypeOK
  <2>4. lifespans' \in Nat
    BY <1>1 DEF Lifespan, Begin, StartupSucceeds, StartupFails, Leave, Shutdown,
           Stopped, StopRaises, Released, StartDraining, TypeOK
  <2>5. app' \in {"down", "connecting", "serving", "leaving", "stopping", "releasing"}
    BY <1>1 DEF Lifespan, Begin, StartupSucceeds, StartupFails, Leave, Shutdown, Stopped,
           StopRaises, Released, StartDraining, TypeOK
  <2> QED
    BY <1>1, <2>1, <2>2, <2>3, <2>4, <2>5 DEF TypeOK
<1>3. NoOk(status, dep)'
  BY <1>1, Marks DEF Inv, Lifespan, Begin, StartupSucceeds, StartupFails, Leave, Shutdown,
         Stopped, StopRaises, Released, StartDraining, TypeOK, NoOk, Running, Healthy
<1>4. (drained => status = "draining")'
  BY <1>1, Marks DEF Inv, Lifespan, Begin, StartupSucceeds, StartupFails, Leave, Shutdown,
         Stopped, StopRaises, Released, StartDraining, TypeOK
<1>5. OnlyServing'
  BY DEF Inv, OnlyServing, Lifespan, Begin, StartupSucceeds, StartupFails, Leave, Shutdown,
         Stopped, StopRaises, Released, StartDraining
<1>6. DatabaseProven'
  <2> SUFFICES ASSUME NEW r \in Requests, pc'[r] = "redis", dep'["database"] = "ok"
               PROVE  "database" \in proven'[r]
    BY DEF DatabaseProven
  <2>1. pc[r] = "redis" /\ proven' = proven
    BY DEF Lifespan, Begin, StartupSucceeds, StartupFails, Leave, Shutdown,
           Stopped, StopRaises, Released, StartDraining
  <2>2. app \in {"serving", "leaving"}
    BY <2>1 DEF Inv, OnlyServing
  <2>3. dep["database"] = "ok"
    BY <1>1, <2>1, <2>2, Marks DEF Lifespan, Begin, StartupSucceeds, StartupFails, Leave,
           Shutdown, Stopped, StopRaises, Released, StartDraining, TypeOK, Deps
  <2> QED
    BY <2>1, <2>3 DEF Inv, DatabaseProven
<1>7. answer' = answer
  BY DEF Lifespan, Begin, StartupSucceeds, StartupFails, Leave, Shutdown, Stopped,
         StopRaises, Released, StartDraining
<1> QED
  BY <1>2, <1>3, <1>4, <1>5, <1>6, <1>7 DEF Inv, AnswerOK, NoOk, Ready

\* A snapshot taken with proofs of everything it shows as ok is a good answer.
LEMMA SnapshotOK ==
  ASSUME NEW prov, NoOk(status, dep'), drained => status = "draining",
         \A d \in Deps : dep'[d] = "ok" => d \in prov
  PROVE  AnswerOK([status |-> status, dep |-> dep', proven |-> prov, drained |-> drained])
  BY DEF AnswerOK, NoOk, Ready

\* Arrival: without a runtime the answer is immediate and shows nothing as ok.
LEMMA ArriveInv ==
  ASSUME Inv, NEW r \in Requests, ArriveDisabled(r) \/ Arrive(r)
  PROVE  Inv'
<1>1. CASE ArriveDisabled(r)
  <2> DEFINE a == [status |-> status, dep |-> dep', proven |-> {}, drained |-> drained]
  <2>1. /\ dep' = [d \in Deps |-> "disabled"]
        /\ UNCHANGED <<enabled, status, runtime, app, proven, drained, lifespans>>
        /\ pc' = [pc EXCEPT ![r] = "idle"] /\ answer' = [answer EXCEPT ![r] = a]
    BY <1>1 DEF ArriveDisabled, Respond, All
  <2>2. AnswerOK(a) /\ NoOk(status, dep')
    BY <2>1, SnapshotOK DEF Inv, NoOk
  <2>3. TypeOK'
    BY <2>1 DEF Inv, TypeOK, Answers, DepStatuses
  <2>4. \A q \in Requests : answer'[q] # NULL => AnswerOK(answer'[q])
    <3> HIDE DEF a
    <3> QED  BY <2>1, <2>2 DEF Inv, TypeOK
  <2>5. OnlyServing' /\ DatabaseProven'
    BY <2>1 DEF Inv, TypeOK, OnlyServing, DatabaseProven, Deps
  <2> QED
    BY <2>1, <2>2, <2>3, <2>4, <2>5 DEF Inv, AnswerOK, NoOk, Ready
<1>2. CASE Arrive(r)
  <2>1. TypeOK'
    BY <1>2 DEF Inv, TypeOK, Arrive, stateVars, Deps
  <2>2. OnlyServing' /\ DatabaseProven'
    BY <1>2 DEF Inv, TypeOK, Arrive, stateVars, OnlyServing, DatabaseProven
  <2> QED
    BY <1>2, <2>1, <2>2 DEF Inv, Arrive, stateVars, AnswerOK, NoOk, Ready
<1> QED
  BY <1>1, <1>2

\* The end of a ping: the mark never shows ok while draining, and shows it
\* only together with a proof for every request in progress.
LEMMA PingInv ==
  ASSUME Inv, NEW r \in Requests, NEW d \in Deps,
         PingAnswered(r, d) \/ PingUnanswered(r, d)
  PROVE  Inv'
<1> DEFINE a == [status |-> status, dep |-> dep', proven |-> proven'[r], drained |-> drained]
<1>1. PICK mark \in DepStatuses :
        /\ pc[r] = d
        /\ dep' = [dep EXCEPT ![d] = mark]
        /\ status \in {"draining", "stopping"} => mark # "ok"
        /\ mark = "ok" => \A q \in Waiting : d \in proven'[q]
  <2>0. TypeOK
    BY DEF Inv
  <2>1. CASE PingAnswered(r, d)
    BY <2>0, <2>1, Marks DEF PingAnswered, PingEnds, Proof, Waiting
  <2>2. CASE PingUnanswered(r, d)
    BY <2>0, <2>2, Marks DEF PingUnanswered, PingEnds
  <2> QED
    BY <2>1, <2>2
<1>2. /\ UNCHANGED <<enabled, status, runtime, app, drained, lifespans>>
      /\ proven' \in [Requests -> SUBSET Deps]
      /\ \A q \in Requests : proven[q] \subseteq proven'[q]
  BY DEF Inv, TypeOK, PingAnswered, PingUnanswered, PingEnds, Proof
<1>3. \/ d = "database" /\ pc' = [pc EXCEPT ![r] = "redis"] /\ answer' = answer
      \/ d = "redis" /\ pc' = [pc EXCEPT ![r] = "idle"] /\ answer' = [answer EXCEPT ![r] = a]
  BY DEF PingAnswered, PingUnanswered, PingEnds, Respond, Deps
<1>4. NoOk(status, dep')
  BY <1>1 DEF Inv, TypeOK, NoOk
<1>5. r \in Waiting /\ dep \in [Deps -> DepStatuses]
  BY <1>1 DEF Inv, TypeOK, Waiting, Deps
<1>6. DatabaseProven'
  <2> SUFFICES ASSUME NEW q \in Requests, pc'[q] = "redis", dep'["database"] = "ok"
               PROVE  "database" \in proven'[q]
    BY DEF DatabaseProven
  <2>1. q \in Waiting
    BY <1>3, <1>5 DEF Inv, TypeOK, Waiting
  <2>2. CASE d = "database"
    BY <1>1, <1>5, <2>1, <2>2
  <2>3. CASE d = "redis"
    <3>1. dep["database"] = "ok" /\ pc[q] = "redis"
      BY <1>1, <1>3, <1>5, <2>3 DEF Inv, TypeOK, Deps
    <3> QED  BY <1>2, <3>1 DEF Inv, DatabaseProven
  <2> QED
    BY <2>2, <2>3 DEF Deps
<1>7. d = "redis" => AnswerOK(a)
  <2> SUFFICES ASSUME d = "redis" PROVE AnswerOK(a)
    OBVIOUS
  <2>1. dep'["redis"] = "ok" => "redis" \in proven'[r]
    BY <1>1, <1>5
  <2>2. dep'["database"] = "ok" => "database" \in proven'[r]
    BY <1>1, <1>2, <1>5 DEF Inv, DatabaseProven
  <2>3. \A e \in Deps : dep'[e] = "ok" => e \in proven'[r]
    BY <2>1, <2>2 DEF Deps
  <2>4. drained => status = "draining"
    BY DEF Inv
  <2> QED
    BY <1>4, <2>3, <2>4, SnapshotOK
<1>8. \A q \in Requests : answer'[q] # NULL => AnswerOK(answer'[q])
  <2> HIDE DEF a
  <2> QED  BY <1>3, <1>7 DEF Inv, TypeOK
<1>9. TypeOK'
  <2>1. a \in Answers
    BY <1>1, <1>2, <1>5 DEF Inv, TypeOK, Answers
  <2> HIDE DEF a
  <2> QED
    BY <1>1, <1>2, <1>3, <2>1 DEF Inv, TypeOK, Deps
<1>10. OnlyServing'
  BY <1>1, <1>2, <1>3, <1>5 DEF Inv, TypeOK, OnlyServing, Waiting
<1> QED
  BY <1>2, <1>4, <1>6, <1>8, <1>9, <1>10 DEF Inv, NoOk, AnswerOK, Ready

LEMMA StepInv == Inv /\ [Next]_vars => Inv'
<1> SUFFICES ASSUME Inv, [Next]_vars PROVE Inv'
    OBVIOUS
<1>1. CASE Lifespan \/ StartDraining
  BY <1>1, LifespanInv
<1>2. ASSUME NEW r \in Requests, Health(r) PROVE Inv'
  BY <1>2, ArriveInv, PingInv DEF Health
<1>3. CASE UNCHANGED vars
  BY <1>3 DEF vars, Inv, TypeOK, NoOk, OnlyServing, DatabaseProven, AnswerOK, Ready
<1> QED
  BY <1>1, <1>2, <1>3 DEF Next

\* The invariant, with what an answer shows tied to the pings since its request
\* arrived.
THEOREM LifecycleCorrect == Spec => []Inv
<1>1. Init => Inv
  BY InitInv
<1>2. Inv /\ [Next]_vars => Inv'
  BY StepInv
<1> QED
  BY <1>1, <1>2, PTL DEF Spec

\* Every variable keeps its type.
THEOREM TypeCorrect == Spec => []TypeOK
<1>1. Inv => TypeOK
  BY DEF Inv
<1> QED
  BY <1>1, LifecycleCorrect, PTL

\* Draining and stopping show no dependency as ok (main.py, health_router.py).
THEOREM DrainShowsNoOk == Spec => []NoOkWhileDraining
<1>1. Inv => NoOkWhileDraining
  BY DEF Inv, NoOkWhileDraining, NoOk, AnswerOK, Answered
<1> QED
  BY <1>1, LifecycleCorrect, PTL

\* An ok is never older than the request it answers, whatever refreshes overlap.
THEOREM AnswersAreFresh == Spec => []OkIsFresh
<1>1. Inv => OkIsFresh
  BY DEF Inv, OkIsFresh, AnswerOK, Answered
<1> QED
  BY <1>1, LifecycleCorrect, PTL

\* A drained application answers no readiness request with 200.
THEOREM DrainedIsNotReady == Spec => []DrainHolds
<1>1. Inv => DrainHolds
  BY DEF Inv, DrainHolds, AnswerOK, Answered
<1> QED
  BY <1>1, LifecycleCorrect, PTL
=============================================================================
