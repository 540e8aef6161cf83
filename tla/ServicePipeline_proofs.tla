------------------------ MODULE ServicePipeline_proofs ------------------------
(***************************************************************************)
(* Proofs about ServicePipeline, for every pipeline of requests, every     *)
(* number of computations in flight and every set of answers: the types;   *)
(* that no microservice is given a job before those it depends on have     *)
(* answered (CalledAfterDependencies); and, as long as the user does not   *)
(* cancel a completed mission, that the agents are released once, after    *)
(* the end (ReleasedAtEnd), and the outcome is final (OutcomeIsFinal).     *)
(*                                                                         *)
(* The invariant of the jobs is RunsWithPermission: the first lemmas say   *)
(* what one statement does to the queue, the mission, the rows and the     *)
(* computations in flight when what it writes is permitted; those after    *)
(* them show, action by action, that it is.  The invariant of the end is   *)
(* EndsOnce: the end of the mission is at one place at a time.             *)
(*                                                                         *)
(* For pipelines in which every request is next of one other at most       *)
(* (Forest): that each job is given once (CalledOnce) and a dispatched     *)
(* request never waits again (StatusSequence), from EachOnce; and, when    *)
(* the last request depends on all others (LastOfAll), that the services   *)
(* complete no mission early (NoPrematureCompletion), from SettledFirst.   *)
(* These have one lemma about every step (NextAdvances, to Advance) and    *)
(* use nothing else of the actions.                                        *)
(***************************************************************************)
EXTENDS ServicePipeline, TLAPS

\* Taking queued events and leaving others keeps the queue a bag of events.
LEMMA QueueTyped ==
  ASSUME TypeOK, NEW taken, NEW left, \A e \in taken : Queued(e),
         TakeAndLeave(taken, left)
  PROVE  events_queue' \in [Event -> Nat]
<1>1. ASSUME NEW e \in Event
      PROVE  (IF e \in taken THEN events_queue[e] - 1 ELSE events_queue[e])
               + (IF e \in left THEN 1 ELSE 0) \in Nat
  <2>1. events_queue[e] \in Nat
    BY DEF TypeOK
  <2>2. e \in taken => events_queue[e] > 0
    BY DEF Queued
  <2>3. QED
    BY <2>1, <2>2
<1>2. QED
  BY <1>1 DEF TakeAndLeave

\* A statement about the mission writes a mission status.
LEMMA MissionTyped ==
  ASSUME TypeOK, NEW s \in MissionStatus, NEW taken, \A e \in taken : Queued(e),
         SetMission(s, taken)
  PROVE  mission' \in MissionStatus /\ events_queue' \in [Event -> Nat]
BY QueueTyped DEF SetMission

\* So does a conditional one.
LEMMA MissionWhereTyped ==
  ASSUME TypeOK, NEW s \in MissionStatus, NEW allowed, NEW taken, \A e \in taken : Queued(e),
         SetMissionWhere(allowed, s, taken)
  PROVE  mission' \in MissionStatus /\ events_queue' \in [Event -> Nat]
<1>1. CASE mission \in allowed
  BY <1>1, MissionTyped DEF SetMissionWhere
<1>2. CASE mission \notin allowed
  BY <1>2, QueueTyped DEF SetMissionWhere, TypeOK
<1>3. QED
  BY <1>1, <1>2

\* What was permitted stays permitted when more microservices answer.
LEMMA PermissionGrows ==
  ASSUME NEW early, NEW late, early \subseteq late
  PROVE  /\ \A r \in Req : \A s : StatusPermitted(r, s, early) => StatusPermitted(r, s, late)
         /\ \A t : TaskPermitted(t, early) => TaskPermitted(t, late)
BY DEF StatusPermitted, TaskPermitted, Permitted

\* A statement that writes permitted rows leaves permitted rows.
LEMMA RequestsPermitted ==
  ASSUME RunsWithPermission, NEW rows, NEW new, NEW taken,
         \A e \in taken : Queued(e), WriteRequests(rows, new, taken),
         UNCHANGED answered,
         \A r \in Req : r \in rows =>
           new[r] \in RequestRow /\ StatusPermitted(r, new[r].status, answered)
  PROVE  /\ service_requests' \in [Req -> RequestRow]
         /\ events_queue' \in [Event -> Nat]
         /\ \A r \in Req : StatusPermitted(r, service_requests'[r].status, answered')
<1>1. TypeOK /\ service_requests \in [Req -> RequestRow]
  BY DEF RunsWithPermission, TypeOK
<1>2. service_requests' = [r \in Req |-> IF r \in rows THEN new[r] ELSE service_requests[r]]
  BY DEF WriteRequests
<1>3. events_queue' \in [Event -> Nat]
  BY <1>1, QueueTyped DEF WriteRequests
<1>4. \A r \in Req : StatusPermitted(r, service_requests[r].status, answered)
  BY DEF RunsWithPermission
<1>5. QED
  BY <1>1, <1>2, <1>3, <1>4

\* A computation that goes on with a permitted task leaves the others alone.
LEMMA TasksPermitted ==
  ASSUME RunsWithPermission, NEW h \in Handler, NEW t \in Task,
         Becomes(h, t), answered \subseteq answered',
         TaskOK(t), TaskPermitted(t, answered')
  PROVE  /\ handler' \in [Handler -> Task]
         /\ \A g \in Handler : TaskOK(handler'[g]) /\ TaskPermitted(handler'[g], answered')
<1>1. handler \in [Handler -> Task]
  BY DEF RunsWithPermission, TypeOK
<1>2. \A g \in Handler : handler'[g] = IF g = h THEN t ELSE handler[g]
  BY <1>1 DEF Becomes
<1>3. \A g \in Handler : TaskOK(handler[g]) /\ TaskPermitted(handler[g], answered')
  BY PermissionGrows DEF RunsWithPermission
<1>4. handler' \in [Handler -> Task]
  BY <1>1 DEF Becomes
<1>5. QED
  BY <1>2, <1>3, <1>4

\* A statement that gives no job and hears no answer keeps the invariant if
\* the tables and the computations it leaves are typed and permitted.
LEMMA StatementKeeps ==
  ASSUME RunsWithPermission, UNCHANGED world,
         mission' \in MissionStatus,
         assignments' \in [Asg -> AssignmentStatus \cup {"absent"}],
         released' \in Nat,
         events_queue' \in [Event -> Nat],
         service_requests' \in [Req -> RequestRow],
         \A r \in Req : StatusPermitted(r, service_requests'[r].status, answered'),
         handler' \in [Handler -> Task],
         \A h \in Handler : TaskOK(handler'[h]) /\ TaskPermitted(handler'[h], answered')
  PROVE  RunsWithPermission'
<1>1. calls' = calls /\ answered' = answered
  BY DEF world
<1>2. TypeOK'
  BY <1>1 DEF RunsWithPermission, TypeOK
<1>3. CalledAfterDependencies'
  BY <1>1 DEF RunsWithPermission, CalledAfterDependencies
<1>4. QED
  BY <1>2, <1>3 DEF RunsWithPermission

----------------------------------------------------------------------------
(* Tasks that hold no decision about a request *)

\* The statements after which, or before which, a computation has decided
\* nothing about a request.
Undecided == ({"idle"} \cup WorkProcessPc \cup ServicePc)
               \ {"send", "markPending", "saveResponse", "release", "updateNext", "endMission"}

\* A computation that has decided nothing is permitted.
LEMMA UndecidedTask ==
  ASSUME NEW pc \in Undecided, NEW row \in Req \cup {NoRow}, NEW val \in Mark \cup {"error"},
         pc \in RequestPc => row \in Req
  PROVE  /\ At(pc, row, val) \in Task
         /\ TaskOK(At(pc, row, val))
         /\ \A results : TaskPermitted(At(pc, row, val), results)
BY DEF At, Task, Undecided, TaskOK, TaskPermitted, NoTodo, Mark

\* So is one that has ended.
LEMMA IdleTask ==
  /\ Idle \in Task
  /\ TaskOK(Idle)
  /\ \A results : TaskPermitted(Idle, results)
BY DEF Idle, Task, TaskOK, TaskPermitted, RequestPc, NoTodo, Mark

\* What the invariant says of the tables and of the computation that takes
\* the step.
LEMMA InvariantOf ==
  ASSUME RunsWithPermission, NEW h \in Handler
  PROVE  /\ TypeOK
         /\ handler[h] \in Task
         /\ TaskOK(handler[h])
         /\ TaskPermitted(handler[h], answered)
         /\ \A r \in Req : StatusPermitted(r, service_requests[r].status, answered)
BY DEF RunsWithPermission, TypeOK

----------------------------------------------------------------------------
(* The three kinds of steps *)

\* A step that only moves a computation on (and takes an event).
LEMMA TaskKeeps ==
  ASSUME RunsWithPermission, NEW h \in Handler, NEW t \in Task, Becomes(h, t),
         TaskOK(t), TaskPermitted(t, answered), events_queue' \in [Event -> Nat],
         UNCHANGED <<mission, service_requests, assignments, released, world>>
  PROVE  RunsWithPermission'
<1>1. answered' = answered
  BY DEF world
<1>2. /\ handler' \in [Handler -> Task]
      /\ \A g \in Handler : TaskOK(handler'[g]) /\ TaskPermitted(handler'[g], answered')
  BY <1>1, TasksPermitted
<1>3. /\ TypeOK
      /\ \A r \in Req : StatusPermitted(r, service_requests'[r].status, answered')
  BY <1>1, InvariantOf
<1>4. QED
  BY <1>2, <1>3, StatementKeeps DEF TypeOK

\* A step that writes permitted rows of service_requests.
LEMMA WriteKeeps ==
  ASSUME RunsWithPermission, NEW h \in Handler, NEW t \in Task, Becomes(h, t),
         TaskOK(t), TaskPermitted(t, answered),
         NEW rows \in SUBSET Req, NEW new, NEW taken, \A e \in taken : Queued(e),
         WriteRequests(rows, new, taken),
         \A r \in rows : new[r] \in RequestRow /\ StatusPermitted(r, new[r].status, answered),
         UNCHANGED <<mission, assignments, released, world>>
  PROVE  RunsWithPermission'
<1>1. answered' = answered
  BY DEF world
<1>2. /\ handler' \in [Handler -> Task]
      /\ \A g \in Handler : TaskOK(handler'[g]) /\ TaskPermitted(handler'[g], answered')
  BY <1>1, TasksPermitted
<1>3. /\ service_requests' \in [Req -> RequestRow]
      /\ events_queue' \in [Event -> Nat]
      /\ \A r \in Req : StatusPermitted(r, service_requests'[r].status, answered')
  BY <1>1, RequestsPermitted
<1>4. TypeOK
  BY DEF RunsWithPermission
<1>5. QED
  BY <1>2, <1>3, <1>4, StatementKeeps DEF TypeOK

\* A step that writes the mission's status.
LEMMA MissionKeeps ==
  ASSUME RunsWithPermission, NEW h \in Handler, NEW t \in Task, Becomes(h, t),
         TaskOK(t), TaskPermitted(t, answered),
         mission' \in MissionStatus, events_queue' \in [Event -> Nat],
         UNCHANGED <<service_requests, assignments, released, world>>
  PROVE  RunsWithPermission'
<1>1. answered' = answered
  BY DEF world
<1>2. /\ handler' \in [Handler -> Task]
      /\ \A g \in Handler : TaskOK(handler'[g]) /\ TaskPermitted(handler'[g], answered')
  BY <1>1, TasksPermitted
<1>3. /\ TypeOK
      /\ \A r \in Req : StatusPermitted(r, service_requests'[r].status, answered')
  BY <1>1, InvariantOf
<1>4. QED
  BY <1>2, <1>3, StatementKeeps DEF TypeOK

\* Rows whose new status permits nothing may be written freely.
LEMMA HarmlessRow ==
  ASSUME NEW row \in RequestRow, NEW results, NEW r,
         row.status \notin {"ready_for_service", "dispatching_service", "pending", "ready"}
  PROVE  StatusPermitted(r, row.status, results)
BY DEF StatusPermitted

----------------------------------------------------------------------------
(* A request is dispatched *)

\* Claiming a request, giving it to its microservice and saving the answer
\* keep the invariant.
LEMMA DispatchingKeeps ==
  ASSUME ServiceAssumption, RunsWithPermission, NEW h \in Handler, Dispatching(h)
  PROVE  RunsWithPermission'
<1> DEFINE r == handler[h].row
<1>1. /\ TypeOK
      /\ handler[h] \in Task
      /\ TaskOK(handler[h])
      /\ TaskPermitted(handler[h], answered)
      /\ \A q \in Req : StatusPermitted(q, service_requests[q].status, answered)
  BY InvariantOf
<1>2. /\ r \in Req \cup {NoRow}
      /\ handler[h].val \in Mark \cup {"error"}
      /\ "-" \in Mark
  BY <1>1 DEF Task, Mark
<1>3. service_requests \in [Req -> RequestRow]
  BY <1>1 DEF TypeOK
<1>4. CASE ClaimRequest(h)
  <2>1. r \in Req
    BY <1>1, <1>4 DEF ClaimRequest, IsAt, TaskOK, RequestPc
  <2>2. PICK rows \in SUBSET Req :
          /\ WriteRequests(rows, WithStatus("dispatching_service"), {})
          /\ \A q \in rows : service_requests[q].status = "ready_for_service"
    BY <1>4, <2>1 DEF ClaimRequest, SetRequestWhere
  <2>3. \A q \in rows :
          /\ WithStatus("dispatching_service")[q] \in RequestRow
          /\ StatusPermitted(q, WithStatus("dispatching_service")[q].status, answered)
    BY <1>1, <1>3, <2>2 DEF WithStatus, RequestRow, ServiceStatus, StatusPermitted
  <2>4. "select" \in Undecided
    BY DEF Undecided, ServicePc
  <2>5. QED
    BY <1>2, <1>4, <2>1, <2>2, <2>3, <2>4, UndecidedTask, WriteKeeps DEF ClaimRequest
<1>5. CASE DropRequest(h)
  <2>1. r \in Req
    BY <1>1, <1>5 DEF DropRequest, IsAt, TaskOK, RequestPc
  <2>2. /\ WithStatus("canceled")[r] \in RequestRow
        /\ StatusPermitted(r, WithStatus("canceled")[r].status, answered)
    BY <1>3, <2>1 DEF WithStatus, RequestRow, ServiceStatus, StatusPermitted
  <2>3. QED
    BY <1>5, <2>1, <2>2, IdleTask, WriteKeeps DEF DropRequest
<1>6. CASE SelectRequest(h)
  <2>1. r \in Req
    BY <1>1, <1>6 DEF SelectRequest, IsAt, TaskOK, RequestPc
  <2>2. events_queue' \in [Event -> Nat]
    BY <1>1, <1>6 DEF SelectRequest, TypeOK
  <2>3. CASE service_requests[r].status = "dispatching_service"
    <3>1. Permitted(r, answered)
      BY <1>1, <2>1, <2>3 DEF StatusPermitted
    <3>2. /\ At("send", r, "-") \in Task
          /\ TaskOK(At("send", r, "-"))
          /\ TaskPermitted(At("send", r, "-"), answered)
      BY <2>1, <3>1 DEF At, Task, ServicePc, NoTodo, Mark, TaskOK, TaskPermitted
    <3>3. QED
      BY <1>6, <2>2, <2>3, <3>2, TaskKeeps DEF SelectRequest
  <2>4. CASE service_requests[r].status # "dispatching_service"
    BY <1>6, <2>2, <2>4, IdleTask, TaskKeeps DEF SelectRequest
  <2>5. QED
    BY <2>3, <2>4
<1>7. CASE SendRequest(h)
  <2>1. r \in Req /\ Permitted(r, answered)
    BY <1>1, <1>7 DEF SendRequest, IsAt, TaskOK, RequestPc, TaskPermitted
  <2>2. PICK reply \in {"ready", "pending", "failed", "canceled"} :
          /\ Becomes(h, At("markPending", r, reply))
          /\ answered' = IF reply = "ready" THEN answered \cup {r} ELSE answered
    BY <1>7 DEF SendRequest, ServiceAssumption
  <2>3. answered \subseteq answered' /\ answered' \subseteq Req
    BY <1>1, <2>1, <2>2 DEF TypeOK
  <2>4. /\ At("markPending", r, reply) \in Task
        /\ TaskOK(At("markPending", r, reply))
        /\ TaskPermitted(At("markPending", r, reply), answered')
    BY <2>1, <2>2, <2>3
    DEF At, Task, ServicePc, NoTodo, Mark, ServiceStatus, TaskOK, TaskPermitted, Permitted
  <2>5. /\ handler' \in [Handler -> Task]
        /\ \A g \in Handler : TaskOK(handler'[g]) /\ TaskPermitted(handler'[g], answered')
    BY <2>2, <2>3, <2>4, TasksPermitted
  <2>6. calls' \in [Req -> Nat] /\ \A q \in Req \ {r} : calls'[q] = calls[q]
    BY <1>1, <1>7, <2>1 DEF SendRequest, TypeOK
  <2>7. CalledAfterDependencies'
    BY <2>1, <2>3, <2>6 DEF RunsWithPermission, CalledAfterDependencies, Permitted
  <2>8. TypeOK'
    BY <1>1, <1>7, <2>3, <2>5, <2>6 DEF SendRequest, TypeOK
  <2>9. \A q \in Req : StatusPermitted(q, service_requests'[q].status, answered')
    BY <1>1, <1>7, <2>3, PermissionGrows DEF SendRequest
  <2>10. QED
    BY <2>5, <2>7, <2>8, <2>9 DEF RunsWithPermission
<1>8. CASE SendFails(h)
  <2>1. r \in Req
    BY <1>1, <1>8 DEF SendFails, IsAt, TaskOK, RequestPc
  <2>2. "sendFailed" \in Undecided
    BY DEF Undecided, ServicePc
  <2>3. events_queue' \in [Event -> Nat]
    BY <1>1, <1>8 DEF SendFails, TypeOK
  <2>4. QED
    BY <1>2, <1>8, <2>1, <2>2, <2>3, UndecidedTask, TaskKeeps DEF SendFails
<1>9. CASE SaveSendFailure(h)
  <2>1. r \in Req
    BY <1>1, <1>9 DEF SaveSendFailure, IsAt, TaskOK, RequestPc
  <2> DEFINE new == WithAnswer("failed", TRUE, {})
  <2>2. PICK rows \in SUBSET Req : WriteRequests(rows, new, {})
    BY <1>9, <2>1 DEF SaveSendFailure
  <2>3. \A q \in Req : new[q] \in RequestRow /\ new[q].status = "failed"
    BY <1>3 DEF WithAnswer, RequestRow, ServiceStatus
  <2> HIDE DEF new
  <2>4. \A q \in rows : new[q] \in RequestRow /\ StatusPermitted(q, new[q].status, answered)
    BY <2>3 DEF StatusPermitted
  <2>5. Becomes(h, Idle) /\ UNCHANGED <<mission, assignments, released, world>>
    BY <1>9 DEF SaveSendFailure
  <2>6. QED
    BY <2>2, <2>4, <2>5, IdleTask, WriteKeeps
<1>10. CASE MarkPending(h)
  <2> DEFINE reply == handler[h].val
             saved == IF reply = "pending" /\ service_requests[r].status # "dispatching_service"
                        THEN "canceled" ELSE reply
  <2>1. /\ r \in Req /\ Permitted(r, answered)
        /\ reply \in {"ready", "pending", "failed", "canceled"}
        /\ reply = "ready" => r \in answered
    BY <1>1, <1>10 DEF MarkPending, IsAt, TaskOK, RequestPc, TaskPermitted
  <2>2. PICK rows \in SUBSET Req :
          /\ WriteRequests(rows, WithStatus("pending"), {})
          /\ rows \subseteq {r}
    BY <1>10, <2>1 DEF MarkPending, SetRequestWhere
  <2>3. \A q \in rows :
          /\ WithStatus("pending")[q] \in RequestRow
          /\ StatusPermitted(q, WithStatus("pending")[q].status, answered)
    BY <1>3, <2>1, <2>2 DEF WithStatus, RequestRow, ServiceStatus, StatusPermitted
  <2>4. /\ saved \in {"ready", "pending", "failed", "canceled"}
        /\ saved = "ready" => r \in answered
    BY <2>1
  <2>5. Becomes(h, At("saveResponse", r, saved))
    BY <1>10 DEF MarkPending
  <2> HIDE DEF saved
  <2>6. /\ At("saveResponse", r, saved) \in Task
        /\ TaskOK(At("saveResponse", r, saved))
        /\ TaskPermitted(At("saveResponse", r, saved), answered)
    BY <2>1, <2>4 DEF At, Task, ServicePc, NoTodo, Mark, ServiceStatus, TaskOK, TaskPermitted
  <2>7. QED
    BY <1>10, <2>2, <2>3, <2>5, <2>6, WriteKeeps DEF MarkPending
<1>11. CASE SaveResponse(h)
  <2> DEFINE status == handler[h].val
  <2>1. /\ r \in Req /\ Permitted(r, answered)
        /\ status \in {"ready", "pending", "failed", "canceled"}
        /\ status = "ready" => r \in answered
    BY <1>1, <1>11 DEF SaveResponse, IsAt, TaskOK, RequestPc, TaskPermitted
  <2>2. PICK skip \in SUBSET Req, rows \in SUBSET Req :
          /\ rows \subseteq {r}
          /\ WriteRequests(rows, WithAnswer(status, status # "pending", skip), {})
    BY <1>11, <2>1 DEF SaveResponse, Dependents
  <2> DEFINE new == WithAnswer(status, status # "pending", skip)
  <2>3. \A q \in Req : new[q] \in RequestRow /\ new[q].status = status
    BY <1>3, <2>1 DEF WithAnswer, RequestRow, ServiceStatus
  <2>4. WriteRequests(rows, new, {})
    BY <2>2
  <2> HIDE DEF new
  <2>5. \A q \in rows : new[q] \in RequestRow /\ StatusPermitted(q, new[q].status, answered)
    BY <2>1, <2>2, <2>3 DEF StatusPermitted
  <2>6. Becomes(h, Idle) /\ UNCHANGED <<mission, assignments, released, world>>
    BY <1>11 DEF SaveResponse
  <2>7. QED
    BY <2>4, <2>5, <2>6, IdleTask, WriteKeeps
<1>12. QED
  BY <1>4, <1>5, <1>6, <1>7, <1>8, <1>9, <1>10, <1>11 DEF Dispatching

----------------------------------------------------------------------------
(* The next requests are activated *)

\* A request becomes ready for service only if determineServiceRequestStatus
\* found every dependency ready.
LEMMA DetermineStatusPermits ==
  ASSUME RunsWithPermission, NEW q \in Req
  PROVE  /\ DetermineStatus(q) \in {"skipped", "wait_dependencies", "ready_for_service"}
         /\ DetermineStatus(q) = "ready_for_service" => Permitted(q, answered)
<1>1. DetermineStatus(q) \in {"skipped", "wait_dependencies", "ready_for_service"}
  BY DEF DetermineStatus
<1>2. ASSUME DetermineStatus(q) = "ready_for_service"
      PROVE  \A d \in DependsOn[q] : service_requests[d].status = "ready"
  BY <1>2 DEF DetermineStatus
<1>3. ASSUME NEW d \in Req, service_requests[d].status = "ready"
      PROVE  d \in answered
  BY <1>3 DEF RunsWithPermission, StatusPermitted
<1>4. DependsOn[q] \subseteq Req
  BY PipelineAssumption
<1>5. QED
  BY <1>1, <1>2, <1>3, <1>4 DEF Permitted

\* The pipeline's activation of the next requests and the watcher's release
\* keep the invariant.
LEMMA ActivatingKeeps ==
  ASSUME RunsWithPermission, NEW h \in Handler, Activating(h)
  PROVE  RunsWithPermission'
<1> DEFINE r == handler[h].row
<1>1. /\ TypeOK
      /\ handler[h] \in Task
      /\ TaskOK(handler[h])
      /\ TaskPermitted(handler[h], answered)
      /\ \A q \in Req : StatusPermitted(q, service_requests[q].status, answered)
  BY InvariantOf
<1>2. /\ service_requests \in [Req -> RequestRow]
      /\ events_queue \in [Event -> Nat]
  BY <1>1 DEF TypeOK
<1>3. CASE ListNext(h)
  <2> DEFINE waiting == {q \in NextReq[r] : service_requests[q].status = "not_ready_for_service"}
             start == [At("updateNext", r, "-") EXCEPT
                         !.todo = [x \in Row |-> IF x \in waiting THEN "not_ready_for_service"
                                                 ELSE "-"]]
  <2>1. r \in Req
    BY <1>1, <1>3 DEF ListNext, IsAt, TaskOK, RequestPc
  <2>2. start = [pc |-> "updateNext", row |-> r, val |-> "-",
                 todo |-> [x \in Row |-> IF x \in waiting THEN "not_ready_for_service" ELSE "-"]]
    BY DEF At
  <2>3. start \in Task /\ TaskOK(start) /\ TaskPermitted(start, answered)
    BY <2>1, <2>2 DEF Task, ServicePc, Mark, ServiceStatus, TaskOK, TaskPermitted, Row
  <2>4. Becomes(h, Idle) \/ Becomes(h, start)
    BY <1>3 DEF ListNext
  <2> HIDE DEF start
  <2>5. events_queue' \in [Event -> Nat]
        /\ UNCHANGED <<mission, service_requests, assignments, released, world>>
    BY <1>2, <1>3 DEF ListNext
  <2>6. QED
    BY <2>3, <2>4, <2>5, IdleTask, TaskKeeps
<1>4. CASE ReleaseRequest(h)
  <2>1. r \in Req /\ Permitted(r, answered)
    BY <1>1, <1>4 DEF ReleaseRequest, IsAt, TaskOK, RequestPc, TaskPermitted
  <2>2. PICK rows \in SUBSET Req :
          /\ rows \subseteq {r}
          /\ WriteRequests(rows, WithStatus("ready_for_service"), {})
    BY <1>4, <2>1 DEF ReleaseRequest, SetRequestWhere
  <2>3. \A q \in rows :
          /\ WithStatus("ready_for_service")[q] \in RequestRow
          /\ StatusPermitted(q, WithStatus("ready_for_service")[q].status, answered)
    BY <1>2, <2>1, <2>2 DEF WithStatus, RequestRow, ServiceStatus, StatusPermitted
  <2>4. QED
    BY <1>4, <2>2, <2>3, IdleTask, WriteKeeps DEF ReleaseRequest
<1>5. ASSUME NEW q \in Req, DetermineNext(h, q)
      PROVE  RunsWithPermission'
  <2> DEFINE t == [handler[h] EXCEPT !.todo[q] = DetermineStatus(q)]
  <2>1. /\ handler[h].pc = "updateNext" /\ r \in Req
        /\ Becomes(h, t)
        /\ UNCHANGED <<mission, service_requests, assignments, events_queue, released, world>>
    BY <1>1, <1>5 DEF DetermineNext, IsAt, TaskOK, RequestPc
  <2>2. DetermineStatus(q) \in Mark
    BY DetermineStatusPermits DEF Mark, ServiceStatus
  <2>3. t \in Task /\ t.pc = "updateNext" /\ t.row = r
    BY <1>1, <2>1, <2>2 DEF Task
  <2>4. \A x \in Req : t.todo[x] = IF x = q THEN DetermineStatus(q) ELSE handler[h].todo[x]
    BY <1>1 DEF Task, Row
  <2> HIDE DEF t
  <2>5. TaskOK(t) /\ TaskPermitted(t, answered)
    BY <1>1, <2>1, <2>3, <2>4, DetermineStatusPermits DEF TaskOK, TaskPermitted
  <2>6. QED
    BY <1>2, <2>1, <2>3, <2>5, TaskKeeps
<1>6. ASSUME NEW q \in Req, WriteNext(h, q)
      PROVE  RunsWithPermission'
  <2> DEFINE s == handler[h].todo[q]
             new == [x \in Req |-> [NewRequest(x) EXCEPT !.status = s]]
             rest == [handler[h] EXCEPT !.todo[q] = "-"]
  <2>1. /\ handler[h].pc = "updateNext" /\ r \in Req
        /\ WriteRequests({q}, new, {})
        /\ Becomes(h, Idle) \/ Becomes(h, rest)
        /\ UNCHANGED <<mission, assignments, released, world>>
    BY <1>1, <1>6 DEF WriteNext, DoneWith, IsAt, TaskOK, RequestPc
  <2>2. /\ s \in {"skipped", "wait_dependencies", "ready_for_service"}
        /\ s = "ready_for_service" => Permitted(q, answered)
    BY <1>1, <1>6, <2>1 DEF WriteNext, TaskOK, TaskPermitted
  <2>3. new[q] \in RequestRow /\ new[q].status = s
    BY <2>2 DEF NewRequest, RequestRow, ServiceStatus
  <2>4. rest \in Task /\ rest.pc = "updateNext" /\ rest.row = r
    BY <1>1, <2>1 DEF Task, Mark
  <2>5. \A x \in Req : rest.todo[x] = IF x = q THEN "-" ELSE handler[h].todo[x]
    BY <1>1 DEF Task, Row
  <2> HIDE DEF rest, new
  <2>6. TaskOK(rest) /\ TaskPermitted(rest, answered)
    BY <1>1, <2>1, <2>4, <2>5 DEF TaskOK, TaskPermitted
  <2>7. StatusPermitted(q, new[q].status, answered)
    BY <2>2, <2>3 DEF StatusPermitted
  <2>8. QED
    BY <2>1, <2>3, <2>4, <2>6, <2>7, IdleTask, WriteKeeps
<1>7. QED
  BY <1>3, <1>4, <1>5, <1>6 DEF Activating

----------------------------------------------------------------------------
(* A computation ends *)

\* Time-outs, failures, confirmed cancels and the end of the pipeline permit
\* no request to run.
LEMMA EndingKeeps ==
  ASSUME RunsWithPermission, NEW h \in Handler, MarkCalculating(h) \/ Ending(h)
  PROVE  RunsWithPermission'
<1> DEFINE r == handler[h].row
<1>0. /\ {"calculating", "planning_failed", "assignments_completed"} \subseteq MissionStatus
      /\ \A e \in {} : Queued(e)
  BY DEF MissionStatus
<1>1. /\ TypeOK
      /\ TaskOK(handler[h])
      /\ service_requests \in [Req -> RequestRow]
  BY InvariantOf DEF TypeOK
<1>2. ASSUME NEW rows \in SUBSET Req, NEW new, NEW s \in {"time-out", "failed", "canceled"},
             \A q \in Req : new[q] \in RequestRow /\ new[q].status = s,
             WriteRequests(rows, new, {}), Becomes(h, Idle),
             UNCHANGED <<mission, assignments, released, world>>
      PROVE  RunsWithPermission'
  <2>1. \A q \in rows : new[q] \in RequestRow /\ StatusPermitted(q, new[q].status, answered)
    BY <1>2 DEF StatusPermitted
  <2>2. QED
    BY <1>2, <2>1, IdleTask, WriteKeeps
<1>3. CASE MarkCalculating(h)
  <2>1. PICK allowed : SetMissionWhere(allowed, "calculating", {})
    BY <1>3 DEF MarkCalculating
  <2>2. mission' \in MissionStatus /\ events_queue' \in [Event -> Nat]
    BY <1>0, <1>1, <2>1, MissionWhereTyped
  <2>3. QED
    BY <1>3, <2>2, IdleTask, MissionKeeps DEF MarkCalculating
<1>4. CASE SaveTimeout(h)
  <2> DEFINE new == WithAnswer("time-out", FALSE, {})
  <2>1. \A q \in Req : new[q] \in RequestRow /\ new[q].status = "time-out"
    BY <1>1 DEF WithAnswer, RequestRow, ServiceStatus
  <2>2. PICK rows \in SUBSET Req : WriteRequests(rows, new, {})
    BY <1>1, <1>4 DEF SaveTimeout, IsAt, TaskOK, RequestPc
  <2>3. Becomes(h, Idle) /\ UNCHANGED <<mission, assignments, released, world>>
    BY <1>4 DEF SaveTimeout
  <2> HIDE DEF new
  <2>4. QED
    BY <1>2, <2>1, <2>2, <2>3
<1>5. CASE SaveUnreachable(h)
  <2> DEFINE new == WithAnswer("failed", TRUE, {})
  <2>1. \A q \in Req : new[q] \in RequestRow /\ new[q].status = "failed"
    BY <1>1 DEF WithAnswer, RequestRow, ServiceStatus
  <2>2. PICK rows \in SUBSET Req : WriteRequests(rows, new, {})
    BY <1>1, <1>5 DEF SaveUnreachable, IsAt, TaskOK, RequestPc
  <2>3. Becomes(h, Idle) /\ UNCHANGED <<mission, assignments, released, world>>
    BY <1>5 DEF SaveUnreachable
  <2> HIDE DEF new
  <2>4. QED
    BY <1>2, <2>1, <2>2, <2>3
<1>6. CASE ConfirmCancel(h)
  <2> DEFINE new == WithAnswer("canceled", TRUE, {})
  <2>1. \A q \in Req : new[q] \in RequestRow /\ new[q].status = "canceled"
    BY <1>1 DEF WithAnswer, RequestRow, ServiceStatus
  <2>2. PICK rows \in SUBSET Req : WriteRequests(rows, new, {})
    BY <1>1, <1>6 DEF ConfirmCancel, IsAt, TaskOK, RequestPc
  <2>3. Becomes(h, Idle) /\ UNCHANGED <<mission, assignments, released, world>>
    BY <1>6 DEF ConfirmCancel
  <2> HIDE DEF new
  <2>4. QED
    BY <1>2, <2>1, <2>2, <2>3
<1>7. CASE FailPlanning(h)
  <2>1. mission' \in MissionStatus /\ events_queue' \in [Event -> Nat]
    BY <1>1, <1>7, <1>0, MissionWhereTyped DEF FailPlanning
  <2>2. QED
    BY <1>7, <2>1, IdleTask, MissionKeeps DEF FailPlanning
<1>8. CASE WrapUp(h)
  <2>1. mission' \in MissionStatus /\ events_queue' \in [Event -> Nat]
    BY <1>1, <1>8, <1>0, MissionWhereTyped DEF WrapUp, ServicesLeft
  <2>2. QED
    BY <1>8, <2>1, IdleTask, MissionKeeps DEF WrapUp
<1>9. QED
  BY <1>3, <1>4, <1>5, <1>6, <1>7, <1>8 DEF Ending

----------------------------------------------------------------------------
(* Events, watchers and the end of the mission *)

\* The handler of an event starts with a permitted statement.
LEMMA HandleKeeps ==
  ASSUME RunsWithPermission, NEW h \in Handler, Handle(h)
  PROVE  RunsWithPermission'
<1>1. /\ TypeOK
      /\ handler[h] \in Task
      /\ \A q \in Req : StatusPermitted(q, service_requests[q].status, answered)
      /\ service_requests \in [Req -> RequestRow]
  BY InvariantOf DEF TypeOK
<1>2. ASSUME NEW pc \in Undecided, NEW row \in Req
      PROVE  /\ At(pc, row, "-") \in Task
             /\ TaskOK(At(pc, row, "-"))
             /\ TaskPermitted(At(pc, row, "-"), answered)
  BY UndecidedTask DEF Mark
<1>3. {"drop", "claim", "select", "planningFailed", "wrapUp", "listNext"} \subseteq Undecided
  BY DEF Undecided, ServicePc, WorkProcessPc
<1>4. ASSUME NEW e, Queued(e), TakeAndLeave({e}, {})
      PROVE  events_queue' \in [Event -> Nat]
  BY <1>1, <1>4, QueueTyped
<1>5. PICK r \in Req : \/ HandleInsertion(h, r) \/ HandleReadyForService(h, r)
                       \/ HandleReady(h, r) \/ HandleFailed(h, r) \/ HandleTimeout(h, r)
  BY DEF Handle
<1>6. CASE HandleInsertion(h, r)
  BY <1>2, <1>3, <1>4, <1>6, TaskKeeps DEF HandleInsertion, Starts
<1>7. CASE HandleReadyForService(h, r)
  <2>1. PICK e : /\ Queued(e)
                 /\ SetRequestWhere(r, {"ready_for_service"}, "dispatching_service", {e})
                 /\ Becomes(h, At("select", r, "-"))
                 /\ UNCHANGED <<mission, assignments, released, world>>
    BY <1>7 DEF HandleReadyForService, Starts
  <2>2. PICK rows \in SUBSET Req :
          /\ WriteRequests(rows, WithStatus("dispatching_service"), {e})
          /\ \A q \in rows : service_requests[q].status = "ready_for_service"
    BY <2>1 DEF SetRequestWhere
  <2>3. \A q \in rows :
          /\ WithStatus("dispatching_service")[q] \in RequestRow
          /\ StatusPermitted(q, WithStatus("dispatching_service")[q].status, answered)
    BY <1>1, <2>2 DEF WithStatus, RequestRow, ServiceStatus, StatusPermitted
  <2>4. QED
    BY <1>2, <1>3, <2>1, <2>2, <2>3, WriteKeeps
<1>8. CASE HandleReady(h, r)
  <2>1. PICK e : Queued(e) /\ TakeAndLeave({e}, {})
    BY <1>8 DEF HandleReady, Starts
  <2>2. \/ Becomes(h, At("listNext", r, "-"))
        \/ Becomes(h, At("wrapUp", r, "-"))
        \/ Becomes(h, Idle)
    BY <1>8 DEF HandleReady, AfterReady
  <2>3. UNCHANGED <<mission, service_requests, assignments, released, world>>
    BY <1>8 DEF HandleReady
  <2>4. QED
    BY <1>2, <1>3, <1>4, <2>1, <2>2, <2>3, IdleTask, TaskKeeps
<1>9. CASE HandleFailed(h, r)
  <2>1. PICK e : /\ Queued(e)
                 /\ SetMissionWhere(RunningMission, "planning_failed", {e})
    BY <1>9 DEF HandleFailed, Starts
  <2>2. mission' \in MissionStatus /\ events_queue' \in [Event -> Nat]
    BY <1>1, <2>1, MissionWhereTyped DEF MissionStatus
  <2>3. UNCHANGED <<service_requests, assignments, handler, released, world>>
    BY <1>9 DEF HandleFailed
  <2>4. QED
    BY <1>1, <2>2, <2>3, StatementKeeps DEF TypeOK, RunsWithPermission, world
<1>10. CASE HandleTimeout(h, r)
  <2>1. PICK e : /\ Queued(e)
                 /\ WriteRequests({r}, WithStatus("canceled"), {e})
                 /\ Becomes(h, At("planningFailed", r, "-"))
                 /\ UNCHANGED <<mission, assignments, released, world>>
    BY <1>10 DEF HandleTimeout, Starts
  <2>2. /\ WithStatus("canceled")[r] \in RequestRow
        /\ StatusPermitted(r, WithStatus("canceled")[r].status, answered)
    BY <1>1 DEF WithStatus, RequestRow, ServiceStatus, StatusPermitted
  <2>3. QED
    BY <1>2, <1>3, <2>1, <2>2, WriteKeeps
<1>11. QED
  BY <1>5, <1>6, <1>7, <1>8, <1>9, <1>10

\* A watcher polls only a request that was permitted to run, and lets a
\* request run only if it is permitted.
LEMMA WatchKeeps ==
  ASSUME ServiceAssumption, RunsWithPermission, NEW h \in Handler, Watch(h)
  PROVE  RunsWithPermission'
<1>1. /\ TypeOK
      /\ \A q \in Req : StatusPermitted(q, service_requests[q].status, answered)
      /\ events_queue \in [Event -> Nat]
  BY InvariantOf DEF TypeOK
<1>2. PICK r \in Req : PollService(h, r) \/ FindReleasable(h, r) \/ CancelService(h, r)
  BY DEF Watch
<1>3. CASE PollService(h, r)
  <2>1. PICK reply \in {"ready", "failed", "canceled", "time-out", "error"} :
          /\ Becomes(h, At(CASE reply = "time-out" -> "timedOut"
                             [] reply = "error" -> "unreachable"
                             [] OTHER -> "saveResponse", r, reply))
          /\ answered' = IF reply = "ready" THEN answered \cup {r} ELSE answered
    BY <1>3 DEF PollService, ServiceAssumption
  <2>2. Permitted(r, answered)
    BY <1>1, <1>3 DEF PollService, StatusPermitted
  <2>3. answered \subseteq answered' /\ answered' \subseteq Req
    BY <1>1, <2>1 DEF TypeOK
  <2> DEFINE t == At(CASE reply = "time-out" -> "timedOut"
                       [] reply = "error" -> "unreachable"
                       [] OTHER -> "saveResponse", r, reply)
  <2>4. t \in Task /\ TaskOK(t) /\ TaskPermitted(t, answered')
    BY <2>1, <2>2, <2>3
    DEF At, Task, ServicePc, NoTodo, Mark, ServiceStatus, RequestPc, TaskOK, TaskPermitted, Permitted
  <2> HIDE DEF t
  <2>5. /\ handler' \in [Handler -> Task]
        /\ \A g \in Handler : TaskOK(handler'[g]) /\ TaskPermitted(handler'[g], answered')
    BY <2>1, <2>3, <2>4, TasksPermitted DEF t
  <2>6. CalledAfterDependencies'
    BY <1>3, <2>3 DEF PollService, RunsWithPermission, CalledAfterDependencies
  <2>7. TypeOK'
    BY <1>1, <1>3, <2>3, <2>5 DEF PollService, TypeOK
  <2>8. \A q \in Req : StatusPermitted(q, service_requests'[q].status, answered')
    BY <1>1, <1>3, <2>3, PermissionGrows DEF PollService
  <2>9. QED
    BY <2>5, <2>6, <2>7, <2>8 DEF RunsWithPermission
<1>4. CASE FindReleasable(h, r)
  <2>1. Permitted(r, answered)
    BY <1>4, DetermineStatusPermits DEF FindReleasable
  <2>2. /\ At("release", r, "-") \in Task
        /\ TaskOK(At("release", r, "-"))
        /\ TaskPermitted(At("release", r, "-"), answered)
    BY <2>1 DEF At, Task, ServicePc, NoTodo, Mark, TaskOK, TaskPermitted
  <2>3. QED
    BY <1>1, <1>4, <2>2, TaskKeeps DEF FindReleasable
<1>5. CASE CancelService(h, r)
  <2>1. PICK pc \in {"confirmCancel", "cancelFailed"} : Becomes(h, At(pc, r, "-"))
    BY <1>5 DEF CancelService
  <2>2. pc \in Undecided /\ "-" \in Mark
    BY DEF Undecided, ServicePc, Mark
  <2>3. QED
    BY <1>1, <1>5, <2>1, <2>2, UndecidedTask, TaskKeeps DEF CancelService
<1>6. QED
  BY <1>2, <1>3, <1>4, <1>5

\* Nothing at the end of a mission lets a request run: requests are canceled,
\* the assignments and the mission only change status.
LEMMA MissionEndKeeps ==
  ASSUME RunsWithPermission, NEW h \in Handler, MissionEnds(h)
  PROVE  RunsWithPermission'
<1>1. /\ TypeOK
      /\ handler[h] \in Task
      /\ TaskOK(handler[h])
      /\ \A q \in Req : StatusPermitted(q, service_requests[q].status, answered)
      /\ service_requests \in [Req -> RequestRow]
      /\ assignments \in [Asg -> AssignmentStatus \cup {"absent"}]
      /\ mission \in MissionStatus
      /\ released \in Nat
      /\ handler[h].val \in Mark \cup {"error"}
      /\ "-" \in Mark
  BY InvariantOf DEF TypeOK, Task, Mark
<1>2. UNCHANGED world /\ answered' = answered
  BY DEF MissionEnds, world
<1>3. ASSUME NEW pc \in {"cancelRequests", "cancelWaitingAssignments",
                         "cancelRunningAssignments", "onWorkProcessEnd"},
             NEW val \in Mark \cup {"error"}
      PROVE  /\ At(pc, NoRow, val) \in Task
             /\ TaskOK(At(pc, NoRow, val))
             /\ TaskPermitted(At(pc, NoRow, val), answered)
  <2>1. pc \in Undecided /\ pc \notin RequestPc
    BY DEF Undecided, WorkProcessPc, RequestPc
  <2>2. QED
    BY <2>1, UndecidedTask
<1>4. {"canceled", "failed", "succeeded", "canceling", "planning_failed", "assignment_failed"}
        \subseteq Mark \cap MissionStatus
  BY DEF Mark, MissionStatus
<1>5. \A e \in {} : Queued(e)
  OBVIOUS
<1>6. CASE HandleCanceling(h)
  <2>1. PICK e : Queued(e) /\ SetMissionWhere({"canceling"}, "canceled", {e})
    BY <1>6 DEF HandleCanceling, Starts
  <2>2. mission' \in MissionStatus /\ events_queue' \in [Event -> Nat]
    BY <1>1, <1>4, <2>1, MissionWhereTyped
  <2>3. QED
    BY <1>2, <1>3, <1>4, <1>6, <2>2, MissionKeeps DEF HandleCanceling
<1>7. CASE HandleFailure(h)
  <2>1. PICK s \in {"assignment_failed", "planning_failed"}, e \in Event :
          /\ Queued(e)
          /\ SetMissionWhere({s}, "failed", {e})
          /\ Becomes(h, At("cancelRequests", NoRow, s))
    BY <1>7 DEF HandleFailure, Starts, Queued
  <2>2. mission' \in MissionStatus /\ events_queue' \in [Event -> Nat]
    BY <1>1, <1>4, <2>1, MissionWhereTyped
  <2>3. QED
    BY <1>2, <1>3, <1>4, <1>7, <2>1, <2>2, MissionKeeps DEF HandleFailure
<1>8. CASE HandleCompleted(h)
  <2>1. PICK e \in Event, s \in {"canceled", "succeeded"} :
          /\ Queued(e)
          /\ TakeAndLeave({e}, {})
          /\ Becomes(h, At("endMission", NoRow, s))
    BY <1>8 DEF HandleCompleted, Starts, Queued
  <2>2. events_queue' \in [Event -> Nat]
    BY <1>1, <2>1, QueueTyped
  <2>3. /\ At("endMission", NoRow, s) \in Task
        /\ TaskOK(At("endMission", NoRow, s))
        /\ TaskPermitted(At("endMission", NoRow, s), answered)
    BY <1>4, <2>1 DEF At, Task, WorkProcessPc, NoTodo, Mark, RequestPc, TaskOK, TaskPermitted
  <2>4. QED
    BY <1>2, <1>8, <2>1, <2>2, <2>3, TaskKeeps DEF HandleCompleted
<1>9. CASE EndMission(h)
  <2>1. handler[h].val \in Mark \cap MissionStatus
    BY <1>1, <1>4, <1>9 DEF EndMission, IsAt, TaskOK
  <2>2. mission' \in MissionStatus /\ events_queue' \in [Event -> Nat]
    BY <1>1, <1>5, <1>9, <2>1, MissionTyped DEF EndMission
  <2>3. QED
    BY <1>1, <1>2, <1>3, <1>9, <2>2, MissionKeeps DEF EndMission
<1>10. CASE CancelRequests(h)
  <2>1. PICK rows \in SUBSET Req : WriteRequests(rows, WithStatus("canceled"), {})
    BY <1>10 DEF CancelRequests, RequestsIn
  <2>2. \A q \in rows :
          /\ WithStatus("canceled")[q] \in RequestRow
          /\ StatusPermitted(q, WithStatus("canceled")[q].status, answered)
    BY <1>1, <2>1 DEF WithStatus, RequestRow, ServiceStatus, StatusPermitted
  <2>3. QED
    BY <1>1, <1>2, <1>3, <1>10, <2>1, <2>2, WriteKeeps DEF CancelRequests
<1>11. ASSUME NEW rows, NEW s \in AssignmentStatus, NEW pc \in {"cancelRunningAssignments", "onWorkProcessEnd"},
              SetAssignments(rows, s, {}), Becomes(h, At(pc, NoRow, handler[h].val)),
              UNCHANGED <<mission, service_requests, released>>
       PROVE  RunsWithPermission'
  <2>1. assignments' \in [Asg -> AssignmentStatus \cup {"absent"}]
    BY <1>1, <1>11 DEF SetAssignments
  <2>2. events_queue' \in [Event -> Nat]
    BY <1>1, <1>5, <1>11, QueueTyped DEF SetAssignments
  <2>3. /\ handler' \in [Handler -> Task]
        /\ \A g \in Handler : TaskOK(handler'[g]) /\ TaskPermitted(handler'[g], answered')
    BY <1>1, <1>2, <1>3, <1>11, TasksPermitted
  <2>4. QED
    BY <1>1, <1>2, <1>11, <2>1, <2>2, <2>3, StatementKeeps
<1>12. {"canceled", "canceling"} \subseteq AssignmentStatus
  BY DEF AssignmentStatus
<1>13. CASE CancelWaitingAssignments(h)
  BY <1>11, <1>12, <1>13 DEF CancelWaitingAssignments
<1>14. CASE CancelRunningAssignments(h)
  BY <1>11, <1>12, <1>14 DEF CancelRunningAssignments
<1>15. CASE OnWorkProcessEnd(h)
  <2>1. released' \in Nat /\ Becomes(h, Idle)
        /\ UNCHANGED <<mission, service_requests, assignments, events_queue>>
    BY <1>1, <1>15 DEF OnWorkProcessEnd
  <2>2. /\ handler' \in [Handler -> Task]
        /\ \A g \in Handler : TaskOK(handler'[g]) /\ TaskPermitted(handler'[g], answered')
    BY <1>2, <2>1, IdleTask, TasksPermitted
  <2>3. QED
    BY <1>1, <1>2, <2>1, <2>2, StatementKeeps DEF TypeOK
<1>16. QED
  BY <1>6, <1>7, <1>8, <1>9, <1>10, <1>13, <1>14, <1>15 DEF MissionEnds, WorkProcessHandler

\* Neither does the user's cancel.
LEMMA UserCancelsKeeps ==
  ASSUME CancelableAssumption, RunsWithPermission, UserCancels, UNCHANGED world
  PROVE  RunsWithPermission'
<1>1. TypeOK
  BY DEF RunsWithPermission
<1>2. "canceling" \in MissionStatus
  BY DEF MissionStatus
<1>3. PICK left : TakeAndLeave({}, left)
  BY DEF UserCancels, SetMission
<1>4. mission' \in MissionStatus /\ events_queue' \in [Event -> Nat]
  <2>1. \A e \in {} : Queued(e)
    OBVIOUS
  <2>2. mission' \in MissionStatus
    BY <1>2 DEF UserCancels, SetMission
  <2>3. events_queue' \in [Event -> Nat]
    BY <1>1, <1>3, <2>1, QueueTyped
  <2>4. QED
    BY <2>2, <2>3
<1>5. /\ answered' = answered
      /\ UNCHANGED <<service_requests, assignments, handler, released>>
  BY DEF UserCancels, world
<1>6. /\ service_requests' \in [Req -> RequestRow]
      /\ assignments' \in [Asg -> AssignmentStatus \cup {"absent"}]
      /\ handler' \in [Handler -> Task]
      /\ released' \in Nat
  BY <1>1, <1>5 DEF TypeOK
<1>7. /\ \A r \in Req : StatusPermitted(r, service_requests'[r].status, answered')
      /\ \A h \in Handler : TaskOK(handler'[h]) /\ TaskPermitted(handler'[h], answered')
  BY <1>5 DEF RunsWithPermission
<1>8. QED
  BY <1>4, <1>6, <1>7, StatementKeeps

----------------------------------------------------------------------------
(* The theorems *)

\* A pipeline that has just been inserted is permitted: only the requests
\* without dependencies are ready for service.
LEMMA InitPermitted == Init => RunsWithPermission
<1> SUFFICES ASSUME Init PROVE RunsWithPermission
  OBVIOUS
<1>1. \A r \in Req : NewRequest(r) \in RequestRow /\ StatusPermitted(r, NewRequest(r).status, {})
  BY DEF NewRequest, RequestRow, ServiceStatus, StatusPermitted, Permitted
<1>2. service_requests \in [Req -> RequestRow]
      /\ \A r \in Req : StatusPermitted(r, service_requests[r].status, answered)
  BY <1>1 DEF Init
<1>3. "calculating" \in Undecided /\ "-" \in Mark
  BY DEF Undecided, ServicePc, Mark
<1>4. \A h \in Handler : handler[h] \in {Idle, At("calculating", NoRow, "-")}
  BY DEF Init
<1>5. \A t \in {Idle, At("calculating", NoRow, "-")} :
        t \in Task /\ TaskOK(t) /\ TaskPermitted(t, answered)
  BY <1>3, IdleTask, UndecidedTask DEF RequestPc
<1>6. handler \in [Handler -> Task]
  BY <1>4, <1>5 DEF Init
<1>7. mission \in MissionStatus /\ released \in Nat /\ answered \subseteq Req
  BY DEF Init, MissionStatus
<1>8. calls = [r \in Req |-> 0]
  BY DEF Init
<1>9. events_queue \in [Event -> Nat]
  BY DEF Init
<1>10. assignments \in [Asg -> AssignmentStatus \cup {"absent"}]
  BY DEF Init
<1>11. calls \in [Req -> Nat] /\ CalledAfterDependencies
  BY <1>8 DEF CalledAfterDependencies
<1>12. QED
  BY <1>2, <1>4, <1>5, <1>6, <1>7, <1>9, <1>10, <1>11 DEF RunsWithPermission, TypeOK

\* Every step of every computation, watcher and user keeps the invariant.
LEMMA NextPermitted ==
  RunsWithPermission /\ [Next]_svcVars => RunsWithPermission'
<1> SUFFICES ASSUME RunsWithPermission, [Next]_svcVars PROVE RunsWithPermission'
  OBVIOUS
<1>1. CASE UserCancels /\ UNCHANGED world
  BY <1>1, UserCancelsKeeps, CancelableAssumption
<1>2. ASSUME NEW h \in Handler, Continue(h)
      PROVE  RunsWithPermission'
  BY <1>2, ServiceAssumption, DispatchingKeeps, ActivatingKeeps, EndingKeeps DEF Continue
<1>3. ASSUME NEW h \in Handler, Handle(h) \/ Watch(h) \/ MissionEnds(h)
      PROVE  RunsWithPermission'
  BY <1>3, ServiceAssumption, HandleKeeps, WatchKeeps, MissionEndKeeps
<1>4. CASE UNCHANGED svcVars
  BY <1>4 DEF svcVars, wpVars, dbVars, RunsWithPermission, TypeOK, CalledAfterDependencies
<1>5. QED
  BY <1>1, <1>2, <1>3, <1>4 DEF Next

\* The tables, the queue and the computations in flight keep their types,
\* and every request that runs was permitted to.
THEOREM PermissionInvariant == Spec => []RunsWithPermission
<1>1. Init => RunsWithPermission
  BY InitPermitted
<1>2. RunsWithPermission /\ [Next]_svcVars => RunsWithPermission'
  BY NextPermitted
<1>3. QED
  BY <1>1, <1>2, PTL DEF Spec

\* The tables, the events and the computations in flight have their types in
\* every reachable state.
THEOREM TypeCorrect == Spec => []TypeOK
<1>1. RunsWithPermission => TypeOK
  BY DEF RunsWithPermission
<1>2. QED
  BY <1>1, PermissionInvariant, PTL

\* No microservice is given a job before the microservices of the steps it
\* depends on have delivered their results, however many handlers and
\* watchers of however many nodes overlap.
THEOREM DependenciesAnswerFirst == Spec => []CalledAfterDependencies
<1>1. RunsWithPermission => CalledAfterDependencies
  BY DEF RunsWithPermission
<1>2. QED
  BY <1>1, PermissionInvariant, PTL
----------------------------------------------------------------------------
(* The mission ends once.  As long as the user does not cancel a completed  *)
(* mission, which EndMission would overwrite, one event is left by the      *)
(* status that ends the mission, one computation takes it, and it releases  *)
(* the agents.                                                              *)

Outcome == {"succeeded", "failed", "canceled"}

\* The statuses a mission has before it ends; hidden in the proofs, where a
\* string with a blank is not for the arithmetic prover.
Early == {"preparing resources", "dispatched", "calculating", "executing"}

\* A computation that ends the mission.
Ends(t) == t.pc \in WorkProcessPc
NobodyEnds == \A h \in Handler : ~Ends(handler[h])

\* The end of the mission is at one place: in an event, with a computation,
\* or behind it, when the agents are released.
EndsOnce ==
  /\ \A s \in HandledMission :
       /\ events_queue[MissionEvent(s)] \in {0, 1}
       /\ events_queue[MissionEvent(s)] = 1 => mission = s /\ released = 0 /\ NobodyEnds
  /\ \A h \in Handler : Ends(handler[h]) =>
       /\ released = 0
       /\ handler[h].pc = "endMission" => mission = "assignments_completed"
       /\ handler[h].pc # "endMission" => mission \in Outcome
       /\ \A g \in Handler : Ends(handler[g]) => g = h
  /\ released \in {0, 1}
  /\ released = 1 => mission \in Outcome /\ NobodyEnds

\* What every step does.
EndKept == EndsOnce' /\ (mission \in Outcome => mission' = mission)

\* A step of computations that do not end the mission.
OthersMove ==
  \A g \in Handler : handler'[g] = handler[g] \/ (~Ends(handler[g]) /\ ~Ends(handler'[g]))

\* The events that end the mission wait as before.
SameEnds ==
  \A s \in HandledMission : events_queue'[MissionEvent(s)] = events_queue[MissionEvent(s)]

\* Events that are not about the mission.
Apart(E) == \A e \in E : e.channel # "work_processes_update"

\* An early status is none that ends the mission.
LEMMA EarlyFacts ==
  /\ RunningMission \subseteq Early
  /\ \A s \in Early : s \notin HandledMission /\ s \notin Outcome /\ s # "assignments_completed"
  /\ \A s \in Outcome : s \notin HandledMission
BY Zenon DEF RunningMission, Early, HandledMission, Outcome

\* Events that end the mission are events, and differ by their status.
LEMMA MissionEvents ==
  /\ \A s \in HandledMission : MissionEvent(s) \in Event
  /\ \A s, t : MissionEvent(s) = MissionEvent(t) => s = t
  /\ \A s : MissionEvent(s).channel = "work_processes_update"
  /\ \A s : MissionEvent(s) \in Event => s \in HandledMission
<1>1. \A s \in HandledMission : MissionEvent(s) \in Event
  BY DEF Event
<1>2. \A s : MissionEvent(s).channel = "work_processes_update" /\ MissionEvent(s).status = s
  BY DEF MissionEvent
<1>3. ASSUME NEW s, MissionEvent(s) \in Event
      PROVE  s \in HandledMission
  <2>1. \A r \in Req : InsertionEvent(r).channel = "service_requests_insertion"
    BY DEF InsertionEvent
  <2>2. \A r \in Req, u \in HandledRequest, d \in BOOLEAN : RequestEvent(r, u, d).channel = "service_requests_update"
    BY DEF RequestEvent
  <2>3. \A a \in Asg, u \in HandledAssignment : AssignmentEvent(a, u).channel = "assignments_status_update"
    BY DEF AssignmentEvent
  <2>4. PICK t \in HandledMission : MissionEvent(s) = MissionEvent(t)
    BY <1>2, <1>3, <2>1, <2>2, <2>3 DEF Event
  <2> QED
    BY <1>2, <2>4
<1> QED
  BY <1>1, <1>2, <1>3

\* A statement about other tables takes and leaves no such event.
LEMMA ApartSame ==
  ASSUME TypeOK, NEW taken, NEW left, Apart(taken), Apart(left), TakeAndLeave(taken, left)
  PROVE  SameEnds
<1> SUFFICES ASSUME NEW s \in HandledMission
             PROVE  events_queue'[MissionEvent(s)] = events_queue[MissionEvent(s)]
  BY DEF SameEnds
<1>1. MissionEvent(s) \in Event /\ MissionEvent(s) \notin taken /\ MissionEvent(s) \notin left
  BY MissionEvents DEF Apart
<1>2. events_queue[MissionEvent(s)] \in Nat
  BY <1>1 DEF TypeOK
<1> QED
  BY <1>1, <1>2 DEF TakeAndLeave

\* Statements on the requests and the assignments are such.
LEMMA WriteSame ==
  ASSUME TypeOK, NEW rows, NEW new, NEW taken, Apart(taken), WriteRequests(rows, new, taken)
  PROVE  SameEnds
<1>1. Apart({RequestEvent(r, new[r].status, new[r].assignment_dispatched) : r \in rows})
  BY DEF Apart, RequestEvent
<1> QED
  BY <1>1, ApartSame DEF WriteRequests

\* The events of a statement about assignments are not about the mission.
LEMMA AssignmentsSame ==
  ASSUME TypeOK, NEW rows, NEW s, NEW taken, Apart(taken), SetAssignments(rows, s, taken)
  PROVE  SameEnds
<1>1. Apart({AssignmentEvent(a, s) : a \in {b \in rows : assignments[b] # s}})
  BY DEF Apart, AssignmentEvent
<1> QED
  BY <1>1, ApartSame DEF SetAssignments

\* A step that touches neither the mission nor its end keeps the invariant.
LEMMA QuietKept ==
  ASSUME EndsOnce, UNCHANGED <<mission, released>>, SameEnds, OthersMove
  PROVE  EndKept
<1>1. \A g \in Handler : Ends(handler'[g]) <=> Ends(handler[g])
  BY DEF OthersMove
<1>2. \A g \in Handler : Ends(handler'[g]) => handler'[g] = handler[g]
  BY DEF OthersMove
<1>3. NobodyEnds => NobodyEnds'
  BY <1>1 DEF NobodyEnds
<1> QED
  BY <1>1, <1>2, <1>3 DEF EndKept, EndsOnce, SameEnds

\* So does a statement that writes a status over an early one.
LEMMA EarlyKept ==
  ASSUME TypeOK, EndsOnce, UNCHANGED released, OthersMove, mission \in Early,
         NEW s, NEW taken, Apart(taken), SetMission(s, taken)
  PROVE  EndKept
<1>1. /\ mission \notin Outcome /\ mission # "assignments_completed"
      /\ \A t \in HandledMission : mission # t
  BY EarlyFacts
<1>2. released = 0 /\ NobodyEnds
  BY <1>1 DEF EndsOnce, NobodyEnds
<1>3. NobodyEnds'
  BY <1>2 DEF OthersMove, NobodyEnds
<1>4. ASSUME NEW t \in HandledMission
      PROVE  events_queue'[MissionEvent(t)] = IF t = s THEN 1 ELSE 0
  <2>1. events_queue[MissionEvent(t)] = 0
    BY <1>1 DEF EndsOnce
  <2>2. MissionEvent(t) \in Event /\ MissionEvent(t) \notin taken
    BY MissionEvents DEF Apart
  <2>3. MissionEvent(t) \in (IF s = mission THEN {} ELSE {MissionEvent(s)}) <=> t = s
    BY <1>1, MissionEvents
  <2> QED
    BY <2>1, <2>2, <2>3 DEF SetMission, TakeAndLeave
<1>5. mission' = s
  BY DEF SetMission
<1>6. ASSUME NEW t \in HandledMission
      PROVE  /\ events_queue'[MissionEvent(t)] \in {0, 1}
             /\ events_queue'[MissionEvent(t)] = 1 => mission' = t /\ released' = 0 /\ NobodyEnds'
  BY <1>2, <1>3, <1>4, <1>5
<1>7. EndsOnce'
  BY <1>2, <1>3, <1>6 DEF EndsOnce, NobodyEnds
<1> QED
  BY <1>1, <1>7 DEF EndKept

\* Nearly all statements on the mission ask for an early status.
LEMMA EarlyWhereKept ==
  ASSUME TypeOK, EndsOnce, UNCHANGED released, OthersMove,
         NEW allowed, allowed \subseteq Early,
         NEW s, NEW taken, Apart(taken), SetMissionWhere(allowed, s, taken)
  PROVE  EndKept
<1>1. CASE mission \in allowed
  <2>1. mission \in Early /\ SetMission(s, taken)
    BY <1>1 DEF SetMissionWhere
  <2> QED
    BY <2>1, EarlyKept
<1>2. CASE mission \notin allowed
  <2>1. TakeAndLeave(taken, {}) /\ Apart({})
    BY <1>2 DEF SetMissionWhere, Apart
  <2>2. SameEnds
    BY <2>1, ApartSame
  <2> QED
    BY <1>2, <2>2, QuietKept DEF SetMissionWhere
<1> QED
  BY <1>1, <1>2

----------------------------------------------------------------------------
(* The steps of the pipeline *)

\* A computation of the pipeline goes on with the pipeline.
LEMMA MoveOthers ==
  ASSUME TypeOK, NEW h \in Handler, ~Ends(handler[h]), NEW t, ~Ends(t), Becomes(h, t)
  PROVE  OthersMove
<1>1. \A g \in Handler : handler'[g] = IF g = h THEN t ELSE handler[g]
  BY DEF TypeOK, Becomes
<1> QED
  BY <1>1 DEF OthersMove

\* The steps of the pipeline are taken by computations that do not end the mission.
LEMMA PipelineTasks ==
  /\ \A pc \in ServicePc : \A row, val : ~Ends(At(pc, row, val))
  /\ ~Ends(Idle)
  /\ \A t : t.pc \in {"idle"} \cup ServicePc => ~Ends(t)
BY DEF Ends, At, Idle, ServicePc, WorkProcessPc

\* Whatever becomes of its list, a computation keeps its place.
LEMMA TodoKeepsPlace ==
  ASSUME NEW t \in Task, NEW x, NEW v
  PROVE  [t EXCEPT !.todo[x] = v].pc = t.pc
BY DEF Task

\* It moves and at most takes an event that is not about the mission ...
LEMMA MoveKept ==
  ASSUME TypeOK, EndsOnce, NEW h \in Handler, ~Ends(handler[h]), NEW t, ~Ends(t), Becomes(h, t),
         SameEnds, UNCHANGED <<mission, released>>
  PROVE  EndKept
BY MoveOthers, QuietKept

\* ... or writes requests.
LEMMA RequestsKept ==
  ASSUME TypeOK, EndsOnce, NEW h \in Handler, ~Ends(handler[h]), NEW t, ~Ends(t), Becomes(h, t),
         NEW rows, NEW new, NEW taken, Apart(taken), WriteRequests(rows, new, taken),
         UNCHANGED <<mission, released>>
  PROVE  EndKept
BY WriteSame, MoveKept

\* Nothing taken is nothing about the mission.
LEMMA NothingApart == Apart({})
BY DEF Apart

\* Giving a request to its microservice and saving the answer.
LEMMA DispatchingEnds ==
  ASSUME TypeOK, EndsOnce, NEW h \in Handler, Dispatching(h)
  PROVE  EndKept
<1>1. CASE ClaimRequest(h)
  <2>1. /\ ~Ends(handler[h]) /\ UNCHANGED <<mission, released>>
        /\ Becomes(h, At("select", handler[h].row, "-"))
    BY <1>1 DEF ClaimRequest, IsAt, Ends, WorkProcessPc
  <2>2. ~Ends(At("select", handler[h].row, "-"))
    BY PipelineTasks DEF ServicePc
  <2>3. PICK rows : WriteRequests(rows, WithStatus("dispatching_service"), {})
    BY <1>1 DEF ClaimRequest, SetRequestWhere
  <2> QED
    BY <2>1, <2>2, <2>3, NothingApart, RequestsKept
<1>2. CASE DropRequest(h)
  <2>1. /\ ~Ends(handler[h]) /\ UNCHANGED <<mission, released>>
        /\ Becomes(h, Idle) /\ WriteRequests({handler[h].row}, WithStatus("canceled"), {})
    BY <1>2 DEF DropRequest, IsAt, Ends, WorkProcessPc
  <2> QED
    BY <2>1, PipelineTasks, NothingApart, RequestsKept
<1>3. ASSUME SelectRequest(h) \/ SendRequest(h) \/ SendFails(h)
      PROVE  EndKept
  <2>1. /\ ~Ends(handler[h]) /\ UNCHANGED <<mission, released, events_queue>>
    BY <1>3 DEF SelectRequest, SendRequest, SendFails, IsAt, Ends, WorkProcessPc
  <2>2. SameEnds
    BY <2>1 DEF SameEnds
  <2>3. PICK t \in {At("send", handler[h].row, "-"), Idle, At("sendFailed", handler[h].row, "-")}
                     \cup {At("markPending", handler[h].row, reply) : reply \in Replies} :
          Becomes(h, t)
    BY <1>3 DEF SelectRequest, SendRequest, SendFails
  <2>4. ~Ends(t)
    BY <2>3, PipelineTasks DEF ServicePc
  <2> QED
    BY <2>1, <2>2, <2>3, <2>4, MoveKept
<1>4. CASE SaveSendFailure(h)
  <2>1. /\ ~Ends(handler[h]) /\ UNCHANGED <<mission, released>> /\ Becomes(h, Idle)
    BY <1>4 DEF SaveSendFailure, IsAt, Ends, WorkProcessPc
  <2>2. PICK rows, new : WriteRequests(rows, new, {})
    BY <1>4 DEF SaveSendFailure
  <2> QED
    BY <2>1, <2>2, PipelineTasks, NothingApart, RequestsKept
<1>5. CASE MarkPending(h)
  <2>1. /\ ~Ends(handler[h]) /\ UNCHANGED <<mission, released>>
    BY <1>5 DEF MarkPending, IsAt, Ends, WorkProcessPc
  <2>2. PICK val : Becomes(h, At("saveResponse", handler[h].row, val))
    BY <1>5 DEF MarkPending
  <2>3. PICK rows : WriteRequests(rows, WithStatus("pending"), {})
    BY <1>5 DEF MarkPending, SetRequestWhere
  <2>4. ~Ends(At("saveResponse", handler[h].row, val))
    BY PipelineTasks DEF ServicePc
  <2> QED
    BY <2>1, <2>2, <2>3, <2>4, NothingApart, RequestsKept
<1>6. CASE SaveResponse(h)
  <2>1. /\ ~Ends(handler[h]) /\ UNCHANGED <<mission, released>> /\ Becomes(h, Idle)
    BY <1>6 DEF SaveResponse, IsAt, Ends, WorkProcessPc
  <2>2. PICK rows, new : WriteRequests(rows, new, {})
    BY <1>6 DEF SaveResponse
  <2> QED
    BY <2>1, <2>2, PipelineTasks, NothingApart, RequestsKept
<1> QED
  BY <1>1, <1>2, <1>3, <1>4, <1>5, <1>6 DEF Dispatching

\* Activating the next requests.
LEMMA ActivatingEnds ==
  ASSUME TypeOK, EndsOnce, NEW h \in Handler, Activating(h)
  PROVE  EndKept
<1>1. handler[h] \in Task
  BY DEF TypeOK
<1>2. CASE ListNext(h)
  <2>1. /\ ~Ends(handler[h]) /\ UNCHANGED <<mission, released, events_queue>>
    BY <1>2 DEF ListNext, IsAt, Ends, WorkProcessPc
  <2>2. SameEnds
    BY <2>1 DEF SameEnds
  <2>3. PICK v : Becomes(h, Idle) \/ Becomes(h, [At("updateNext", handler[h].row, "-") EXCEPT !.todo = v])
    BY <1>2 DEF ListNext
  <2>4. ~Ends([At("updateNext", handler[h].row, "-") EXCEPT !.todo = v])
    BY DEF At, Ends, WorkProcessPc
  <2> QED
    BY <2>1, <2>2, <2>3, <2>4, PipelineTasks, MoveKept
<1>3. CASE ReleaseRequest(h)
  <2>1. /\ ~Ends(handler[h]) /\ UNCHANGED <<mission, released>> /\ Becomes(h, Idle)
    BY <1>3 DEF ReleaseRequest, IsAt, Ends, WorkProcessPc
  <2>2. PICK rows : WriteRequests(rows, WithStatus("ready_for_service"), {})
    BY <1>3 DEF ReleaseRequest, SetRequestWhere
  <2> QED
    BY <2>1, <2>2, PipelineTasks, NothingApart, RequestsKept
<1>4. ASSUME NEW q \in Req, DetermineNext(h, q)
      PROVE  EndKept
  <2>1. /\ ~Ends(handler[h]) /\ UNCHANGED <<mission, released, events_queue>>
    BY <1>4 DEF DetermineNext, IsAt, Ends, WorkProcessPc
  <2>2. SameEnds
    BY <2>1 DEF SameEnds
  <2>3. Becomes(h, [handler[h] EXCEPT !.todo[q] = DetermineStatus(q)])
    BY <1>4 DEF DetermineNext
  <2>4. ~Ends([handler[h] EXCEPT !.todo[q] = DetermineStatus(q)])
    BY <1>1, <2>1, TodoKeepsPlace DEF Ends
  <2> QED
    BY <2>1, <2>2, <2>3, <2>4, MoveKept
<1>5. ASSUME NEW q \in Req, WriteNext(h, q)
      PROVE  EndKept
  <2>1. /\ ~Ends(handler[h]) /\ UNCHANGED <<mission, released>>
    BY <1>5 DEF WriteNext, IsAt, Ends, WorkProcessPc
  <2>2. PICK new : WriteRequests({q}, new, {})
    BY <1>5 DEF WriteNext
  <2>3. Becomes(h, Idle) \/ Becomes(h, [handler[h] EXCEPT !.todo[q] = "-"])
    BY <1>5 DEF WriteNext, DoneWith
  <2>4. ~Ends([handler[h] EXCEPT !.todo[q] = "-"])
    BY <1>1, <2>1, TodoKeepsPlace DEF Ends
  <2> QED
    BY <2>1, <2>2, <2>3, <2>4, PipelineTasks, NothingApart, RequestsKept
<1> QED
  BY <1>2, <1>3, <1>4, <1>5 DEF Activating

\* What ends a request, and what writes the status that ends the mission.
LEMMA EndingEnds ==
  ASSUME TypeOK, EndsOnce, NEW h \in Handler, MarkCalculating(h) \/ Ending(h)
  PROVE  EndKept
<1>1. CASE MarkCalculating(h)
  <2>1. /\ handler[h].pc = "calculating" /\ UNCHANGED released /\ Becomes(h, Idle)
    BY <1>1, Zenon DEF MarkCalculating, IsAt
  <2>2. OthersMove
    BY <2>1, PipelineTasks, MoveOthers DEF Ends, WorkProcessPc
  <2>3. PICK allowed \in SUBSET Early : SetMissionWhere(allowed, "calculating", {})
    BY <1>1, Zenon DEF MarkCalculating, Early
  <2> QED
    BY <2>1, <2>2, <2>3, NothingApart, EarlyWhereKept
<1>2. ASSUME SaveTimeout(h) \/ SaveUnreachable(h) \/ ConfirmCancel(h)
      PROVE  EndKept
  <2>1. /\ ~Ends(handler[h]) /\ UNCHANGED <<mission, released>> /\ Becomes(h, Idle)
    BY <1>2 DEF SaveTimeout, SaveUnreachable, ConfirmCancel, IsAt, Ends, WorkProcessPc
  <2>2. PICK rows, new : WriteRequests(rows, new, {})
    BY <1>2 DEF SaveTimeout, SaveUnreachable, ConfirmCancel
  <2> QED
    BY <2>1, <2>2, PipelineTasks, NothingApart, RequestsKept
<1>3. CASE FailPlanning(h)
  <2>1. /\ ~Ends(handler[h]) /\ UNCHANGED released /\ Becomes(h, Idle)
        /\ SetMissionWhere(RunningMission, "planning_failed", {})
    BY <1>3 DEF FailPlanning, IsAt, Ends, WorkProcessPc
  <2>2. OthersMove
    BY <2>1, PipelineTasks, MoveOthers
  <2> QED
    BY <2>1, <2>2, EarlyFacts, NothingApart, EarlyWhereKept
<1>4. CASE WrapUp(h)
  <2>1. /\ ~Ends(handler[h]) /\ UNCHANGED released /\ Becomes(h, Idle)
        /\ SetMissionWhere(RunningMission, "assignments_completed", {})
    BY <1>4 DEF WrapUp, ServicesLeft, IsAt, Ends, WorkProcessPc
  <2>2. OthersMove
    BY <2>1, PipelineTasks, MoveOthers
  <2> QED
    BY <2>1, <2>2, EarlyFacts, NothingApart, EarlyWhereKept
<1> QED
  BY <1>1, <1>2, <1>3, <1>4 DEF Ending

\* A handler of an event of a request.
LEMMA HandleEnds ==
  ASSUME TypeOK, EndsOnce, NEW h \in Handler, Handle(h)
  PROVE  EndKept
<1>1. PICK r \in Req : \/ HandleInsertion(h, r) \/ HandleReadyForService(h, r)
                       \/ HandleReady(h, r) \/ HandleFailed(h, r) \/ HandleTimeout(h, r)
  BY DEF Handle
<1>2. /\ Apart({InsertionEvent(r)})
      /\ \A s, d : Apart({RequestEvent(r, s, d)})
  BY DEF Apart, InsertionEvent, RequestEvent
<1>3. CASE HandleInsertion(h, r)
  <2>1. /\ ~Ends(handler[h]) /\ UNCHANGED <<mission, released>>
        /\ TakeAndLeave({InsertionEvent(r)}, {})
    BY <1>3 DEF HandleInsertion, Starts, IsAt, Ends, WorkProcessPc
  <2>2. Becomes(h, At("drop", r, "-")) \/ Becomes(h, At("claim", r, "-"))
    BY <1>3 DEF HandleInsertion
  <2>3. ~Ends(At("drop", r, "-")) /\ ~Ends(At("claim", r, "-"))
    BY PipelineTasks DEF ServicePc
  <2>4. SameEnds
    BY <1>2, <2>1, NothingApart, ApartSame
  <2> QED
    BY <2>1, <2>2, <2>3, <2>4, MoveKept
<1>4. CASE HandleReadyForService(h, r)
  <2>1. PICK d \in BOOLEAN :
          /\ ~Ends(handler[h]) /\ UNCHANGED <<mission, released>>
          /\ SetRequestWhere(r, {"ready_for_service"}, "dispatching_service",
                             {RequestEvent(r, "ready_for_service", d)})
          /\ Becomes(h, At("select", r, "-"))
    BY <1>4 DEF HandleReadyForService, Starts, IsAt, Ends, WorkProcessPc
  <2>2. PICK rows : WriteRequests(rows, WithStatus("dispatching_service"),
                                  {RequestEvent(r, "ready_for_service", d)})
    BY <2>1 DEF SetRequestWhere
  <2>3. ~Ends(At("select", r, "-"))
    BY PipelineTasks DEF ServicePc
  <2> QED
    BY <1>2, <2>1, <2>2, <2>3, RequestsKept
<1>5. CASE HandleReady(h, r)
  <2>1. PICK d \in BOOLEAN :
          /\ ~Ends(handler[h]) /\ UNCHANGED <<mission, released>>
          /\ TakeAndLeave({RequestEvent(r, "ready", d)}, {})
          /\ Becomes(h, AfterReady(r))
    BY <1>5 DEF HandleReady, Starts, IsAt, Ends, WorkProcessPc
  <2>2. ~Ends(AfterReady(r))
    BY PipelineTasks DEF AfterReady, ServicePc
  <2>3. SameEnds
    BY <1>2, <2>1, NothingApart, ApartSame
  <2> QED
    BY <2>1, <2>2, <2>3, MoveKept
<1>6. CASE HandleFailed(h, r)
  <2>1. PICK d \in BOOLEAN :
          /\ UNCHANGED <<handler, released>>
          /\ SetMissionWhere(RunningMission, "planning_failed", {RequestEvent(r, "failed", d)})
    BY <1>6 DEF HandleFailed
  <2>2. OthersMove
    BY <2>1 DEF OthersMove
  <2> QED
    BY <1>2, <2>1, <2>2, EarlyFacts, EarlyWhereKept
<1>7. CASE HandleTimeout(h, r)
  <2>1. PICK d \in BOOLEAN :
          /\ ~Ends(handler[h]) /\ UNCHANGED <<mission, released>>
          /\ WriteRequests({r}, WithStatus("canceled"), {RequestEvent(r, "time-out", d)})
          /\ Becomes(h, At("planningFailed", r, "-"))
    BY <1>7 DEF HandleTimeout, Starts, IsAt, Ends, WorkProcessPc
  <2>2. ~Ends(At("planningFailed", r, "-"))
    BY PipelineTasks DEF ServicePc
  <2> QED
    BY <1>2, <2>1, <2>2, RequestsKept
<1> QED
  BY <1>1, <1>3, <1>4, <1>5, <1>6, <1>7

\* A tick of a watcher.
LEMMA WatchEnds ==
  ASSUME TypeOK, EndsOnce, NEW h \in Handler, Watch(h)
  PROVE  EndKept
<1>1. PICK r \in Req : PollService(h, r) \/ FindReleasable(h, r) \/ CancelService(h, r)
  BY DEF Watch
<1>2. /\ ~Ends(handler[h]) /\ UNCHANGED <<mission, released, events_queue>>
  BY <1>1 DEF PollService, FindReleasable, CancelService, IsAt, Ends, WorkProcessPc
<1>3. SameEnds
  BY <1>2 DEF SameEnds
<1>4. PICK pc, val :
        /\ pc \in {"timedOut", "unreachable", "saveResponse", "release", "confirmCancel", "cancelFailed"}
        /\ Becomes(h, At(pc, r, val))
  BY <1>1 DEF PollService, FindReleasable, CancelService
<1>5. ~Ends(At(pc, r, val))
  BY <1>4, PipelineTasks DEF ServicePc
<1> QED
  BY <1>2, <1>3, <1>4, <1>5, MoveKept

----------------------------------------------------------------------------
(* The steps of the end *)

\* A computation takes the only event of the end, and is then the only one.
LEMMA EndStarts ==
  ASSUME TypeOK, EndsOnce, NEW h \in Handler, NEW s \in HandledMission, Queued(MissionEvent(s)),
         NEW left, \A k \in HandledMission : MissionEvent(k) \notin left,
         TakeAndLeave({MissionEvent(s)}, left),
         NEW t, Ends(t), Becomes(h, t), UNCHANGED released,
         t.pc = "endMission" => mission' = "assignments_completed",
         t.pc # "endMission" => mission' \in Outcome
  PROVE  EndsOnce'
<1>1. mission = s /\ released = 0 /\ NobodyEnds /\ events_queue[MissionEvent(s)] = 1
  BY DEF EndsOnce, Queued
<1>2. ASSUME NEW k \in HandledMission
      PROVE  events_queue'[MissionEvent(k)] = 0
  <2>1. MissionEvent(k) \in Event
    BY MissionEvents
  <2>2. k # s => MissionEvent(k) # MissionEvent(s) /\ events_queue[MissionEvent(k)] = 0
    BY <1>1, MissionEvents DEF EndsOnce
  <2> QED
    BY <1>1, <2>1, <2>2 DEF TakeAndLeave
<1>3. \A g \in Handler : handler'[g] = IF g = h THEN t ELSE handler[g]
  BY DEF TypeOK, Becomes
<1>4. \A g \in Handler : Ends(handler'[g]) => g = h
  BY <1>1, <1>3 DEF NobodyEnds
<1>5. released' = 0
  BY <1>1
<1> QED
  BY <1>2, <1>3, <1>4, <1>5 DEF EndsOnce

\* It goes on, ...
LEMMA EndGoesOn ==
  ASSUME TypeOK, EndsOnce, NEW h \in Handler, Ends(handler[h]), SameEnds,
         NEW t, Ends(t), t.pc # "endMission", Becomes(h, t), UNCHANGED released,
         mission' \in Outcome
  PROVE  EndsOnce'
<1>1. \A g \in Handler : handler'[g] = IF g = h THEN t ELSE handler[g]
  BY DEF TypeOK, Becomes
<1>2. ~NobodyEnds
  BY DEF NobodyEnds
<1>3. \A k \in HandledMission : events_queue'[MissionEvent(k)] = 0
  BY <1>2 DEF EndsOnce, SameEnds
<1>4. \A g \in Handler : Ends(handler'[g]) => g = h
  BY <1>1 DEF EndsOnce
<1>5. released' = 0
  BY DEF EndsOnce
<1> QED
  BY <1>1, <1>3, <1>4, <1>5 DEF EndsOnce

\* ... and releases the agents.
LEMMA EndStops ==
  ASSUME TypeOK, EndsOnce, NEW h \in Handler, Ends(handler[h]), handler[h].pc # "endMission",
         UNCHANGED <<mission, events_queue>>, Becomes(h, Idle), released' = released + 1
  PROVE  EndsOnce'
<1>1. \A g \in Handler : handler'[g] = IF g = h THEN Idle ELSE handler[g]
  BY DEF TypeOK, Becomes
<1>2. ~NobodyEnds
  BY DEF NobodyEnds
<1>3. \A k \in HandledMission : events_queue'[MissionEvent(k)] = 0
  BY <1>2 DEF EndsOnce
<1>4. \A g \in Handler : ~Ends(handler'[g])
  BY <1>1, PipelineTasks DEF EndsOnce
<1>5. released' = 1 /\ mission' \in Outcome
  BY DEF EndsOnce
<1>6. NobodyEnds'
  BY <1>4 DEF NobodyEnds
<1> QED
  BY <1>3, <1>4, <1>5, <1>6 DEF EndsOnce

\* The handlers of the end of the mission, one statement after the other.
LEMMA MissionEndsKept ==
  ASSUME RunsWithPermission, EndsOnce, NEW h \in Handler, WorkProcessHandler(h)
  PROVE  EndKept
<1>1. TypeOK /\ TaskOK(handler[h])
  BY InvariantOf
<1>2. /\ {"canceling", "assignment_failed", "planning_failed", "assignments_completed"} \subseteq HandledMission
      /\ {"succeeded", "failed", "canceled"} \subseteq Outcome
      /\ \A s \in Outcome : s \notin HandledMission
  BY DEF HandledMission, Outcome
<1>3. \A pc \in WorkProcessPc : \A val : Ends(At(pc, NoRow, val)) /\ At(pc, NoRow, val).pc = pc
  BY DEF Ends, At
<1>4. /\ {"endMission", "cancelRequests", "cancelWaitingAssignments",
          "cancelRunningAssignments", "onWorkProcessEnd"} \subseteq WorkProcessPc
  BY DEF WorkProcessPc
<1>5. ASSUME NEW s \in HandledMission, Starts(h, MissionEvent(s))
      PROVE  Queued(MissionEvent(s)) /\ mission = s /\ mission \notin Outcome
  <2>1. Queued(MissionEvent(s))
    BY <1>5 DEF Starts
  <2>2. events_queue[MissionEvent(s)] = 1
    BY <2>1 DEF Queued, EndsOnce
  <2>3. mission = s
    BY <2>2 DEF EndsOnce
  <2> QED
    BY <1>2, <2>1, <2>3
<1>6. ASSUME NEW s \in HandledMission, NEW o \in Outcome, NEW val, Starts(h, MissionEvent(s)),
             SetMissionWhere({s}, o, {MissionEvent(s)}),
             Becomes(h, At("cancelRequests", NoRow, val)), UNCHANGED released
      PROVE  EndKept
  <2>1. Queued(MissionEvent(s)) /\ mission = s /\ mission \notin Outcome
    BY <1>5, <1>6
  <2>2. mission' = o
    BY <1>6, <2>1 DEF SetMissionWhere, SetMission
  <2>3. TakeAndLeave({MissionEvent(s)}, IF o = mission THEN {} ELSE {MissionEvent(o)})
    BY <1>6, <2>1 DEF SetMissionWhere, SetMission
  <2>4. \A k \in HandledMission : MissionEvent(k) \notin (IF o = mission THEN {} ELSE {MissionEvent(o)})
    BY <1>2, MissionEvents
  <2>5. EndsOnce'
    BY <1>1, <1>3, <1>4, <1>6, <2>1, <2>2, <2>3, <2>4, EndStarts
  <2> QED
    BY <2>1, <2>5 DEF EndKept
<1>7. CASE HandleCanceling(h)
  BY <1>2, <1>6, <1>7 DEF HandleCanceling
<1>8. CASE HandleFailure(h)
  <2>1. PICK s \in {"assignment_failed", "planning_failed"} :
          /\ Starts(h, MissionEvent(s))
          /\ SetMissionWhere({s}, "failed", {MissionEvent(s)})
          /\ Becomes(h, At("cancelRequests", NoRow, s))
          /\ UNCHANGED released
    BY <1>8 DEF HandleFailure
  <2> QED
    BY <1>2, <1>6, <2>1
<1>9. CASE HandleCompleted(h)
  <2>1. PICK val : Becomes(h, At("endMission", NoRow, val))
    BY <1>9 DEF HandleCompleted
  <2>2. /\ Starts(h, MissionEvent("assignments_completed"))
        /\ TakeAndLeave({MissionEvent("assignments_completed")}, {})
        /\ UNCHANGED <<mission, released>>
    BY <1>9 DEF HandleCompleted
  <2>3. /\ Queued(MissionEvent("assignments_completed"))
        /\ mission = "assignments_completed" /\ mission \notin Outcome
    BY <1>2, <1>5, <2>2
  <2>4. EndsOnce'
    BY <1>1, <1>2, <1>3, <1>4, <2>1, <2>2, <2>3, EndStarts
  <2> QED
    BY <2>3, <2>4 DEF EndKept
<1>10. CASE EndMission(h)
  <2>1. /\ handler[h].pc = "endMission" /\ Ends(handler[h])
        /\ SetMission(handler[h].val, {}) /\ UNCHANGED released
        /\ Becomes(h, At("onWorkProcessEnd", NoRow, handler[h].val))
    BY <1>10 DEF EndMission, IsAt, Ends, WorkProcessPc
  <2>2. handler[h].val \in Outcome
    BY <1>1, <1>2, <2>1 DEF TaskOK
  <2>3. mission = "assignments_completed" /\ mission \notin Outcome
    BY <1>2, <2>1 DEF EndsOnce
  <2>4. mission' \in Outcome
    BY <2>1, <2>2 DEF SetMission
  <2>5. SameEnds
    <3> DEFINE left == IF handler[h].val = mission THEN {} ELSE {MissionEvent(handler[h].val)}
    <3>1. TakeAndLeave({}, left)
      BY <2>1 DEF SetMission
    <3>2. ASSUME NEW k \in HandledMission
          PROVE  events_queue'[MissionEvent(k)] = events_queue[MissionEvent(k)]
      <4>1. MissionEvent(k) \in Event /\ MissionEvent(k) \notin left
        BY <1>2, <2>2, MissionEvents
      <4>2. events_queue[MissionEvent(k)] \in Nat
        BY <1>1, <4>1 DEF TypeOK
      <4> QED
        BY <3>1, <4>1, <4>2 DEF TakeAndLeave
    <3> QED
      BY <3>2 DEF SameEnds
  <2>6. EndsOnce'
    BY <1>1, <1>3, <1>4, <2>1, <2>4, <2>5, EndGoesOn
  <2> QED
    BY <2>3, <2>6 DEF EndKept
<1>11. ASSUME NEW pc \in {"cancelWaitingAssignments", "cancelRunningAssignments", "onWorkProcessEnd"},
              NEW val, Ends(handler[h]), handler[h].pc # "endMission", SameEnds,
              Becomes(h, At(pc, NoRow, val)), UNCHANGED <<mission, released>>
       PROVE  EndKept
  <2>1. mission \in Outcome
    BY <1>11 DEF EndsOnce
  <2>2. Ends(At(pc, NoRow, val)) /\ At(pc, NoRow, val).pc # "endMission"
    BY <1>3, <1>4
  <2>3. EndsOnce'
    BY <1>1, <1>11, <2>1, <2>2, EndGoesOn
  <2> QED
    BY <1>11, <2>3 DEF EndKept
<1>12. CASE CancelRequests(h)
  <2>1. /\ Ends(handler[h]) /\ handler[h].pc # "endMission" /\ UNCHANGED <<mission, released>>
        /\ Becomes(h, At("cancelWaitingAssignments", NoRow, handler[h].val))
        /\ WriteRequests(RequestsIn(CancelableRequest), WithStatus("canceled"), {})
    BY <1>12 DEF CancelRequests, IsAt, Ends, WorkProcessPc
  <2>2. SameEnds
    BY <1>1, <2>1, NothingApart, WriteSame
  <2> QED
    BY <1>11, <2>1, <2>2
<1>13. CASE CancelWaitingAssignments(h)
  <2>1. /\ Ends(handler[h]) /\ handler[h].pc # "endMission" /\ UNCHANGED <<mission, released>>
        /\ Becomes(h, At("cancelRunningAssignments", NoRow, handler[h].val))
        /\ SetAssignments(AssignmentsIn(BeforeDispatch), "canceled", {})
    BY <1>13 DEF CancelWaitingAssignments, IsAt, Ends, WorkProcessPc
  <2>2. SameEnds
    BY <1>1, <2>1, NothingApart, AssignmentsSame
  <2> QED
    BY <1>11, <2>1, <2>2
<1>14. CASE CancelRunningAssignments(h)
  <2>1. /\ Ends(handler[h]) /\ handler[h].pc # "endMission" /\ UNCHANGED <<mission, released>>
        /\ Becomes(h, At("onWorkProcessEnd", NoRow, handler[h].val))
        /\ SetAssignments(AssignmentsIn(AfterDispatch), "canceling", {})
    BY <1>14 DEF CancelRunningAssignments, IsAt, Ends, WorkProcessPc
  <2>2. SameEnds
    BY <1>1, <2>1, NothingApart, AssignmentsSame
  <2> QED
    BY <1>11, <2>1, <2>2
<1>15. CASE OnWorkProcessEnd(h)
  <2>1. /\ Ends(handler[h]) /\ handler[h].pc # "endMission" /\ UNCHANGED <<mission, events_queue>>
        /\ Becomes(h, Idle) /\ released' = released + 1
    BY <1>15 DEF OnWorkProcessEnd, IsAt, Ends, WorkProcessPc
  <2> QED
    BY <1>1, <2>1, EndStops DEF EndKept
<1> QED
  BY <1>7, <1>8, <1>9, <1>10, <1>12, <1>13, <1>14, <1>15 DEF WorkProcessHandler

\* The user's cancel comes while the mission is early.
CanceledEarly == "assignments_completed" \notin Cancelable

\* The user cancels the mission while it is early (CanceledEarly).
LEMMA UserCancelsKept ==
  ASSUME CanceledEarly, TypeOK, EndsOnce, UserCancels
  PROVE  EndKept
<1>1. mission \in Early
  BY CancelableAssumption, Zenon DEF CanceledEarly, UserCancels, Early
<1>2. SetMission("canceling", {}) /\ UNCHANGED <<handler, released>>
  BY DEF UserCancels
<1>3. OthersMove
  BY <1>2 DEF OthersMove
<1> QED
  BY <1>1, <1>2, <1>3, NothingApart, EarlyKept

----------------------------------------------------------------------------
(* The theorems about the end *)

\* At first nothing has ended.
LEMMA EndsOnceInit == Init => EndsOnce
<1> SUFFICES ASSUME Init PROVE EndsOnce
  OBVIOUS
<1>1. released = 0
  BY DEF Init
<1>2. \A h \in Handler : ~Ends(handler[h])
  <2>1. ~Ends(At("calculating", NoRow, "-"))
    BY PipelineTasks DEF ServicePc
  <2>2. \A h \in Handler : handler[h] \in {Idle, At("calculating", NoRow, "-")}
    BY DEF Init
  <2> QED
    BY <2>1, <2>2, PipelineTasks
<1>3. ASSUME NEW s \in HandledMission
      PROVE  events_queue[MissionEvent(s)] = 0
  <2>1. MissionEvent(s) \in Event
    BY MissionEvents
  <2>2. \A r : InsertionEvent(r) # MissionEvent(s)
    BY DEF InsertionEvent, MissionEvent
  <2> QED
    BY <2>1, <2>2 DEF Init
<1> QED
  BY <1>1, <1>2, <1>3 DEF EndsOnce, NobodyEnds

\* Every step keeps EndsOnce and the outcome.
LEMMA EndsOnceStep ==
  ASSUME CanceledEarly, RunsWithPermission, EndsOnce, [Next]_svcVars
  PROVE  EndKept
<1>1. TypeOK
  BY DEF RunsWithPermission
<1>2. CASE UserCancels
  BY <1>1, <1>2, UserCancelsKept
<1>3. ASSUME NEW h \in Handler, Continue(h) \/ Handle(h) \/ Watch(h)
      PROVE  EndKept
  BY <1>1, <1>3, DispatchingEnds, ActivatingEnds, EndingEnds, HandleEnds, WatchEnds DEF Continue
<1>4. ASSUME NEW h \in Handler, MissionEnds(h)
      PROVE  EndKept
  BY <1>4, MissionEndsKept DEF MissionEnds
<1>5. CASE UNCHANGED svcVars
  <2>1. SameEnds /\ OthersMove /\ UNCHANGED <<mission, released>>
    BY <1>5 DEF svcVars, wpVars, dbVars, SameEnds, OthersMove
  <2> QED
    BY <2>1, QuietKept
<1> QED
  BY <1>2, <1>3, <1>4, <1>5 DEF Next

\* The agents of a mission are released once, after its outcome is in the
\* database, whichever failures, time-outs, answers and cancel end it and
\* however many handlers overlap, provided that the user cancels no mission
\* that is completed already.
THEOREM AgentsReleasedAtEnd ==
  ASSUME CanceledEarly
  PROVE  Spec => []ReleasedAtEnd
<1>1. Init => RunsWithPermission /\ EndsOnce
  BY InitPermitted, EndsOnceInit
<1>2. RunsWithPermission /\ EndsOnce /\ [Next]_svcVars => (RunsWithPermission /\ EndsOnce)'
  BY NextPermitted, EndsOnceStep DEF EndKept
<1>3. EndsOnce => ReleasedAtEnd
  BY DEF EndsOnce, ReleasedAtEnd, Outcome
<1> QED
  BY <1>1, <1>2, <1>3, PTL DEF Spec

\* Under the same condition no handler of an older event writes over the
\* outcome of a mission.
THEOREM OutcomeStays ==
  ASSUME CanceledEarly
  PROVE  Spec => OutcomeIsFinal
<1>1. Init => RunsWithPermission /\ EndsOnce
  BY InitPermitted, EndsOnceInit
<1>2. RunsWithPermission /\ EndsOnce /\ [Next]_svcVars => (RunsWithPermission /\ EndsOnce)'
  BY NextPermitted, EndsOnceStep DEF EndKept
<1>3. RunsWithPermission /\ EndsOnce /\ [Next]_svcVars
        => [(mission \in {"succeeded", "failed", "canceled"}) => (mission' = mission)]_svcVars
  BY EndsOnceStep DEF EndKept, Outcome
<1> QED
  BY <1>1, <1>2, <1>3, PTL DEF Spec, OutcomeIsFinal
----------------------------------------------------------------------------
(* Each request is called once.  When a request is next of one request at  *)
(* most, its way to the microservice is a single one: it waits in one copy *)
(* that one computation holds, then in one event, then with one            *)
(* computation, until the job is given; and it is reported ready once.     *)

\* Recipes in which no request is activated by two others.
Forest == \A q, r, s \in Req : q \in NextReq[r] /\ q \in NextReq[s] => r = s

Status(r) == service_requests[r].status

\* A computation on its way to give request r to its microservice, one that
\* brings the answer, one that activates the next requests of r, one that
\* holds a copy of r, and one that is about to let r run.
Dispatches(t, r) == t.pc \in {"claim", "select", "send"} /\ t.row = r
Serves(t, r) == t.pc \in {"markPending", "saveResponse"} /\ t.row = r
Lists(t, r) == t.pc \in {"listNext", "updateNext"} /\ t.row = r
Marks(t, r) == t.pc = "updateNext" /\ t.todo[r] # "-"
Frees(t, r) == t.pc = "release" /\ t.row = r

RolePc == {"claim", "select", "send", "markPending", "saveResponse", "listNext", "updateNext",
           "release"}

Marked(r) == \E h \in Handler : Marks(handler[h], r)

\* The events that have r dispatched, and those that report it ready.
Asked(r) == {InsertionEvent(r)} \cup {RequestEvent(r, "ready_for_service", d) : d \in BOOLEAN}
Reported(r) == {RequestEvent(r, "ready", d) : d \in BOOLEAN}
News(r) == Asked(r) \cup Reported(r)

\* Nothing has been done about request r yet.
Fresh(r) ==
  /\ calls[r] = 0
  /\ \A e \in News(r) : events_queue[e] = 0
  /\ \A h \in Handler : /\ ~Dispatches(handler[h], r)
                        /\ ~Serves(handler[h], r)
                        /\ ~Lists(handler[h], r)

\* A request that waits, or of which a copy is held, is fresh; one copy may
\* be held, by who activates the request that r is next of.
FreshUntilAsked(r) ==
  /\ Status(r) \in {"not_ready_for_service", "wait_dependencies"} \/ Marked(r) => Fresh(r)
  /\ \A h \in Handler : Marks(handler[h], r) =>
       /\ Status(r) \in {"not_ready_for_service", "canceled", "failed"}
       /\ r \in NextReq[handler[h].row]

\* The job is given by one computation, after one event.
DispatchedOnce(r) ==
  /\ \A e \in Asked(r) : events_queue[e] \in {0, 1}
  /\ \A e \in Asked(r) : events_queue[e] = 1 =>
       /\ calls[r] = 0
       /\ \A h \in Handler : ~Dispatches(handler[h], r)
       /\ \A f \in Asked(r) : events_queue[f] = 1 => f = e
  /\ \A h \in Handler : Dispatches(handler[h], r) =>
       /\ calls[r] = 0
       /\ \A g \in Handler : Dispatches(handler[g], r) => g = h

\* Statuses that no answer changes any more.
Over == {"ready", "failed", "canceled"}

\* The result is reported by one event, and followed up by one computation.
ReportedOnce(r) ==
  /\ \A e \in Reported(r) : events_queue[e] \in {0, 1}
  /\ \A e \in Reported(r) : events_queue[e] = 1 =>
       /\ Status(r) \in Over
       /\ \A h \in Handler : ~Lists(handler[h], r)
       /\ \A f \in Reported(r) : events_queue[f] = 1 => f = e
  /\ \A h \in Handler : Lists(handler[h], r) =>
       /\ Status(r) \in Over
       /\ \A g \in Handler : Lists(handler[g], r) => g = h

EachOnce ==
  \A r \in Req : FreshUntilAsked(r) /\ DispatchedOnce(r) /\ ReportedOnce(r) /\ calls[r] \in {0, 1}
----------------------------------------------------------------------------
(* What a step may do about a request.  Most steps leave it where it is;   *)
(* the others take it one place further.                                   *)

NoNews(r) == \A e \in News(r) : events_queue'[e] <= events_queue[e]
Less(r, e) == /\ events_queue[e] > 0 /\ events_queue'[e] = events_queue[e] - 1
              /\ \A f \in News(r) : f # e => events_queue'[f] <= events_queue[f]
More(r, e) == /\ events_queue'[e] = events_queue[e] + 1
              /\ \A f \in News(r) : f # e => events_queue'[f] <= events_queue[f]

Others(h) == \A g \in Handler : g # h => handler'[g] = handler[g]

SameCalls(r) == calls'[r] = calls[r] /\ (r \in answered' => r \in answered)

\* A status changes while the request is served, or because that failed.
StatusKept(r) ==
  \/ Status(r)' = Status(r)
  \/ Status(r)' \in {"failed", "canceled"}
  \/ Status(r) = "ready_for_service" /\ Status(r)' = "dispatching_service"
  \/ Status(r) = "pending" /\ Status(r)' = "time-out"
  \/ /\ Status(r) \in Answerable /\ Status(r)' = "pending"
     /\ \E h \in Handler : Serves(handler[h], r)

RolesKept(r) ==
  \A g \in Handler :
    /\ Dispatches(handler'[g], r) => Dispatches(handler[g], r)
    /\ Serves(handler'[g], r) => Serves(handler[g], r)
    /\ Lists(handler'[g], r) => Lists(handler[g], r)
    /\ Frees(handler'[g], r) => Frees(handler[g], r)
    /\ Marks(handler'[g], r) => /\ Marks(handler[g], r)
                                /\ handler'[g].row = handler[g].row
                                /\ handler'[g].todo[r] = handler[g].todo[r]

Still(r) == NoNews(r) /\ StatusKept(r) /\ SameCalls(r) /\ RolesKept(r)

\* An event has r dispatched, or dropped.
Taken(r, h) ==
  /\ \E e \in Asked(r) : Less(r, e)
  /\ StatusKept(r) /\ SameCalls(r) /\ Others(h)
  /\ handler[h].pc = "idle" /\ handler'[h].pc \in {"claim", "drop", "select"} /\ handler'[h].row = r

\* The microservice is given the job.
Sent(r, h) ==
  /\ NoNews(r) /\ StatusKept(r) /\ Others(h)
  /\ Dispatches(handler[h], r) /\ handler'[h].pc = "markPending" /\ handler'[h].row = r
  /\ calls'[r] = calls[r] + 1

\* A pending request is answered.
Polled(r, h) ==
  /\ NoNews(r) /\ Status(r)' = Status(r) /\ Status(r) = "pending" /\ Others(h)
  /\ handler[h].pc = "idle" /\ handler'[h].pc \in {"saveResponse", "timedOut", "unreachable"}
  /\ calls'[r] = calls[r]

\* The result is saved.
Answered(r, h) ==
  /\ \E e \in Reported(r) : More(r, e)
  /\ Status(r) \in Answerable /\ Status(r)' = "ready"
  /\ Serves(handler[h], r) /\ handler'[h] = Idle /\ Others(h)
  /\ SameCalls(r) /\ r \in answered

\* The result is followed up.
FollowedUp(r, h) ==
  /\ \E e \in Reported(r) : Less(r, e)
  /\ Status(r)' = Status(r) /\ SameCalls(r) /\ Others(h)
  /\ handler[h].pc = "idle"
  /\ handler'[h].pc \in {"idle", "wrapUp", "listNext"}

\* A copy of the request is read, ...
Copied(r, h) ==
  /\ NoNews(r) /\ Status(r)' = Status(r) /\ SameCalls(r) /\ Others(h)
  /\ Status(r) = "not_ready_for_service"
  /\ handler[h].pc = "listNext" /\ r \in NextReq[handler[h].row]
  /\ handler'[h].pc = "updateNext" /\ handler'[h].row = handler[h].row
  /\ handler'[h].todo[r] = "not_ready_for_service"

\* ... its status is determined, ...
Determined(r, h) ==
  /\ NoNews(r) /\ Status(r)' = Status(r) /\ SameCalls(r) /\ Others(h)
  /\ Marks(handler[h], r)
  /\ handler'[h].pc = "updateNext" /\ handler'[h].row = handler[h].row
  /\ handler'[h].todo[r] = DetermineStatus(r)

\* ... and the copy is written back.
Written(r, h) ==
  /\ Marks(handler[h], r)
  /\ Status(r)' = handler[h].todo[r]
  /\ Status(r)' \in {"skipped", "wait_dependencies", "ready_for_service"}
  /\ \/ Status(r)' # "ready_for_service" /\ NoNews(r)
     \/ Status(r)' = "ready_for_service" /\ \E e \in Asked(r) : More(r, e)
  /\ SameCalls(r) /\ Others(h)
  /\ ~Marks(handler'[h], r)
  /\ \/ handler'[h] = Idle
     \/ handler'[h].pc = handler[h].pc /\ handler'[h].row = handler[h].row

\* The dependencies of a request that waits are ready, ...
Found(r, h) ==
  /\ NoNews(r) /\ Status(r)' = Status(r) /\ SameCalls(r) /\ Others(h)
  /\ DetermineStatus(r) = "ready_for_service"
  /\ handler'[h].pc = "release"

\* ... and it may run.
Freed(r, h) ==
  /\ Frees(handler[h], r)
  /\ Status(r) = "wait_dependencies" /\ Status(r)' = "ready_for_service"
  /\ \E e \in Asked(r) : More(r, e)
  /\ SameCalls(r) /\ Others(h) /\ handler'[h] = Idle

Moves(r, h) ==
  \/ Taken(r, h) \/ Sent(r, h) \/ Polled(r, h) \/ Answered(r, h) \/ FollowedUp(r, h)
  \/ Copied(r, h) \/ Determined(r, h) \/ Written(r, h) \/ Found(r, h) \/ Freed(r, h)

\* What leads to the completion of the mission, or follows from it.
Closes(t) == t.pc \in {"wrapUp", "endMission"}
Completion == MissionEvent("assignments_completed")
Closing ==
  \/ mission \in {"assignments_completed", "succeeded"}
  \/ events_queue[Completion] > 0
  \/ \E h \in Handler : Closes(handler[h])

\* What a step does about all requests.  The mission is completed after the
\* result of a last request only.
Advance ==
  /\ \A r \in Req : Still(r) \/ \E h \in Handler : Moves(r, h)
  /\ answered \subseteq answered'
  /\ Closing' => \/ Closing
                 \/ \E r \in Req, h \in Handler : NextReq[r] = {} /\ FollowedUp(r, h)
----------------------------------------------------------------------------
(* The invariant is kept, whatever is done about a request *)

\* Counts are numbers.
LEMMA NewsTyped ==
  ASSUME TypeOK, NEW r \in Req
  PROVE  \A e \in News(r) : e \in Event /\ events_queue[e] \in Nat
<1>1. News(r) \subseteq Event
  BY DEF News, Asked, Reported, Event, HandledRequest
<1> QED
  BY <1>1 DEF TypeOK

\* The two kinds of events are apart.
LEMMA NewsApart ==
  ASSUME NEW r
  PROVE  \A e \in Asked(r) : e \notin Reported(r)
BY DEF Asked, Reported, InsertionEvent, RequestEvent

\* A request that is left where it is.
LEMMA StillOnce ==
  ASSUME TypeOK, TypeOK', EachOnce, NEW r \in Req, Still(r)
  PROVE  FreshUntilAsked(r)' /\ DispatchedOnce(r)' /\ ReportedOnce(r)' /\ calls'[r] \in {0, 1}
<1>1. FreshUntilAsked(r) /\ DispatchedOnce(r) /\ ReportedOnce(r) /\ calls[r] \in {0, 1}
  BY DEF EachOnce
<1>2. \A e \in News(r) : /\ events_queue[e] \in Nat /\ events_queue'[e] \in Nat
                         /\ events_queue'[e] <= events_queue[e]
  BY NewsTyped DEF Still, NoNews, TypeOK
<1>3. \A e \in News(r) : events_queue[e] \in {0, 1}
  BY <1>1 DEF News, DispatchedOnce, ReportedOnce
<1>4. \A e \in News(r) : /\ events_queue'[e] \in {0, 1}
                         /\ events_queue'[e] = 1 => events_queue[e] = 1
  BY <1>2, <1>3
<1>5. calls'[r] = calls[r]
  BY DEF Still, SameCalls
<1>6. DispatchedOnce(r)'
  BY <1>1, <1>4, <1>5 DEF Still, RolesKept, DispatchedOnce, News, Asked
<1>7. Status(r)' = Status(r) \/ Status(r)' \in {"failed", "canceled"} \/ Status(r) \notin Over
  BY DEF Still, StatusKept, Over, Answerable
<1>8. ReportedOnce(r)'
  BY <1>1, <1>4, <1>7 DEF Still, RolesKept, ReportedOnce, News, Reported, Over
<1>9. Fresh(r) => Fresh(r)'
  BY <1>2, <1>4, <1>5 DEF Still, RolesKept, Fresh, News, Asked, Reported
<1>10. /\ Marked(r)' => Marked(r)
       /\ Status(r)' \in {"not_ready_for_service", "wait_dependencies"} => Status(r)' = Status(r)
  BY DEF Still, RolesKept, StatusKept, Marked
<1>11. Marked(r) => Status(r)' \in {"not_ready_for_service", "canceled", "failed"}
  BY <1>1 DEF Still, StatusKept, Marked, FreshUntilAsked, Answerable, Fresh
<1>12. FreshUntilAsked(r)'
  BY <1>1, <1>9, <1>10, <1>11 DEF Still, RolesKept, FreshUntilAsked, Marked
<1> QED
  BY <1>1, <1>5, <1>6, <1>8, <1>12


\* What all moves have in common: the other computations stay.
LEMMA MoveOther ==
  ASSUME NEW r \in Req, NEW h \in Handler, Moves(r, h)
  PROVE  Others(h)
BY DEF Moves, Taken, Sent, Polled, Answered, FollowedUp, Copied, Determined, Written, Found, Freed

\* An event less.
LEMMA LessNews ==
  ASSUME TypeOK, TypeOK', EachOnce, NEW r \in Req, NEW e \in News(r), Less(r, e)
  PROVE  /\ events_queue[e] = 1 /\ events_queue'[e] = 0
         /\ \A f \in News(r) : /\ events_queue'[f] \in {0, 1}
                               /\ events_queue'[f] = 1 => events_queue[f] = 1
<1>1. FreshUntilAsked(r) /\ DispatchedOnce(r) /\ ReportedOnce(r) /\ calls[r] \in {0, 1}
  BY DEF EachOnce
<1>2. \A f \in News(r) : events_queue[f] \in {0, 1} /\ events_queue'[f] \in Nat
  BY <1>1, NewsTyped DEF News, DispatchedOnce, ReportedOnce, TypeOK
<1> QED
  BY <1>2 DEF Less

\* No event more.
LEMMA NoNewsNews ==
  ASSUME TypeOK, TypeOK', EachOnce, NEW r \in Req, NoNews(r)
  PROVE  \A f \in News(r) : /\ events_queue'[f] \in {0, 1}
                            /\ events_queue'[f] = 1 => events_queue[f] = 1
<1>1. FreshUntilAsked(r) /\ DispatchedOnce(r) /\ ReportedOnce(r) /\ calls[r] \in {0, 1}
  BY DEF EachOnce
<1>2. \A f \in News(r) : events_queue[f] \in {0, 1} /\ events_queue'[f] \in Nat
  BY <1>1, NewsTyped DEF News, DispatchedOnce, ReportedOnce, TypeOK
<1> QED
  BY <1>2 DEF NoNews

\* An event where there was none.
LEMMA MoreNews ==
  ASSUME TypeOK, TypeOK', EachOnce, NEW r \in Req, NEW e \in News(r), More(r, e), events_queue[e] = 0
  PROVE  /\ events_queue'[e] = 1
         /\ \A f \in News(r) : /\ events_queue'[f] \in {0, 1}
                               /\ f # e /\ events_queue'[f] = 1 => events_queue[f] = 1
<1>1. FreshUntilAsked(r) /\ DispatchedOnce(r) /\ ReportedOnce(r) /\ calls[r] \in {0, 1}
  BY DEF EachOnce
<1>2. \A f \in News(r) : events_queue[f] \in {0, 1} /\ events_queue'[f] \in Nat
  BY <1>1, NewsTyped DEF News, DispatchedOnce, ReportedOnce, TypeOK
<1> QED
  BY <1>2 DEF More

\* A request is dispatched, or dropped.
LEMMA TakenOnce ==
  ASSUME TypeOK, TypeOK', EachOnce, NEW r \in Req, NEW h \in Handler, Taken(r, h)
  PROVE  FreshUntilAsked(r)' /\ DispatchedOnce(r)' /\ ReportedOnce(r)' /\ calls'[r] \in {0, 1}
<1>1. FreshUntilAsked(r) /\ DispatchedOnce(r) /\ ReportedOnce(r) /\ calls[r] \in {0, 1}
  BY DEF EachOnce
<1>2. PICK e \in Asked(r) : Less(r, e)
  BY DEF Taken
<1>3. /\ events_queue[e] = 1 /\ events_queue'[e] = 0
      /\ \A f \in News(r) : /\ events_queue'[f] \in {0, 1}
                            /\ events_queue'[f] = 1 => events_queue[f] = 1
  BY <1>2, LessNews DEF News
<1>4. calls'[r] = calls[r] /\ calls[r] = 0
  BY <1>1, <1>3 DEF Taken, SameCalls, DispatchedOnce
<1>5. ~Fresh(r)
  BY <1>3 DEF Fresh, News
<1>6. /\ Status(r) \notin {"not_ready_for_service", "wait_dependencies"}
      /\ ~Marked(r)
  BY <1>1, <1>5 DEF FreshUntilAsked
<1>7. \A g \in Handler : g # h => handler'[g] = handler[g]
  BY DEF Taken, Others
<1>8. handler'[h].pc \in {"claim", "drop", "select"}
  BY DEF Taken
<1>9. /\ ~Marked(r)'
      /\ Status(r)' \notin {"not_ready_for_service", "wait_dependencies"}
  BY <1>6, <1>7, <1>8 DEF Marked, Marks, Taken, StatusKept
<1>10. FreshUntilAsked(r)'
  BY <1>9 DEF FreshUntilAsked, Marked
<1>11. \A f \in Asked(r) : events_queue'[f] = 0
  BY <1>1, <1>3 DEF DispatchedOnce, News
<1>12. \A g \in Handler : ~Dispatches(handler[g], r)
  BY <1>1, <1>3 DEF DispatchedOnce
<1>13. \A g \in Handler : Dispatches(handler'[g], r) => g = h
  BY <1>7, <1>12
<1>14. DispatchedOnce(r)'
  BY <1>4, <1>11, <1>13 DEF DispatchedOnce, Asked
<1>15. Status(r)' = Status(r) \/ Status(r)' \in {"failed", "canceled"} \/ Status(r) \notin Over
  BY DEF Taken, StatusKept, Over, Answerable
<1>16. \A g \in Handler : Lists(handler'[g], r) => Lists(handler[g], r)
  BY <1>7, <1>8 DEF Lists
<1>17. ReportedOnce(r)'
  BY <1>1, <1>3, <1>15, <1>16 DEF ReportedOnce, News, Reported, Over
<1> QED
  BY <1>1, <1>4, <1>10, <1>14, <1>17

\* The job is given.
LEMMA GivenOnce ==
  ASSUME TypeOK, TypeOK', EachOnce, NEW r \in Req, NEW h \in Handler, Sent(r, h)
  PROVE  FreshUntilAsked(r)' /\ DispatchedOnce(r)' /\ ReportedOnce(r)' /\ calls'[r] \in {0, 1}
<1>1. FreshUntilAsked(r) /\ DispatchedOnce(r) /\ ReportedOnce(r) /\ calls[r] \in {0, 1}
  BY DEF EachOnce
<1>2. \A f \in News(r) : /\ events_queue'[f] \in {0, 1}
                         /\ events_queue'[f] = 1 => events_queue[f] = 1
  BY NoNewsNews DEF Sent
<1>3. Dispatches(handler[h], r) /\ handler'[h].pc = "markPending"
  BY DEF Sent
<1>4. calls[r] = 0 /\ calls'[r] = 1
  BY <1>1, <1>3 DEF Sent, DispatchedOnce
<1>5. \A g \in Handler : g # h => handler'[g] = handler[g]
  BY DEF Sent, Others
<1>6. /\ Status(r) \notin {"not_ready_for_service", "wait_dependencies"}
      /\ ~Marked(r)
  BY <1>1, <1>3 DEF FreshUntilAsked, Fresh
<1>7. /\ ~Marked(r)'
      /\ Status(r)' \notin {"not_ready_for_service", "wait_dependencies"}
  BY <1>3, <1>5, <1>6 DEF Marked, Marks, Sent, StatusKept
<1>8. FreshUntilAsked(r)'
  BY <1>7 DEF FreshUntilAsked, Marked
<1>9. \A f \in Asked(r) : events_queue'[f] = 0
  BY <1>1, <1>2, <1>3 DEF DispatchedOnce, News
<1>10. \A g \in Handler : ~Dispatches(handler'[g], r)
  BY <1>1, <1>3, <1>5 DEF DispatchedOnce, Dispatches
<1>11. DispatchedOnce(r)'
  BY <1>9, <1>10 DEF DispatchedOnce, Asked
<1>12. Status(r)' = Status(r) \/ Status(r)' \in {"failed", "canceled"} \/ Status(r) \notin Over
  BY DEF Sent, StatusKept, Over, Answerable
<1>13. \A g \in Handler : Lists(handler'[g], r) => Lists(handler[g], r)
  BY <1>3, <1>5 DEF Lists
<1>14. ReportedOnce(r)'
  BY <1>1, <1>2, <1>12, <1>13 DEF ReportedOnce, News, Reported, Over
<1> QED
  BY <1>4, <1>8, <1>11, <1>14

\* The moves that leave the events, the status and the calls as they are.
LEMMA HeldOnce ==
  ASSUME TypeOK, TypeOK', EachOnce, NEW r \in Req, NEW h \in Handler,
         NoNews(r), Status(r)' = Status(r), calls'[r] = calls[r], Others(h),
         ~Dispatches(handler'[h], r), Lists(handler'[h], r) => Lists(handler[h], r),
         Serves(handler'[h], r) => Status(r) = "pending",
         Marks(handler'[h], r) => /\ handler[h].row = handler'[h].row
                                  /\ Marks(handler[h], r) \/ /\ Status(r) = "not_ready_for_service"
                                                             /\ r \in NextReq[handler[h].row]
  PROVE  FreshUntilAsked(r)' /\ DispatchedOnce(r)' /\ ReportedOnce(r)' /\ calls'[r] \in {0, 1}
<1>1. FreshUntilAsked(r) /\ DispatchedOnce(r) /\ ReportedOnce(r) /\ calls[r] \in {0, 1}
  BY DEF EachOnce
<1>2. \A f \in News(r) : /\ events_queue'[f] \in {0, 1}
                         /\ events_queue'[f] = 1 => events_queue[f] = 1
  BY NoNewsNews
<1>3. \A g \in Handler : g # h => handler'[g] = handler[g]
  BY DEF Others
<1>4. \A g \in Handler : /\ Dispatches(handler'[g], r) => Dispatches(handler[g], r)
                         /\ Lists(handler'[g], r) => Lists(handler[g], r)
  BY <1>3
<1>5. DispatchedOnce(r)'
  BY <1>1, <1>2, <1>4 DEF DispatchedOnce, News, Asked
<1>6. ReportedOnce(r)'
  BY <1>1, <1>2, <1>4 DEF ReportedOnce, News, Reported
<1>7. Status(r) # "pending" /\ Fresh(r) => Fresh(r)'
  BY <1>2, <1>3, <1>4 DEF Fresh, News, Asked, Reported
<1>8. Marked(r)' => Marked(r) \/ Status(r) = "not_ready_for_service"
  BY <1>3 DEF Marked
<1>9. Marked(r) => Status(r) # "pending"
  BY <1>1 DEF FreshUntilAsked, Marked
<1>10. Status(r)' \in {"not_ready_for_service", "wait_dependencies"} \/ Marked(r)' => Fresh(r)'
  BY <1>1, <1>7, <1>8, <1>9 DEF FreshUntilAsked
<1>11. ASSUME NEW g \in Handler, Marks(handler'[g], r)
       PROVE  /\ Status(r)' \in {"not_ready_for_service", "canceled", "failed"}
              /\ r \in NextReq[handler'[g].row]
  BY <1>1, <1>3, <1>11 DEF FreshUntilAsked
<1>12. FreshUntilAsked(r)'
  BY <1>10, <1>11 DEF FreshUntilAsked
<1> QED
  BY <1>1, <1>5, <1>6, <1>12


\* The result is saved and reported.
LEMMA AnsweredOnce ==
  ASSUME TypeOK, TypeOK', EachOnce, NEW r \in Req, NEW h \in Handler, Answered(r, h)
  PROVE  FreshUntilAsked(r)' /\ DispatchedOnce(r)' /\ ReportedOnce(r)' /\ calls'[r] \in {0, 1}
<1>1. FreshUntilAsked(r) /\ DispatchedOnce(r) /\ ReportedOnce(r) /\ calls[r] \in {0, 1}
  BY DEF EachOnce
<1>2. PICK e \in Reported(r) : More(r, e)
  BY DEF Answered
<1>3. Status(r) \notin Over /\ Serves(handler[h], r)
  BY DEF Answered, Answerable, Over
<1>4. /\ \A f \in Reported(r) : events_queue[f] = 0
      /\ \A g \in Handler : ~Lists(handler[g], r)
  BY <1>1, <1>3 DEF ReportedOnce
<1>5. /\ events_queue'[e] = 1
      /\ \A f \in News(r) : /\ events_queue'[f] \in {0, 1}
                            /\ f # e /\ events_queue'[f] = 1 => events_queue[f] = 1
  BY <1>2, <1>4, MoreNews DEF News
<1>6. ~Marked(r)
  BY <1>1, <1>3 DEF FreshUntilAsked, Fresh
<1>7. \A g \in Handler : handler'[g] = IF g = h THEN Idle ELSE handler[g]
  BY DEF Answered, Others
<1>8. \A g \in Handler : /\ ~Lists(handler'[g], r) /\ ~Marks(handler'[g], r)
                         /\ Dispatches(handler'[g], r) => Dispatches(handler[g], r)
  BY <1>4, <1>6, <1>7 DEF Lists, Marks, Marked, Dispatches, Idle
<1>9. Status(r)' = "ready" /\ calls'[r] = calls[r]
  BY DEF Answered, SameCalls
<1>10. FreshUntilAsked(r)'
  BY <1>8, <1>9 DEF FreshUntilAsked, Marked
<1>11. \A f \in Asked(r) : events_queue'[f] \in {0, 1} /\ (events_queue'[f] = 1 => events_queue[f] = 1)
  BY <1>5, NewsApart DEF News
<1>12. DispatchedOnce(r)'
  BY <1>1, <1>8, <1>9, <1>11 DEF DispatchedOnce, Asked
<1>13. \A f \in Reported(r) : /\ events_queue'[f] \in {0, 1}
                              /\ events_queue'[f] = 1 => f = e
  BY <1>4, <1>5 DEF News
<1>14. ReportedOnce(r)'
  BY <1>8, <1>9, <1>13 DEF ReportedOnce, Reported, Over
<1> QED
  BY <1>1, <1>9, <1>10, <1>12, <1>14

\* The result is followed up.
LEMMA FollowedUpOnce ==
  ASSUME TypeOK, TypeOK', EachOnce, NEW r \in Req, NEW h \in Handler, FollowedUp(r, h)
  PROVE  FreshUntilAsked(r)' /\ DispatchedOnce(r)' /\ ReportedOnce(r)' /\ calls'[r] \in {0, 1}
<1>1. FreshUntilAsked(r) /\ DispatchedOnce(r) /\ ReportedOnce(r) /\ calls[r] \in {0, 1}
  BY DEF EachOnce
<1>2. PICK e \in Reported(r) : Less(r, e)
  BY DEF FollowedUp
<1>3. /\ events_queue[e] = 1 /\ events_queue'[e] = 0
      /\ \A f \in News(r) : /\ events_queue'[f] \in {0, 1}
                            /\ events_queue'[f] = 1 => events_queue[f] = 1
  BY <1>2, LessNews DEF News
<1>4. Status(r) \in Over /\ \A g \in Handler : ~Lists(handler[g], r)
  BY <1>1, <1>3 DEF ReportedOnce
<1>5. ~Marked(r)
  BY <1>1, <1>3 DEF FreshUntilAsked, Fresh, News
<1>6. \A g \in Handler : g # h => handler'[g] = handler[g]
  BY DEF FollowedUp, Others
<1>7. handler'[h].pc \in {"idle", "wrapUp", "listNext"}
  BY DEF FollowedUp
<1>8. \A g \in Handler : /\ Lists(handler'[g], r) => g = h
                         /\ ~Marks(handler'[g], r)
                         /\ Dispatches(handler'[g], r) => Dispatches(handler[g], r)
  BY <1>4, <1>5, <1>6, <1>7 DEF Lists, Marks, Marked, Dispatches
<1>9. Status(r)' = Status(r) /\ calls'[r] = calls[r]
  BY DEF FollowedUp, SameCalls
<1>10. FreshUntilAsked(r)'
  BY <1>4, <1>8, <1>9 DEF FreshUntilAsked, Marked, Over
<1>11. DispatchedOnce(r)'
  BY <1>1, <1>3, <1>8, <1>9 DEF DispatchedOnce, Asked, News
<1>12. \A f \in Reported(r) : events_queue'[f] = 0
  BY <1>1, <1>3 DEF ReportedOnce, News
<1>13. ReportedOnce(r)'
  BY <1>4, <1>8, <1>9, <1>12 DEF ReportedOnce, Reported
<1> QED
  BY <1>1, <1>9, <1>10, <1>11, <1>13

\* A fresh request of which no other copy is held is asked for.
LEMMA AskedOnce ==
  ASSUME TypeOK, TypeOK', EachOnce, NEW r \in Req, Fresh(r), NEW h \in Handler, Others(h), ~Marked(r)',
         Status(r)' \notin {"not_ready_for_service", "wait_dependencies"},
         NEW e \in Asked(r), More(r, e), calls'[r] = calls[r],
         ~Dispatches(handler'[h], r), ~Lists(handler'[h], r)
  PROVE  FreshUntilAsked(r)' /\ DispatchedOnce(r)' /\ ReportedOnce(r)' /\ calls'[r] \in {0, 1}
<1>1. calls'[r] = 0 /\ \A f \in News(r) : events_queue[f] = 0
  BY DEF Fresh
<1>2. /\ events_queue'[e] = 1
      /\ \A f \in News(r) : f # e => events_queue'[f] = 0
  BY <1>1, MoreNews DEF News
<1>3. \A g \in Handler : ~Dispatches(handler'[g], r) /\ ~Lists(handler'[g], r)
  BY DEF Others, Fresh
<1>4. FreshUntilAsked(r)'
  BY DEF FreshUntilAsked, Marked
<1>5. DispatchedOnce(r)'
  BY <1>1, <1>2, <1>3 DEF DispatchedOnce, Asked, News
<1>6. \A f \in Reported(r) : events_queue'[f] = 0
  BY <1>2, NewsApart DEF News
<1>7. ReportedOnce(r)'
  BY <1>3, <1>6 DEF ReportedOnce, Reported
<1> QED
  BY <1>1, <1>4, <1>5, <1>7

\* Two computations hold no copy of the same request: only who activates the
\* request it is next of has one.
LEMMA OneCopy ==
  ASSUME Forest, RunsWithPermission, EachOnce, NEW r \in Req, NEW g \in Handler, NEW h \in Handler,
         Marks(handler[g], r), Marks(handler[h], r)
  PROVE  g = h
<1>1. handler[g].row \in Req /\ handler[h].row \in Req
  BY DEF RunsWithPermission, TaskOK, RequestPc, Marks
<1>2. r \in NextReq[handler[g].row] /\ r \in NextReq[handler[h].row]
  BY DEF EachOnce, FreshUntilAsked
<1>3. handler[g].row = handler[h].row
  BY <1>1, <1>2 DEF Forest
<1>4. Lists(handler[g], handler[g].row) /\ Lists(handler[h], handler[g].row)
  BY <1>3 DEF Lists, Marks
<1> QED
  BY <1>1, <1>4 DEF EachOnce, ReportedOnce

\* A copy is written back.
LEMMA WrittenOnce ==
  ASSUME Forest, RunsWithPermission, TypeOK', EachOnce, NEW r \in Req, NEW h \in Handler, Written(r, h)
  PROVE  FreshUntilAsked(r)' /\ DispatchedOnce(r)' /\ ReportedOnce(r)' /\ calls'[r] \in {0, 1}
<1>0. TypeOK
  BY DEF RunsWithPermission
<1>1. Fresh(r)
  BY DEF EachOnce, FreshUntilAsked, Written, Marked
<1>2. \A g \in Handler : g # h => handler'[g] = handler[g]
  BY DEF Written, Others
<1>3. ~Marked(r)'
  BY <1>2, OneCopy DEF Marked, Written
<1>4. handler'[h] = Idle \/ (handler'[h].pc = handler[h].pc /\ handler'[h].row = handler[h].row)
  BY DEF Written
<1>5. ~Dispatches(handler'[h], r) /\ ~Lists(handler'[h], r) /\ ~Serves(handler'[h], r)
  BY <1>1, <1>4 DEF Fresh, Idle, Dispatches, Lists, Serves
<1>6. calls'[r] = calls[r]
  BY DEF Written, SameCalls
<1>7. CASE Status(r)' # "ready_for_service" /\ NoNews(r)
  <2>1. \A f \in News(r) : events_queue'[f] = 0
    BY <1>0, <1>1, <1>7, NoNewsNews DEF Fresh
  <2>2. \A g \in Handler : /\ ~Dispatches(handler'[g], r) /\ ~Lists(handler'[g], r)
                           /\ ~Serves(handler'[g], r)
    BY <1>1, <1>2, <1>5 DEF Fresh
  <2>3. Fresh(r)'
    BY <1>1, <1>6, <2>1, <2>2 DEF Fresh, News, Asked, Reported
  <2>4. FreshUntilAsked(r)'
    BY <1>3, <2>3 DEF FreshUntilAsked, Marked
  <2>5. DispatchedOnce(r)' /\ ReportedOnce(r)'
    BY <2>1, <2>2 DEF DispatchedOnce, ReportedOnce, News, Asked, Reported
  <2> QED
    BY <1>1, <1>6, <2>4, <2>5 DEF Fresh
<1>8. CASE Status(r)' = "ready_for_service" /\ \E e \in Asked(r) : More(r, e)
  <2>1. PICK e \in Asked(r) : More(r, e)
    BY <1>8
  <2> QED
    BY <1>0, <1>1, <1>3, <1>5, <1>6, <1>8, <2>1, AskedOnce DEF Written
<1> QED
  BY <1>7, <1>8 DEF Written

\* A request that waits may run.
LEMMA FreedOnce ==
  ASSUME TypeOK, TypeOK', EachOnce, NEW r \in Req, NEW h \in Handler, Freed(r, h)
  PROVE  FreshUntilAsked(r)' /\ DispatchedOnce(r)' /\ ReportedOnce(r)' /\ calls'[r] \in {0, 1}
<1>1. Fresh(r) /\ ~Marked(r)
  BY DEF EachOnce, FreshUntilAsked, Freed, Marked
<1>2. ~Marked(r)'
  BY <1>1 DEF Marked, Marks, Freed, Others, Idle
<1>3. ~Dispatches(handler'[h], r) /\ ~Lists(handler'[h], r)
  BY DEF Freed, Idle, Dispatches, Lists
<1>4. PICK e \in Asked(r) : More(r, e)
  BY DEF Freed
<1> QED
  BY <1>1, <1>2, <1>3, <1>4, AskedOnce DEF Freed, SameCalls

\* Whatever is done about the requests.
LEMMA AdvanceOnce ==
  ASSUME Forest, RunsWithPermission, TypeOK', EachOnce, Advance
  PROVE  EachOnce'
<1>0. TypeOK
  BY DEF RunsWithPermission
<1> SUFFICES ASSUME NEW r \in Req
             PROVE  FreshUntilAsked(r)' /\ DispatchedOnce(r)' /\ ReportedOnce(r)' /\ calls'[r] \in {0, 1}
  BY DEF EachOnce
<1>1. CASE Still(r)
  BY <1>0, <1>1, StillOnce
<1>2. ASSUME NEW h \in Handler, Polled(r, h) \/ Copied(r, h) \/ Determined(r, h) \/ Found(r, h)
      PROVE  FreshUntilAsked(r)' /\ DispatchedOnce(r)' /\ ReportedOnce(r)' /\ calls'[r] \in {0, 1}
  <2>1. NoNews(r) /\ Status(r)' = Status(r) /\ calls'[r] = calls[r] /\ Others(h)
    BY <1>2 DEF Polled, Copied, Determined, Found, SameCalls
  <2>2. /\ ~Dispatches(handler'[h], r)
        /\ Lists(handler'[h], r) => Lists(handler[h], r)
        /\ Serves(handler'[h], r) => Status(r) = "pending"
    BY <1>2 DEF Polled, Copied, Determined, Found, Dispatches, Lists, Serves, Marks
  <2>3. Marks(handler'[h], r) => /\ handler[h].row = handler'[h].row
                                 /\ Marks(handler[h], r) \/ /\ Status(r) = "not_ready_for_service"
                                                            /\ r \in NextReq[handler[h].row]
    BY <1>2 DEF Polled, Copied, Determined, Found, Marks
  <2> QED
    BY <1>0, <2>1, <2>2, <2>3, HeldOnce
<1>3. ASSUME NEW h \in Handler, Moves(r, h)
      PROVE  FreshUntilAsked(r)' /\ DispatchedOnce(r)' /\ ReportedOnce(r)' /\ calls'[r] \in {0, 1}
  BY <1>0, <1>2, <1>3, TakenOnce, GivenOnce, AnsweredOnce, FollowedUpOnce, WrittenOnce, FreedOnce DEF Moves
<1> QED
  BY <1>1, <1>3 DEF Advance
----------------------------------------------------------------------------
(* What the statements do to the news and the statuses of one request *)

\* One computation moves.
LEMMA OneMoves ==
  ASSUME TypeOK, NEW h \in Handler, NEW t, Becomes(h, t)
  PROVE  Others(h) /\ handler'[h] = t
BY DEF TypeOK, Becomes, Others

\* A computation that goes where nothing is done about a request.
LEMMA DullMove ==
  ASSUME NEW h \in Handler, Others(h), handler'[h].pc \notin RolePc, NEW r \in Req
  PROVE  RolesKept(r)
BY DEF Others, RolesKept, RolePc, Dispatches, Serves, Lists, Marks, Frees

\* A computation that is about another request.
LEMMA RowMove ==
  ASSUME NEW h \in Handler, Others(h), handler'[h].pc # "updateNext", NEW r \in Req, handler'[h].row # r
  PROVE  RolesKept(r)
BY DEF Others, RolesKept, Dispatches, Serves, Lists, Marks, Frees

\* A request with the same status and no news.
LEMMA SameStill ==
  ASSUME NEW r \in Req, NoNews(r), Status(r)' = Status(r), SameCalls(r), RolesKept(r)
  PROVE  Still(r)
BY DEF Still, StatusKept

\* Nobody is given a job or answers.
LEMMA WorldSame ==
  ASSUME UNCHANGED world, NEW r \in Req
  PROVE  SameCalls(r) /\ answered \subseteq answered'
BY DEF world, SameCalls

\* A statement that leaves no news of the request.
LEMMA QueueQuiet ==
  ASSUME TypeOK, NEW r \in Req, NEW taken, NEW left, \A e \in News(r) : e \notin left,
         TakeAndLeave(taken, left)
  PROVE  NoNews(r)
<1> SUFFICES ASSUME NEW e \in News(r)
             PROVE  events_queue'[e] <= events_queue[e]
  BY DEF NoNews
<1>1. e \in Event /\ events_queue[e] \in Nat /\ e \notin left
  BY NewsTyped
<1> QED
  BY <1>1 DEF TakeAndLeave

\* One that takes news of the request, ...
LEMMA QueueLess ==
  ASSUME TypeOK, NEW r \in Req, NEW e \in News(r), Queued(e), NEW left, \A f \in News(r) : f \notin left,
         TakeAndLeave({e}, left)
  PROVE  Less(r, e)
<1>1. \A f \in News(r) : f \in Event /\ events_queue[f] \in Nat /\ f \notin left
  BY NewsTyped
<1>2. events_queue[e] > 0
  BY DEF Queued
<1>3. events_queue'[e] = events_queue[e] - 1
  BY <1>1 DEF TakeAndLeave
<1>4. \A f \in News(r) : f # e => events_queue'[f] <= events_queue[f]
  BY <1>1 DEF TakeAndLeave
<1> QED
  BY <1>2, <1>3, <1>4 DEF Less

\* ... and one that leaves some.
LEMMA QueueMore ==
  ASSUME TypeOK, NEW r \in Req, NEW e \in News(r), NEW left, e \in left,
         \A f \in News(r) : f \in left => f = e, TakeAndLeave({}, left)
  PROVE  More(r, e)
<1>1. \A f \in News(r) : f \in Event /\ events_queue[f] \in Nat
  BY NewsTyped
<1>2. events_queue'[e] = events_queue[e] + 1
  BY <1>1 DEF TakeAndLeave
<1>3. \A f \in News(r) : f # e => events_queue'[f] <= events_queue[f]
  BY <1>1 DEF TakeAndLeave
<1> QED
  BY <1>2, <1>3 DEF More

\* The updates that are news of a request.
LEMMA UpdateNews ==
  ASSUME NEW r \in Req, NEW q, NEW s, NEW d, RequestEvent(q, s, d) \in News(r)
  PROVE  q = r /\ s \in {"ready", "ready_for_service"}
BY DEF News, Asked, Reported, InsertionEvent, RequestEvent

\* Rows that are written, none of which becomes ready or ready for service.
LEMMA RowQuiet ==
  ASSUME TypeOK, NEW rows, NEW new, NEW taken, WriteRequests(rows, new, taken), NEW r \in Req,
         r \in rows => new[r].status \notin {"ready", "ready_for_service"}
  PROVE  NoNews(r) /\ Status(r)' = IF r \in rows THEN new[r].status ELSE Status(r)
<1>1. \A e \in News(r) :
        e \notin {RequestEvent(q, new[q].status, new[q].assignment_dispatched) : q \in rows}
  BY UpdateNews
<1>2. NoNews(r)
  BY <1>1, QueueQuiet DEF WriteRequests
<1> QED
  BY <1>2 DEF WriteRequests, Status

\* A row that does.
LEMMA RowNews ==
  ASSUME TypeOK, NEW rows, NEW new, WriteRequests(rows, new, {}), NEW r \in Req, r \in rows,
         new[r].status \in {"ready", "ready_for_service"}, new[r].assignment_dispatched \in BOOLEAN
  PROVE  /\ Status(r)' = new[r].status
         /\ new[r].status = "ready" => \E e \in Reported(r) : More(r, e)
         /\ new[r].status = "ready_for_service" => \E e \in Asked(r) : More(r, e)
<1> DEFINE e == RequestEvent(r, new[r].status, new[r].assignment_dispatched)
           left == {RequestEvent(q, new[q].status, new[q].assignment_dispatched) : q \in rows}
<1>1. /\ new[r].status = "ready" => e \in Reported(r)
      /\ new[r].status = "ready_for_service" => e \in Asked(r)
  BY DEF Reported, Asked
<1>2. e \in News(r) /\ e \in left
  BY <1>1 DEF News
<1>3. \A f \in News(r) : f \in left => f = e
  BY UpdateNews
<1>4. TakeAndLeave({}, left)
  BY DEF WriteRequests
<1>5. More(r, e)
  <2> HIDE DEF e, left
  <2> QED
    BY <1>2, <1>3, <1>4, QueueMore
<1>6. Status(r)' = new[r].status
  BY DEF WriteRequests, Status
<1> QED
  BY <1>1, <1>5, <1>6

\* Statements on the mission and on the assignments are no news.
LEMMA OtherTables ==
  ASSUME TypeOK, NEW s, NEW taken, NEW r \in Req
  PROVE  /\ SetMission(s, taken) => NoNews(r)
         /\ \A allowed : SetMissionWhere(allowed, s, taken) => NoNews(r)
         /\ \A rows : SetAssignments(rows, s, taken) => NoNews(r)
         /\ TakeAndLeave(taken, {}) => NoNews(r)
         /\ UNCHANGED events_queue => NoNews(r)
<1>1. \A e \in News(r) : e # MissionEvent(s) /\ \A a : e # AssignmentEvent(a, s)
  BY DEF News, Asked, Reported, InsertionEvent, RequestEvent, MissionEvent, AssignmentEvent
<1>2. SetMission(s, taken) => NoNews(r)
  BY <1>1, QueueQuiet DEF SetMission
<1>3. TakeAndLeave(taken, {}) => NoNews(r)
  BY QueueQuiet
<1>4. \A allowed : SetMissionWhere(allowed, s, taken) => NoNews(r)
  BY <1>2, <1>3 DEF SetMissionWhere
<1>5. ASSUME NEW rows, SetAssignments(rows, s, taken)
      PROVE  NoNews(r)
  BY <1>1, <1>5, QueueQuiet DEF SetAssignments
<1>6. UNCHANGED events_queue => NoNews(r)
  BY NewsTyped DEF NoNews
<1> QED
  BY <1>2, <1>3, <1>4, <1>5, <1>6
----------------------------------------------------------------------------
(* What the statements do to the completion of the mission *)

\* Nothing new leads to the completion.
LEMMA NotClosing ==
  ASSUME TypeOK, mission' = mission \/ mission' \notin {"assignments_completed", "succeeded"},
         events_queue'[Completion] <= events_queue[Completion], TypeOK',
         \A g \in Handler : Closes(handler'[g]) => Closes(handler[g])
  PROVE  Closing' => Closing
<1>1. Completion \in Event
  BY MissionEvents DEF Completion, HandledMission
<1>2. events_queue[Completion] \in Nat /\ events_queue'[Completion] \in Nat
  BY <1>1 DEF TypeOK
<1>3. events_queue'[Completion] > 0 => events_queue[Completion] > 0
  BY <1>2
<1> QED
  BY <1>3 DEF Closing

\* A step of the requests alone.
LEMMA RequestsNotClosing ==
  ASSUME TypeOK, TypeOK', UNCHANGED mission, SameEnds, NEW h \in Handler, Others(h), ~Closes(handler'[h])
  PROVE  Closing' => Closing
<1>1. events_queue'[Completion] = events_queue[Completion]
  BY DEF SameEnds, Completion, HandledMission
<1>2. Completion \in Event
  BY MissionEvents DEF Completion, HandledMission
<1>3. events_queue'[Completion] <= events_queue[Completion]
  BY <1>1, <1>2 DEF TypeOK
<1>4. \A g \in Handler : Closes(handler'[g]) => Closes(handler[g])
  BY DEF Others
<1> QED
  BY <1>3, <1>4, NotClosing

\* A statement that writes another status of the mission.
LEMMA MissionNotClosing ==
  ASSUME TypeOK, TypeOK', NEW s, s \notin {"assignments_completed", "succeeded"}, NEW taken, NEW allowed,
         SetMission(s, taken) \/ SetMissionWhere(allowed, s, taken),
         \A g \in Handler : Closes(handler'[g]) => Closes(handler[g])
  PROVE  Closing' => Closing
<1>1. mission' = mission \/ mission' = s
  BY DEF SetMission, SetMissionWhere
<1>2. Completion \in Event /\ Completion # MissionEvent(s)
  BY MissionEvents DEF Completion, HandledMission
<1>3. PICK left : TakeAndLeave(taken, left) /\ Completion \notin left
  BY <1>2 DEF SetMission, SetMissionWhere
<1>4. events_queue[Completion] \in Nat
  BY <1>2 DEF TypeOK
<1>5. events_queue'[Completion] <= events_queue[Completion]
  BY <1>2, <1>3, <1>4 DEF TakeAndLeave
<1> QED
  BY <1>1, <1>5, NotClosing
----------------------------------------------------------------------------
(* The steps, one after the other *)

\* Giving a request to its microservice and saving the answer.
LEMMA DispatchingAdvances ==
  ASSUME RunsWithPermission, TypeOK', NEW h \in Handler, Dispatching(h)
  PROVE  Advance
<1>0. TypeOK /\ handler[h] \in Task /\ TaskOK(handler[h]) /\ TaskPermitted(handler[h], answered)
  BY InvariantOf
<1>q. PICK q \in Req : q = handler[h].row
  BY <1>0 DEF Dispatching, ClaimRequest, DropRequest, SelectRequest, SendRequest, SendFails,
              SaveSendFailure, MarkPending, SaveResponse, IsAt, TaskOK, RequestPc
<1>1. CASE ClaimRequest(h)
  <2>1. /\ handler[h].pc = "claim" /\ UNCHANGED <<mission, world>>
        /\ Becomes(h, At("select", q, "-"))
        /\ WriteRequests({x \in {q} : service_requests[x].status \in {"ready_for_service"}},
                         WithStatus("dispatching_service"), {})
    BY <1>q, <1>1 DEF ClaimRequest, IsAt, SetRequestWhere
  <2>2. Others(h) /\ handler'[h] = At("select", q, "-")
    BY <1>q, <1>0, <2>1, OneMoves
  <2>3. ASSUME NEW r \in Req
        PROVE  Still(r)
    <3>1. WithStatus("dispatching_service")[r].status = "dispatching_service"
      BY <1>q, <1>0 DEF WithStatus, TypeOK, RequestRow
    <3>2. NoNews(r) /\ StatusKept(r)
      BY <1>q, <1>0, <2>1, <3>1, RowQuiet DEF StatusKept, Status
    <3>3. RolesKept(r)
      BY <1>q, <2>1, <2>2 DEF Others, RolesKept, Dispatches, Serves, Lists, Marks, Frees, At
    <3> QED
      BY <2>1, <3>2, <3>3, WorldSame DEF Still
  <2>4. Closing' => Closing
    BY <1>q, <1>0, <2>1, <2>2, NothingApart, WriteSame, RequestsNotClosing DEF Closes, At
  <2> QED
    BY <2>1, <2>3, <2>4, WorldSame DEF Advance, world
<1>2. CASE DropRequest(h) \/ SaveSendFailure(h)
  <2>1. PICK rows, new :
          /\ UNCHANGED <<mission, world>> /\ Becomes(h, Idle) /\ WriteRequests(rows, new, {})
          /\ \A r \in Req : new[r].status \in {"canceled", "failed"}
    <3>1. \A r \in Req : /\ WithStatus("canceled")[r].status = "canceled"
                         /\ WithAnswer("failed", TRUE, {})[r].status = "failed"
      BY <1>q, <1>0 DEF WithStatus, WithAnswer, TypeOK, RequestRow
    <3> QED
      BY <1>q, <1>2, <3>1 DEF DropRequest, SaveSendFailure
  <2>2. Others(h) /\ handler'[h] = Idle
    BY <1>q, <1>0, <2>1, OneMoves
  <2>3. ASSUME NEW r \in Req
        PROVE  Still(r)
    <3>1. NoNews(r) /\ StatusKept(r)
      BY <1>q, <1>0, <2>1, RowQuiet DEF StatusKept
    <3>2. RolesKept(r)
      BY <2>2, DullMove DEF Idle, RolePc
    <3> QED
      BY <2>1, <3>1, <3>2, WorldSame DEF Still
  <2>4. Closing' => Closing
    BY <1>q, <1>0, <2>1, <2>2, NothingApart, WriteSame, RequestsNotClosing DEF Closes, Idle
  <2> QED
    BY <2>1, <2>3, <2>4, WorldSame DEF Advance, world
<1>3. CASE SelectRequest(h) \/ SendFails(h)
  <2>1. /\ handler[h].pc \in {"select", "send"} /\ UNCHANGED <<mission, service_requests, events_queue, world>>
        /\ \/ Becomes(h, At("send", q, "-")) /\ handler[h].pc = "select"
           \/ Becomes(h, Idle) \/ Becomes(h, At("sendFailed", q, "-"))
    BY <1>q, <1>3 DEF SelectRequest, SendFails, IsAt
  <2>2. /\ Others(h)
        /\ \/ handler'[h] = At("send", q, "-") /\ handler[h].pc = "select"
           \/ handler'[h] = Idle \/ handler'[h] = At("sendFailed", q, "-")
    BY <1>q, <1>0, <2>1, OneMoves
  <2>3. ASSUME NEW r \in Req
        PROVE  Still(r)
    <3>1. NoNews(r) /\ Status(r)' = Status(r)
      BY <1>q, <1>0, <2>1, OtherTables DEF Status
    <3>2. RolesKept(r)
      BY <1>q, <2>1, <2>2 DEF Others, RolesKept, Dispatches, Serves, Lists, Marks, Frees, At, Idle
    <3> QED
      BY <2>1, <3>1, <3>2, WorldSame, SameStill
  <2>4. Closing' => Closing
    BY <1>q, <1>0, <2>1, <2>2, RequestsNotClosing DEF SameEnds, Closes, At, Idle
  <2> QED
    BY <2>1, <2>3, <2>4, WorldSame DEF Advance, world
<1>4. CASE SendRequest(h)
  <2>1. PICK reply :
          /\ handler[h].pc = "send" /\ UNCHANGED <<mission, service_requests, events_queue>>
          /\ Becomes(h, At("markPending", q, reply))
          /\ answered' \in {answered, answered \cup {q}}
          /\ calls' = [calls EXCEPT ![q] = @ + 1]
    BY <1>q, <1>4 DEF SendRequest, IsAt
  <2>2. Others(h) /\ handler'[h] = At("markPending", q, reply)
    BY <1>q, <1>0, <2>1, OneMoves
  <2>3. ASSUME NEW r \in Req
        PROVE  NoNews(r) /\ Status(r)' = Status(r)
    BY <1>q, <1>0, <2>1, OtherTables DEF Status
  <2>4. Sent(q, h)
    <3>1. calls'[q] = calls[q] + 1
      BY <1>0, <1>q, <2>1 DEF TypeOK
    <3>2. Dispatches(handler[h], q) /\ handler'[h].pc = "markPending" /\ handler'[h].row = q
      BY <1>q, <2>1, <2>2 DEF Dispatches, At
    <3>3. NoNews(q) /\ StatusKept(q)
      BY <1>q, <2>3 DEF StatusKept
    <3> QED
      BY <2>2, <3>1, <3>2, <3>3 DEF Sent
  <2>5. ASSUME NEW r \in Req, r # q
        PROVE  Still(r)
    <3>1. SameCalls(r)
      BY <1>q, <1>0, <2>1, <2>5 DEF SameCalls, TypeOK
    <3>2. RolesKept(r)
      BY <2>2, <2>5, RowMove DEF At
    <3> QED
      BY <2>3, <3>1, <3>2, SameStill
  <2>6. Closing' => Closing
    BY <1>q, <1>0, <2>1, <2>2, RequestsNotClosing DEF SameEnds, Closes, At
  <2> QED
    BY <1>q, <2>1, <2>4, <2>5, <2>6 DEF Advance, Moves
<1>5. CASE MarkPending(h)
  <2>1. PICK val :
          /\ handler[h].pc = "markPending" /\ UNCHANGED <<mission, world>>
          /\ Becomes(h, At("saveResponse", q, val))
          /\ WriteRequests({x \in {q} : service_requests[x].status \in {"dispatching_service"}},
                           WithStatus("pending"), {})
    BY <1>q, <1>5 DEF MarkPending, IsAt, SetRequestWhere
  <2>2. Others(h) /\ handler'[h] = At("saveResponse", q, val)
    BY <1>q, <1>0, <2>1, OneMoves
  <2>3. ASSUME NEW r \in Req
        PROVE  Still(r)
    <3>1. WithStatus("pending")[r].status = "pending"
      BY <1>q, <1>0 DEF WithStatus, TypeOK, RequestRow
    <3>2. r = q => Serves(handler[h], r)
      BY <1>q, <2>1 DEF Serves
    <3>3. NoNews(r) /\ StatusKept(r)
      BY <1>q, <1>0, <2>1, <3>1, <3>2, RowQuiet DEF StatusKept, Status, Answerable
    <3>4. RolesKept(r)
      BY <1>q, <2>1, <2>2 DEF Others, RolesKept, Dispatches, Serves, Lists, Marks, Frees, At
    <3> QED
      BY <2>1, <3>3, <3>4, WorldSame DEF Still
  <2>4. Closing' => Closing
    BY <1>q, <1>0, <2>1, <2>2, NothingApart, WriteSame, RequestsNotClosing DEF Closes, At
  <2> QED
    BY <2>1, <2>3, <2>4, WorldSame DEF Advance, world
<1>6. CASE SaveResponse(h)
  <2> DEFINE s == handler[h].val
             rows == {x \in {q} : service_requests[x].status \in Answerable}
  <2>1. PICK skip :
          /\ handler[h].pc = "saveResponse" /\ UNCHANGED <<mission, world>> /\ Becomes(h, Idle)
          /\ WriteRequests(rows, WithAnswer(s, s # "pending", skip), {})
    BY <1>q, <1>6 DEF SaveResponse, IsAt
  <2>2. Others(h) /\ handler'[h] = Idle
    BY <1>q, <1>0, <2>1, OneMoves
  <2>3. \A r \in Req : /\ WithAnswer(s, s # "pending", skip)[r].status = s
                       /\ WithAnswer(s, s # "pending", skip)[r].assignment_dispatched \in BOOLEAN
    BY <1>q, <1>0 DEF WithAnswer, TypeOK, RequestRow
  <2>4. /\ s \in {"ready", "pending", "failed", "canceled"} /\ Serves(handler[h], q)
        /\ s = "ready" => q \in answered
    BY <1>q, <1>0, <2>1 DEF TaskOK, TaskPermitted, Serves
  <2>5. ASSUME NEW r \in Req
        PROVE  RolesKept(r)
    BY <2>2, DullMove DEF Idle, RolePc
  <2>6. ASSUME NEW r \in Req, r \notin rows \/ s # "ready"
        PROVE  Still(r)
    <3>1. NoNews(r) /\ Status(r)' = IF r \in rows THEN s ELSE Status(r)
      BY <1>q, <1>0, <2>1, <2>3, <2>4, <2>6, RowQuiet
    <3>2. StatusKept(r)
      BY <2>4, <2>6, <3>1 DEF StatusKept, Status
    <3> QED
      BY <2>1, <2>5, <3>1, <3>2, WorldSame DEF Still
  <2>7. ASSUME q \in rows, s = "ready"
        PROVE  Answered(q, h)
    <3>1. Status(q)' = "ready" /\ \E e \in Reported(q) : More(q, e)
      BY <1>0, <1>q, <2>1, <2>3, <2>7, RowNews
    <3>2. Status(q) \in Answerable
      BY <2>7 DEF Status
    <3> QED
      BY <1>q, <2>1, <2>2, <2>4, <2>7, <3>1, <3>2, WorldSame DEF Answered
  <2>8. Closing' => Closing
    BY <1>q, <1>0, <2>1, <2>2, NothingApart, WriteSame, RequestsNotClosing DEF Closes, Idle
  <2>9. \A r \in Req : r # q => r \notin rows
    OBVIOUS
  <2> QED
    BY <1>q, <2>1, <2>6, <2>7, <2>8, <2>9, WorldSame DEF Advance, Moves, world
<1> QED
  BY <1>q, <1>1, <1>2, <1>3, <1>4, <1>5, <1>6 DEF Dispatching

\* What changes of a list when one of its entries does.
LEMMA TodoChanges ==
  ASSUME NEW t \in Task, NEW q \in Req, NEW v
  PROVE  LET u == [t EXCEPT !.todo[q] = v]
         IN  u.pc = t.pc /\ u.row = t.row /\ u.todo[q] = v /\ \A r \in Req : r # q => u.todo[r] = t.todo[r]
BY DEF Task, Row

\* Another entry of a list changes.
LEMMA OtherEntry ==
  ASSUME NEW h \in Handler, Others(h), handler[h].pc = "updateNext", handler'[h].pc = "updateNext",
         handler'[h].row = handler[h].row, NEW r \in Req, handler'[h].todo[r] = handler[h].todo[r]
  PROVE  RolesKept(r)
BY DEF Others, RolesKept, Dispatches, Serves, Lists, Marks, Frees

\* Activating the next requests.
LEMMA ActivatingAdvances ==
  ASSUME RunsWithPermission, TypeOK', NEW h \in Handler, Activating(h)
  PROVE  Advance
<1>0. TypeOK /\ handler[h] \in Task /\ TaskOK(handler[h])
  BY InvariantOf
<1>1. CASE ListNext(h)
  <2> DEFINE waiting == {q \in NextReq[handler[h].row] : service_requests[q].status = "not_ready_for_service"}
             copy == [At("updateNext", handler[h].row, "-") EXCEPT
                        !.todo = [x \in Row |-> IF x \in waiting THEN "not_ready_for_service" ELSE "-"]]
  <2>1. /\ handler[h].pc = "listNext" /\ UNCHANGED <<mission, service_requests, events_queue, world>>
        /\ waiting = {} => Becomes(h, Idle)
        /\ waiting # {} => Becomes(h, copy)
    BY <1>1 DEF ListNext, IsAt
  <2>2. /\ Others(h)
        /\ waiting = {} => handler'[h] = Idle
        /\ waiting # {} => handler'[h] = copy
    BY <1>0, <2>1, OneMoves
  <2>3. /\ copy.pc = "updateNext" /\ copy.row = handler[h].row
        /\ \A r \in Req : copy.todo[r] = IF r \in waiting THEN "not_ready_for_service" ELSE "-"
    BY DEF At, Row
  <2>4. ASSUME NEW r \in Req
        PROVE  NoNews(r) /\ Status(r)' = Status(r) /\ SameCalls(r)
    BY <1>0, <2>1, OtherTables, WorldSame DEF Status
  <2>5. ASSUME NEW r \in Req, r \notin waiting
        PROVE  RolesKept(r)
    <3>1. CASE waiting = {}
      BY <2>2, <3>1, DullMove DEF Idle, RolePc
    <3>2. CASE waiting # {}
      <4>1. /\ handler'[h].pc = "updateNext" /\ handler'[h].row = handler[h].row
            /\ handler'[h].todo[r] = "-"
        BY <2>2, <2>3, <2>5, <3>2
      <4> QED
        BY <2>1, <2>2, <4>1 DEF Others, RolesKept, Dispatches, Serves, Lists, Marks, Frees
    <3> QED
      BY <3>1, <3>2
  <2>6. ASSUME NEW r \in waiting
        PROVE  r \in Req /\ Copied(r, h)
    <3>1. r \in NextReq[handler[h].row] /\ Status(r) = "not_ready_for_service"
      BY DEF Status
    <3>2. r \in Req
      BY <1>0, <2>1, PipelineAssumption DEF TaskOK, RequestPc
    <3>3. /\ handler'[h].pc = "updateNext" /\ handler'[h].row = handler[h].row
          /\ handler'[h].todo[r] = "not_ready_for_service"
      BY <2>2, <2>3, <2>6, <3>2
    <3> QED
      BY <2>1, <2>2, <2>4, <3>1, <3>2, <3>3 DEF Copied
  <2>7. \A r \in Req : Still(r) \/ Copied(r, h)
    BY <2>4, <2>5, <2>6, SameStill
  <2>8. ~Closes(handler'[h])
    <3>1. CASE waiting = {}
      BY <2>2, <3>1 DEF Closes, Idle
    <3>2. CASE waiting # {}
      BY <2>2, <2>3, <3>2 DEF Closes
    <3> QED
      BY <3>1, <3>2
  <2>9. Closing' => Closing
    BY <1>0, <2>1, <2>2, <2>8, RequestsNotClosing DEF SameEnds
  <2> QED
    BY <2>1, <2>7, <2>9 DEF Advance, Moves, world
<1>2. CASE ReleaseRequest(h)
  <2>1. PICK q \in Req : q = handler[h].row
    BY <1>0, <1>2 DEF ReleaseRequest, IsAt, TaskOK, RequestPc
  <2> DEFINE rows == {x \in {q} : service_requests[x].status \in {"wait_dependencies"}}
             new == WithStatus("ready_for_service")
  <2>2. /\ handler[h].pc = "release" /\ UNCHANGED <<mission, world>> /\ Becomes(h, Idle)
        /\ WriteRequests(rows, new, {})
    BY <1>2, <2>1 DEF ReleaseRequest, IsAt, SetRequestWhere
  <2>3. Others(h) /\ handler'[h] = Idle
    BY <1>0, <2>2, OneMoves
  <2>4. \A r \in Req : new[r].status = "ready_for_service" /\ new[r].assignment_dispatched \in BOOLEAN
    BY <1>0 DEF WithStatus, TypeOK, RequestRow
  <2>5. ASSUME NEW r \in Req, r \notin rows
        PROVE  Still(r)
    <3>1. NoNews(r) /\ Status(r)' = Status(r)
      BY <1>0, <2>2, <2>5, RowQuiet
    <3>2. RolesKept(r)
      BY <2>3, DullMove DEF Idle, RolePc
    <3> QED
      BY <2>2, <3>1, <3>2, WorldSame, SameStill
  <2>6. ASSUME q \in rows
        PROVE  Freed(q, h)
    <3>1. Status(q)' = "ready_for_service" /\ \E e \in Asked(q) : More(q, e)
      BY <1>0, <2>2, <2>4, <2>6, RowNews
    <3>2. Status(q) = "wait_dependencies" /\ Frees(handler[h], q)
      BY <2>1, <2>2, <2>6 DEF Status, Frees
    <3> QED
      BY <2>2, <2>3, <3>1, <3>2, WorldSame DEF Freed
  <2>7. Closing' => Closing
    BY <1>0, <2>2, <2>3, NothingApart, WriteSame, RequestsNotClosing DEF Closes, Idle
  <2>8. \A r \in Req : r # q => r \notin rows
    OBVIOUS
  <2> QED
    BY <2>2, <2>5, <2>6, <2>7, <2>8 DEF Advance, Moves, world
<1>3. ASSUME NEW q \in Req, DetermineNext(h, q)
      PROVE  Advance
  <2>1. /\ handler[h].pc = "updateNext" /\ UNCHANGED <<mission, service_requests, events_queue, world>>
        /\ handler[h].todo[q] = "not_ready_for_service"
        /\ Becomes(h, [handler[h] EXCEPT !.todo[q] = DetermineStatus(q)])
    BY <1>3 DEF DetermineNext, IsAt
  <2>2. Others(h) /\ handler'[h] = [handler[h] EXCEPT !.todo[q] = DetermineStatus(q)]
    BY <1>0, <2>1, OneMoves
  <2>3. /\ handler'[h].pc = "updateNext" /\ handler'[h].row = handler[h].row
        /\ handler'[h].todo[q] = DetermineStatus(q)
        /\ \A r \in Req : r # q => handler'[h].todo[r] = handler[h].todo[r]
    BY <1>0, <2>1, <2>2, TodoChanges
  <2>4. ASSUME NEW r \in Req
        PROVE  NoNews(r) /\ Status(r)' = Status(r) /\ SameCalls(r)
    BY <1>0, <2>1, OtherTables, WorldSame DEF Status
  <2>5. ASSUME NEW r \in Req, r # q
        PROVE  Still(r)
    BY <2>1, <2>2, <2>3, <2>4, <2>5, OtherEntry, SameStill
  <2>6. Determined(q, h)
    <3>1. Marks(handler[h], q)
      BY <2>1 DEF Marks
    <3> QED
      BY <2>2, <2>3, <2>4, <3>1 DEF Determined
  <2>7. Closing' => Closing
    BY <1>0, <2>1, <2>2, <2>3, RequestsNotClosing DEF SameEnds, Closes
  <2> QED
    BY <2>1, <2>5, <2>6, <2>7 DEF Advance, Moves, world
<1>4. ASSUME NEW q \in Req, WriteNext(h, q)
      PROVE  Advance
  <2> DEFINE s == handler[h].todo[q]
             new == [x \in Req |-> [NewRequest(x) EXCEPT !.status = s]]
  <2>1. /\ handler[h].pc = "updateNext" /\ UNCHANGED <<mission, world>>
        /\ s \notin {"-", "not_ready_for_service"}
        /\ WriteRequests({q}, new, {})
        /\ \/ Becomes(h, Idle)
           \/ Becomes(h, [handler[h] EXCEPT !.todo[q] = "-"])
    BY <1>4 DEF WriteNext, IsAt, DoneWith
  <2>2. /\ Others(h)
        /\ handler'[h] = Idle \/ handler'[h] = [handler[h] EXCEPT !.todo[q] = "-"]
    BY <1>0, <2>1, OneMoves
  <2>3. \/ handler'[h] = Idle
        \/ /\ handler'[h].pc = "updateNext" /\ handler'[h].row = handler[h].row
           /\ handler'[h].todo[q] = "-"
           /\ \A r \in Req : r # q => handler'[h].todo[r] = handler[h].todo[r]
    <3>1. CASE handler'[h] = [handler[h] EXCEPT !.todo[q] = "-"]
      <4>1. /\ handler'[h].pc = handler[h].pc /\ handler'[h].row = handler[h].row
            /\ handler'[h].todo[q] = "-"
            /\ \A r \in Req : r # q => handler'[h].todo[r] = handler[h].todo[r]
        BY <1>0, <3>1, TodoChanges
      <4> QED
        BY <2>1, <4>1
    <3> QED
      BY <2>2, <3>1
  <2>4. new[q].status = s /\ new[q].assignment_dispatched \in BOOLEAN
    BY DEF NewRequest
  <2>5. s \in {"skipped", "wait_dependencies", "ready_for_service"}
    BY <1>0, <2>1 DEF TaskOK
  <2>6. ASSUME NEW r \in Req, r # q
        PROVE  Still(r)
    <3>1. NoNews(r) /\ Status(r)' = Status(r)
      BY <1>0, <2>1, <2>6, RowQuiet
    <3>2. CASE handler'[h] = Idle
      BY <2>1, <2>2, <3>1, <3>2, DullMove, WorldSame, SameStill DEF Idle, RolePc
    <3>3. CASE handler'[h] # Idle
      BY <2>1, <2>2, <2>3, <2>6, <3>1, <3>3, OtherEntry, WorldSame, SameStill
    <3> QED
      BY <3>2, <3>3
  <2>7. Written(q, h)
    <3>1. Marks(handler[h], q) /\ ~Marks(handler'[h], q)
      BY <2>1, <2>3 DEF Marks, Idle
    <3>2. CASE s = "ready_for_service"
      <4>1. Status(q)' = s /\ \E e \in Asked(q) : More(q, e)
        BY <1>0, <2>1, <2>4, <3>2, RowNews
      <4> QED
        BY <2>1, <2>2, <2>3, <2>5, <3>1, <3>2, <4>1, WorldSame DEF Written
    <3>3. CASE s # "ready_for_service"
      <4>1. Status(q)' = s /\ NoNews(q)
        BY <1>0, <2>1, <2>4, <2>5, <3>3, RowQuiet
      <4> QED
        BY <2>1, <2>2, <2>3, <2>5, <3>1, <3>3, <4>1, WorldSame DEF Written
    <3> QED
      BY <3>2, <3>3
  <2>8. Closing' => Closing
    BY <1>0, <2>1, <2>2, <2>3, NothingApart, WriteSame, RequestsNotClosing DEF Closes, Idle
  <2> QED
    BY <2>1, <2>6, <2>7, <2>8 DEF Advance, Moves, world
<1> QED
  BY <1>1, <1>2, <1>3, <1>4 DEF Activating

\* A step that does nothing about any request: nobody is given a job, and
\* who takes the step goes where nothing is done about a request.
LEMMA DullAdvances ==
  ASSUME TypeOK, UNCHANGED world, NEW h \in Handler, Others(h), handler'[h].pc \notin RolePc,
         \A r \in Req : NoNews(r),
         \A r \in Req : Status(r)' = Status(r) \/ Status(r)' \in {"failed", "canceled"},
         Closing' => Closing
  PROVE  Advance
<1> SUFFICES ASSUME NEW r \in Req
             PROVE  Still(r)
  BY WorldSame DEF Advance, world
<1>1. RolesKept(r)
  BY DullMove
<1>2. SameCalls(r)
  BY WorldSame
<1> QED
  BY <1>1, <1>2 DEF Still, StatusKept

\* Ending a request, and what writes the status that ends the mission.
LEMMA EndingAdvances ==
  ASSUME RunsWithPermission, TypeOK', NEW h \in Handler, MarkCalculating(h) \/ Ending(h)
  PROVE  Advance
<1>0. TypeOK
  BY InvariantOf
<1>1. UNCHANGED world /\ Becomes(h, Idle)
  BY Zenon DEF MarkCalculating, Ending, SaveTimeout, SaveUnreachable, FailPlanning, WrapUp, ConfirmCancel
<1>2. Others(h) /\ handler'[h] = Idle
  BY <1>0, <1>1, OneMoves
<1>3. handler'[h].pc \notin RolePc /\ \A g \in Handler : Closes(handler'[g]) => Closes(handler[g])
  BY <1>2 DEF Idle, RolePc, Closes, Others
<1>4. CASE SaveTimeout(h)
  <2>1. PICK rows, new :
          /\ UNCHANGED mission /\ WriteRequests(rows, new, {})
          /\ \A r \in rows : service_requests[r].status = "pending"
          /\ \A r \in Req : new[r].status = "time-out"
    BY <1>4 DEF SaveTimeout, WithAnswer
  <2>2. ASSUME NEW r \in Req
        PROVE  Still(r)
    <3>1. NoNews(r) /\ StatusKept(r)
      BY <1>0, <2>1, RowQuiet DEF StatusKept, Status
    <3> QED
      BY <1>1, <1>2, <1>3, <3>1, DullMove, WorldSame DEF Still
  <2>3. Closing' => Closing
    BY <1>0, <1>2, <2>1, NothingApart, WriteSame, RequestsNotClosing DEF Closes, Idle
  <2> QED
    BY <1>1, <2>2, <2>3, WorldSame DEF Advance, world
<1>5. CASE SaveUnreachable(h) \/ ConfirmCancel(h)
  <2>1. PICK rows, new :
          /\ UNCHANGED mission /\ WriteRequests(rows, new, {})
          /\ \A r \in Req : new[r].status \in {"failed", "canceled"}
    BY <1>5 DEF SaveUnreachable, ConfirmCancel, WithAnswer
  <2>2. \A r \in Req : NoNews(r) /\ (Status(r)' = Status(r) \/ Status(r)' \in {"failed", "canceled"})
    BY <1>0, <2>1, RowQuiet
  <2>3. Closing' => Closing
    BY <1>0, <1>2, <2>1, NothingApart, WriteSame, RequestsNotClosing DEF Closes, Idle
  <2> QED
    BY <1>0, <1>1, <1>2, <1>3, <2>2, <2>3, DullAdvances
<1>6. CASE MarkCalculating(h) \/ FailPlanning(h)
  <2>1. PICK s, allowed :
          /\ UNCHANGED service_requests /\ SetMissionWhere(allowed, s, {})
          /\ s \notin {"assignments_completed", "succeeded"}
    <3>1. /\ "calculating" \notin {"assignments_completed", "succeeded"}
          /\ "planning_failed" \notin {"assignments_completed", "succeeded"}
      OBVIOUS
    <3> QED
      BY <1>6, <3>1, Zenon DEF MarkCalculating, FailPlanning
  <2>2. \A r \in Req : NoNews(r) /\ Status(r)' = Status(r)
    BY <1>0, <2>1, OtherTables DEF Status
  <2>3. Closing' => Closing
    BY <1>0, <1>3, <2>1, MissionNotClosing
  <2> QED
    BY <1>0, <1>1, <1>2, <1>3, <2>2, <2>3, DullAdvances
<1>7. CASE WrapUp(h)
  <2>1. /\ UNCHANGED service_requests /\ handler[h].pc = "wrapUp"
        /\ SetMissionWhere(RunningMission, "assignments_completed", {}) \/ UNCHANGED events_queue
    BY <1>7 DEF WrapUp, IsAt
  <2>2. \A r \in Req : NoNews(r) /\ Status(r)' = Status(r)
    BY <1>0, <2>1, OtherTables DEF Status
  <2>3. Closing
    BY <2>1 DEF Closing, Closes
  <2> QED
    BY <1>0, <1>1, <1>2, <1>3, <2>2, <2>3, DullAdvances
<1> QED
  BY <1>4, <1>5, <1>6, <1>7 DEF Ending

\* A handler of an event of a request.
LEMMA HandleAdvances ==
  ASSUME RunsWithPermission, TypeOK', NEW h \in Handler, Handle(h)
  PROVE  Advance
<1>0. TypeOK
  BY InvariantOf
<1>1. PICK q \in Req : \/ HandleInsertion(h, q) \/ HandleReadyForService(h, q)
                       \/ HandleReady(h, q) \/ HandleFailed(h, q) \/ HandleTimeout(h, q)
  BY DEF Handle
<1>2. /\ Apart({InsertionEvent(q)})
      /\ \A s, d : Apart({RequestEvent(q, s, d)})
  BY DEF Apart, InsertionEvent, RequestEvent
<1>3. CASE HandleInsertion(h, q)
  <2>1. PICK pc \in {"drop", "claim"} :
          /\ handler[h].pc = "idle" /\ Queued(InsertionEvent(q))
          /\ UNCHANGED <<mission, service_requests, world>>
          /\ TakeAndLeave({InsertionEvent(q)}, {})
          /\ Becomes(h, At(pc, q, "-"))
    BY <1>3 DEF HandleInsertion, Starts, IsAt
  <2>2. Others(h) /\ handler'[h] = At(pc, q, "-")
    BY <1>0, <2>1, OneMoves
  <2>3. handler'[h].pc = pc /\ handler'[h].row = q
    BY <2>2 DEF At
  <2>4. ASSUME NEW r \in Req, r # q
        PROVE  Still(r)
    <3>1. NoNews(r) /\ Status(r)' = Status(r)
      BY <1>0, <2>1, OtherTables DEF Status
    <3> QED
      BY <2>1, <2>2, <2>3, <2>4, <3>1, RowMove, WorldSame, SameStill
  <2>5. Taken(q, h)
    <3>1. InsertionEvent(q) \in Asked(q) /\ InsertionEvent(q) \in News(q)
      BY DEF News, Asked
    <3>2. Less(q, InsertionEvent(q))
      BY <1>0, <2>1, <3>1, QueueLess
    <3>3. StatusKept(q)
      BY <2>1 DEF StatusKept, Status
    <3> QED
      BY <2>1, <2>2, <2>3, <3>1, <3>2, <3>3, WorldSame DEF Taken
  <2>6. Closing' => Closing
    BY <1>0, <1>2, <2>1, <2>2, <2>3, NothingApart, ApartSame, RequestsNotClosing DEF Closes
  <2> QED
    BY <2>1, <2>4, <2>5, <2>6 DEF Advance, Moves, world
<1>4. CASE HandleReadyForService(h, q)
  <2> DEFINE rows == {x \in {q} : service_requests[x].status \in {"ready_for_service"}}
             new == WithStatus("dispatching_service")
  <2>1. PICK d \in BOOLEAN :
          /\ handler[h].pc = "idle" /\ Queued(RequestEvent(q, "ready_for_service", d))
          /\ UNCHANGED <<mission, world>>
          /\ WriteRequests(rows, new, {RequestEvent(q, "ready_for_service", d)})
          /\ Becomes(h, At("select", q, "-"))
    BY <1>4 DEF HandleReadyForService, Starts, IsAt, SetRequestWhere
  <2>2. Others(h) /\ handler'[h] = At("select", q, "-")
    BY <1>0, <2>1, OneMoves
  <2>3. handler'[h].pc = "select" /\ handler'[h].row = q
    BY <2>2 DEF At
  <2>4. \A r \in Req : new[r].status = "dispatching_service"
    BY <1>0 DEF WithStatus, TypeOK, RequestRow
  <2>5. ASSUME NEW r \in Req, r # q
        PROVE  Still(r)
    <3>1. NoNews(r) /\ Status(r)' = Status(r)
      BY <1>0, <2>1, <2>4, <2>5, RowQuiet
    <3> QED
      BY <2>1, <2>2, <2>3, <2>5, <3>1, RowMove, WorldSame, SameStill
  <2>6. Taken(q, h)
    <3>1. RequestEvent(q, "ready_for_service", d) \in Asked(q) /\ RequestEvent(q, "ready_for_service", d) \in News(q)
      BY DEF News, Asked
    <3>2. \A f \in News(q) : f \notin {RequestEvent(x, new[x].status, new[x].assignment_dispatched) : x \in rows}
      BY <2>4, UpdateNews
    <3>3. TakeAndLeave({RequestEvent(q, "ready_for_service", d)},
                       {RequestEvent(x, new[x].status, new[x].assignment_dispatched) : x \in rows})
      BY <2>1 DEF WriteRequests
    <3>4. Less(q, RequestEvent(q, "ready_for_service", d))
      <4> HIDE DEF rows, new
      <4> QED
        BY <1>0, <2>1, <3>1, <3>2, <3>3, QueueLess
    <3>5. StatusKept(q)
      BY <1>0, <2>1, <2>4, RowQuiet DEF StatusKept, Status
    <3> QED
      BY <2>1, <2>2, <2>3, <3>1, <3>4, <3>5, WorldSame DEF Taken
  <2>7. Closing' => Closing
    BY <1>0, <1>2, <2>1, <2>2, <2>3, WriteSame, RequestsNotClosing DEF Closes
  <2> QED
    BY <2>1, <2>5, <2>6, <2>7 DEF Advance, Moves, world
<1>5. CASE HandleReady(h, q)
  <2>1. PICK d \in BOOLEAN :
          /\ handler[h].pc = "idle" /\ Queued(RequestEvent(q, "ready", d))
          /\ UNCHANGED <<mission, service_requests, world>>
          /\ TakeAndLeave({RequestEvent(q, "ready", d)}, {})
          /\ Becomes(h, AfterReady(q))
    BY <1>5 DEF HandleReady, Starts, IsAt
  <2>2. Others(h) /\ handler'[h] = AfterReady(q)
    BY <1>0, <2>1, OneMoves
  <2>3. /\ handler'[h].pc \in {"idle", "wrapUp", "listNext"}
        /\ handler'[h].pc = "listNext" => handler'[h].row = q
        /\ handler'[h].pc = "wrapUp" => NextReq[q] = {}
    <3>1. AfterReady(q) \in {At("listNext", q, "-"), Idle}
            \/ (NextReq[q] = {} /\ AfterReady(q) \in {At("wrapUp", q, "-"), Idle})
      BY Zenon DEF AfterReady
    <3> QED
      BY <2>2, <3>1 DEF At, Idle
  <2>4. ASSUME NEW r \in Req
        PROVE  NoNews(r) /\ Status(r)' = Status(r)
    BY <1>0, <2>1, OtherTables DEF Status
  <2>5. ASSUME NEW r \in Req, r # q
        PROVE  Still(r)
    <3>1. RolesKept(r)
      BY <2>2, <2>3, <2>5 DEF Others, RolesKept, Dispatches, Serves, Lists, Marks, Frees
    <3> QED
      BY <2>1, <2>4, <3>1, WorldSame, SameStill
  <2>6. FollowedUp(q, h)
    <3>1. RequestEvent(q, "ready", d) \in Reported(q) /\ RequestEvent(q, "ready", d) \in News(q)
      BY DEF News, Reported
    <3>2. Less(q, RequestEvent(q, "ready", d))
      BY <1>0, <2>1, <3>1, QueueLess
    <3> QED
      BY <2>1, <2>2, <2>3, <2>4, <3>1, <3>2, WorldSame DEF FollowedUp
  <2>7. SameEnds
    BY <1>0, <1>2, <2>1, NothingApart, ApartSame
  <2>8. handler'[h].pc # "wrapUp" => (Closing' => Closing)
    BY <1>0, <2>1, <2>2, <2>3, <2>7, RequestsNotClosing DEF Closes
  <2> QED
    BY <2>1, <2>3, <2>5, <2>6, <2>8 DEF Advance, Moves, world
<1>6. CASE HandleFailed(h, q)
  <2>1. PICK d \in BOOLEAN :
          /\ UNCHANGED <<handler, service_requests, world>>
          /\ SetMissionWhere(RunningMission, "planning_failed", {RequestEvent(q, "failed", d)})
    BY <1>6 DEF HandleFailed
  <2>2. ASSUME NEW r \in Req
        PROVE  Still(r)
    <3>1. NoNews(r) /\ Status(r)' = Status(r)
      BY <1>0, <2>1, OtherTables DEF Status
    <3>2. RolesKept(r)
      BY <2>1 DEF RolesKept
    <3> QED
      BY <2>1, <3>1, <3>2, WorldSame, SameStill
  <2>3. Closing' => Closing
    BY <1>0, <2>1, MissionNotClosing
  <2> QED
    BY <2>1, <2>2, <2>3 DEF Advance, world
<1>7. CASE HandleTimeout(h, q)
  <2>1. PICK d \in BOOLEAN :
          /\ UNCHANGED <<mission, world>>
          /\ WriteRequests({q}, WithStatus("canceled"), {RequestEvent(q, "time-out", d)})
          /\ Becomes(h, At("planningFailed", q, "-"))
    BY <1>7 DEF HandleTimeout
  <2>2. Others(h) /\ handler'[h] = At("planningFailed", q, "-")
    BY <1>0, <2>1, OneMoves
  <2>3. handler'[h].pc \notin RolePc /\ ~Closes(handler'[h])
    BY <2>2 DEF At, RolePc, Closes
  <2>4. \A r \in Req : WithStatus("canceled")[r].status = "canceled"
    BY <1>0 DEF WithStatus, TypeOK, RequestRow
  <2>5. \A r \in Req : NoNews(r) /\ (Status(r)' = Status(r) \/ Status(r)' \in {"failed", "canceled"})
    BY <1>0, <2>1, <2>4, RowQuiet
  <2>6. Closing' => Closing
    BY <1>0, <1>2, <2>1, <2>2, <2>3, WriteSame, RequestsNotClosing
  <2> QED
    BY <1>0, <2>1, <2>2, <2>3, <2>5, <2>6, DullAdvances
<1> QED
  BY <1>1, <1>3, <1>4, <1>5, <1>6, <1>7

\* A tick of a watcher.
LEMMA WatchAdvances ==
  ASSUME RunsWithPermission, TypeOK', NEW h \in Handler, Watch(h)
  PROVE  Advance
<1>0. TypeOK
  BY InvariantOf
<1>1. PICK q \in Req : PollService(h, q) \/ FindReleasable(h, q) \/ CancelService(h, q)
  BY DEF Watch
<1>2. PICK pc \in {"timedOut", "unreachable", "saveResponse", "release", "confirmCancel", "cancelFailed"} :
        /\ handler[h].pc = "idle" /\ UNCHANGED <<mission, service_requests, events_queue, calls>>
        /\ \E val : Becomes(h, At(pc, q, val))
        /\ answered' \in {answered, answered \cup {q}}
        /\ PollService(h, q) => /\ pc \in {"saveResponse", "timedOut", "unreachable"}
                                /\ service_requests[q].status = "pending"
        /\ FindReleasable(h, q) => /\ pc = "release" /\ UNCHANGED world
                                   /\ DetermineStatus(q) = "ready_for_service"
        /\ CancelService(h, q) => pc \in {"confirmCancel", "cancelFailed"} /\ UNCHANGED world
  <2>1. CASE PollService(h, q)
    <3>1. PICK pc \in {"timedOut", "unreachable", "saveResponse"} : \E val : Becomes(h, At(pc, q, val))
      BY <2>1 DEF PollService
    <3>2. ~FindReleasable(h, q) /\ ~CancelService(h, q)
      BY <2>1 DEF PollService, FindReleasable, CancelService
    <3> QED
      BY <2>1, <3>1, <3>2 DEF PollService, IsAt
  <2>2. CASE FindReleasable(h, q)
    <3>1. ~PollService(h, q) /\ ~CancelService(h, q)
      BY <2>2 DEF PollService, FindReleasable, CancelService
    <3> QED
      BY <2>2, <3>1 DEF FindReleasable, IsAt, world
  <2>3. CASE CancelService(h, q)
    <3>1. ~PollService(h, q) /\ ~FindReleasable(h, q)
      BY <2>3 DEF PollService, FindReleasable, CancelService
    <3> QED
      BY <2>3, <3>1 DEF CancelService, IsAt, world
  <2> QED
    BY <1>1, <2>1, <2>2, <2>3
<1>3. Others(h) /\ handler'[h].pc = pc /\ handler'[h].row = q
  <2>1. PICK val : Becomes(h, At(pc, q, val))
    BY <1>2
  <2>2. Others(h) /\ handler'[h] = At(pc, q, val)
    BY <1>0, <2>1, OneMoves
  <2> QED
    BY <2>2 DEF At
<1>4. \A r \in Req : NoNews(r) /\ Status(r)' = Status(r)
  BY <1>0, <1>2, OtherTables DEF Status
<1>5. ASSUME NEW r \in Req, r # q
      PROVE  Still(r)
  <2>1. RolesKept(r)
    BY <1>2, <1>3, <1>5, RowMove
  <2>2. SameCalls(r)
    BY <1>2, <1>5 DEF SameCalls
  <2> QED
    BY <1>4, <2>1, <2>2, SameStill
<1>6. Still(q) \/ Moves(q, h)
  <2>1. CASE PollService(h, q)
    BY <1>2, <1>3, <1>4, <2>1 DEF Moves, Polled, Status
  <2>2. CASE FindReleasable(h, q)
    BY <1>2, <1>3, <1>4, <2>2, WorldSame DEF Moves, Found
  <2>3. CASE CancelService(h, q)
    <3>1. RolesKept(q)
      BY <1>2, <1>3, <2>3, DullMove DEF RolePc
    <3> QED
      BY <1>2, <1>4, <2>3, <3>1, WorldSame, SameStill
  <2> QED
    BY <1>1, <2>1, <2>2, <2>3
<1>7. Closing' => Closing
  BY <1>0, <1>2, <1>3, RequestsNotClosing DEF SameEnds, Closes
<1> QED
  BY <1>2, <1>5, <1>6, <1>7 DEF Advance

\* The end of the mission: requests are canceled.
LEMMA MissionEndsAdvances ==
  ASSUME RunsWithPermission, TypeOK', NEW h \in Handler, MissionEnds(h)
  PROVE  Advance
<1>0. TypeOK /\ UNCHANGED world
  BY InvariantOf DEF MissionEnds
<1>1. /\ {"canceling", "assignment_failed", "planning_failed", "assignments_completed"} \subseteq HandledMission
      /\ \A e \in Event : \A s : e = MissionEvent(s) => s \in HandledMission
  BY MissionEvents DEF HandledMission
<1>2. CASE HandleCanceling(h) \/ HandleFailure(h)
  <2>1. PICK s, e, val :
          /\ UNCHANGED service_requests /\ SetMissionWhere({e}, s, {MissionEvent(e)})
          /\ s \in {"canceled", "failed"} /\ Becomes(h, At("cancelRequests", NoRow, val))
    BY <1>2 DEF HandleCanceling, HandleFailure
  <2>2. Others(h) /\ handler'[h] = At("cancelRequests", NoRow, val)
    BY <1>0, <2>1, OneMoves
  <2>3. handler'[h].pc \notin RolePc /\ \A g \in Handler : Closes(handler'[g]) => Closes(handler[g])
    BY <2>2 DEF At, RolePc, Closes, Others
  <2>4. \A r \in Req : NoNews(r) /\ Status(r)' = Status(r)
    BY <1>0, <2>1, OtherTables DEF Status
  <2>5. Closing' => Closing
    BY <1>0, <2>1, <2>3, MissionNotClosing
  <2> QED
    BY <1>0, <2>2, <2>3, <2>4, <2>5, DullAdvances
<1>3. CASE HandleCompleted(h)
  <2>1. PICK val :
          /\ UNCHANGED service_requests /\ Queued(Completion) /\ TakeAndLeave({Completion}, {})
          /\ Becomes(h, At("endMission", NoRow, val))
    BY <1>3 DEF HandleCompleted, Starts, Completion
  <2>2. Others(h) /\ handler'[h] = At("endMission", NoRow, val)
    BY <1>0, <2>1, OneMoves
  <2>3. handler'[h].pc \notin RolePc
    BY <2>2 DEF At, RolePc
  <2>4. \A r \in Req : NoNews(r) /\ Status(r)' = Status(r)
    BY <1>0, <2>1, OtherTables DEF Status
  <2>5. Closing
    BY <2>1 DEF Closing, Queued
  <2> QED
    BY <1>0, <2>2, <2>3, <2>4, <2>5, DullAdvances
<1>4. CASE EndMission(h)
  <2>1. PICK s, val :
          /\ UNCHANGED service_requests /\ handler[h].pc = "endMission" /\ SetMission(s, {})
          /\ Becomes(h, At("onWorkProcessEnd", NoRow, val))
    BY <1>4 DEF EndMission, IsAt
  <2>2. Others(h) /\ handler'[h] = At("onWorkProcessEnd", NoRow, val)
    BY <1>0, <2>1, OneMoves
  <2>3. handler'[h].pc \notin RolePc
    BY <2>2 DEF At, RolePc
  <2>4. \A r \in Req : NoNews(r) /\ Status(r)' = Status(r)
    BY <1>0, <2>1, OtherTables DEF Status
  <2>5. Closing
    BY <2>1 DEF Closing, Closes
  <2> QED
    BY <1>0, <2>2, <2>3, <2>4, <2>5, DullAdvances
<1>5. CASE CancelRequests(h)
  <2>1. PICK rows, val :
          /\ UNCHANGED mission /\ WriteRequests(rows, WithStatus("canceled"), {})
          /\ Becomes(h, At("cancelWaitingAssignments", NoRow, val))
    BY <1>5 DEF CancelRequests
  <2>2. Others(h) /\ handler'[h] = At("cancelWaitingAssignments", NoRow, val)
    BY <1>0, <2>1, OneMoves
  <2>3. handler'[h].pc \notin RolePc /\ ~Closes(handler'[h])
    BY <2>2 DEF At, RolePc, Closes
  <2>4. \A r \in Req : WithStatus("canceled")[r].status = "canceled"
    BY <1>0 DEF WithStatus, TypeOK, RequestRow
  <2>5. \A r \in Req : NoNews(r) /\ (Status(r)' = Status(r) \/ Status(r)' \in {"failed", "canceled"})
    BY <1>0, <2>1, <2>4, RowQuiet
  <2>6. Closing' => Closing
    BY <1>0, <2>1, <2>2, <2>3, NothingApart, WriteSame, RequestsNotClosing
  <2> QED
    BY <1>0, <2>2, <2>3, <2>5, <2>6, DullAdvances
<1>6. CASE CancelWaitingAssignments(h) \/ CancelRunningAssignments(h)
  <2>1. PICK rows, s, pc, val :
          /\ pc \in {"cancelRunningAssignments", "onWorkProcessEnd"}
          /\ UNCHANGED <<mission, service_requests>> /\ SetAssignments(rows, s, {})
          /\ Becomes(h, At(pc, NoRow, val))
    <3>1. CASE CancelWaitingAssignments(h)
      BY <3>1 DEF CancelWaitingAssignments
    <3>2. CASE CancelRunningAssignments(h)
      BY <3>2 DEF CancelRunningAssignments
    <3> QED
      BY <1>6, <3>1, <3>2
  <2>2. Others(h) /\ handler'[h] = At(pc, NoRow, val)
    BY <1>0, <2>1, OneMoves
  <2>3. handler'[h].pc \notin RolePc /\ ~Closes(handler'[h])
    BY <2>1, <2>2 DEF At, RolePc, Closes
  <2>4. \A r \in Req : NoNews(r) /\ Status(r)' = Status(r)
    BY <1>0, <2>1, OtherTables DEF Status
  <2>5. Closing' => Closing
    BY <1>0, <2>1, <2>2, <2>3, NothingApart, AssignmentsSame, RequestsNotClosing
  <2> QED
    BY <1>0, <2>2, <2>3, <2>4, <2>5, DullAdvances
<1>7. CASE OnWorkProcessEnd(h)
  <2>1. /\ UNCHANGED <<mission, service_requests, events_queue>> /\ Becomes(h, Idle)
    BY <1>7 DEF OnWorkProcessEnd
  <2>2. Others(h) /\ handler'[h] = Idle
    BY <1>0, <2>1, OneMoves
  <2>3. handler'[h].pc \notin RolePc /\ ~Closes(handler'[h])
    BY <2>2 DEF Idle, RolePc, Closes
  <2>4. \A r \in Req : NoNews(r) /\ Status(r)' = Status(r)
    BY <1>0, <2>1, OtherTables DEF Status
  <2>5. Closing' => Closing
    BY <1>0, <2>1, <2>2, <2>3, RequestsNotClosing DEF SameEnds
  <2> QED
    BY <1>0, <2>2, <2>3, <2>4, <2>5, DullAdvances
<1> QED
  BY <1>2, <1>3, <1>4, <1>5, <1>6, <1>7 DEF MissionEnds, WorkProcessHandler

\* Every step of the pipeline.
LEMMA NextAdvances ==
  ASSUME RunsWithPermission, [Next]_svcVars
  PROVE  Advance
<1>0. TypeOK /\ TypeOK'
  BY NextPermitted DEF RunsWithPermission
<1>1. CASE UserCancels /\ UNCHANGED world
  <2>1. UNCHANGED <<handler, service_requests, world>> /\ SetMission("canceling", {})
    BY <1>1 DEF UserCancels
  <2>2. ASSUME NEW r \in Req
        PROVE  Still(r)
    <3>1. NoNews(r) /\ Status(r)' = Status(r)
      BY <1>0, <2>1, OtherTables DEF Status
    <3>2. RolesKept(r)
      BY <2>1 DEF RolesKept
    <3> QED
      BY <2>1, <3>1, <3>2, WorldSame, SameStill
  <2>3. Closing' => Closing
    BY <1>0, <2>1, MissionNotClosing
  <2> QED
    BY <2>1, <2>2, <2>3 DEF Advance, world
<1>2. ASSUME NEW h \in Handler, Continue(h) \/ Handle(h) \/ Watch(h) \/ MissionEnds(h)
      PROVE  Advance
  BY <1>0, <1>2, DispatchingAdvances, ActivatingAdvances, EndingAdvances, HandleAdvances, WatchAdvances,
     MissionEndsAdvances DEF Continue
<1>3. CASE UNCHANGED svcVars
  <2>1. UNCHANGED <<mission, service_requests, events_queue, handler, world>>
    BY <1>3 DEF svcVars, wpVars, dbVars, world
  <2>2. ASSUME NEW r \in Req
        PROVE  Still(r)
    <3>1. NoNews(r) /\ Status(r)' = Status(r)
      BY <1>0, <2>1, OtherTables DEF Status
    <3>2. RolesKept(r)
      BY <2>1 DEF RolesKept
    <3> QED
      BY <2>1, <3>1, <3>2, WorldSame, SameStill
  <2>3. Closing' => Closing
    BY <2>1 DEF Closing
  <2> QED
    BY <2>1, <2>2, <2>3 DEF Advance, world
<1> QED
  BY <1>1, <1>2, <1>3 DEF Next

\* At first the requests without dependencies are asked for, once.
LEMMA EachOnceInit == Init => EachOnce
<1> SUFFICES ASSUME Init, NEW r \in Req
             PROVE  FreshUntilAsked(r) /\ DispatchedOnce(r) /\ ReportedOnce(r) /\ calls[r] \in {0, 1}
  BY DEF EachOnce
<1>1. calls[r] = 0
  BY DEF Init
<1>2. \A h \in Handler : handler[h].pc \notin RolePc
  <2>1. \A h \in Handler : handler[h] \in {Idle, At("calculating", NoRow, "-")}
    BY DEF Init
  <2> QED
    BY <2>1 DEF At, Idle, RolePc
<1>3. \A h \in Handler : /\ ~Dispatches(handler[h], r) /\ ~Serves(handler[h], r)
                         /\ ~Lists(handler[h], r) /\ ~Marks(handler[h], r)
  BY <1>2 DEF RolePc, Dispatches, Serves, Lists, Marks
<1>4. \A e \in News(r) : e \in Event
  BY DEF News, Asked, Reported, Event, HandledRequest
<1>5. ASSUME NEW e \in News(r)
      PROVE  /\ events_queue[e] \in {0, 1}
             /\ events_queue[e] = 1 => e = InsertionEvent(r) /\ DependsOn[r] = {}
  <2>1. events_queue[e] = IF e \in {InsertionEvent(x) : x \in {q \in Req : DependsOn[q] = {}}} THEN 1 ELSE 0
    BY <1>4 DEF Init
  <2>2. \A x : e = InsertionEvent(x) => x = r
    <3>1. e.id = r
      BY DEF News, Asked, Reported, InsertionEvent, RequestEvent
    <3>2. \A x : InsertionEvent(x).id = x
      BY DEF InsertionEvent
    <3> QED
      BY <3>1, <3>2
  <2> QED
    BY <2>1, <2>2
<1>6. Status(r) = IF DependsOn[r] = {} THEN "ready_for_service" ELSE "not_ready_for_service"
  BY DEF Init, NewRequest, Status
<1>7. FreshUntilAsked(r)
  BY <1>1, <1>3, <1>5, <1>6 DEF FreshUntilAsked, Fresh, Marked
<1>8. DispatchedOnce(r)
  BY <1>1, <1>3, <1>5 DEF DispatchedOnce, News, Asked
<1>9. ReportedOnce(r)
  <2>1. \A e \in Reported(r) : e # InsertionEvent(r)
    BY DEF Reported, InsertionEvent, RequestEvent
  <2> QED
    BY <1>3, <1>5, <2>1 DEF ReportedOnce, News, Reported
<1> QED
  BY <1>1, <1>7, <1>8, <1>9

\* What the invariant and a step say of a status.
LEMMA StatusAdvances ==
  ASSUME EachOnce, Advance, NEW r \in Req, Status(r) \in {"dispatching_service", "pending", "ready"}
  PROVE  Status(r)' \notin {"not_ready_for_service", "wait_dependencies", "ready_for_service"}
<1>1. CASE Still(r)
  BY <1>1 DEF Still, StatusKept
<1>2. ASSUME NEW h \in Handler, Moves(r, h)
      PROVE  Status(r)' \notin {"not_ready_for_service", "wait_dependencies", "ready_for_service"}
  <2>1. ~Written(r, h)
    BY DEF EachOnce, FreshUntilAsked, Written
  <2>2. ~Freed(r, h)
    BY DEF Freed
  <2>3. StatusKept(r) \/ Status(r)' = Status(r) \/ Status(r)' = "ready"
    BY <1>2, <2>1, <2>2 DEF Moves, Taken, Sent, Polled, Answered, FollowedUp, Copied, Determined, Found
  <2> QED
    BY <2>3 DEF StatusKept
<1> QED
  BY <1>1, <1>2 DEF Advance

\* In a pipeline in which every request is next of one other at most, no
\* microservice is given the same job twice: neither by two handlers, nor by
\* a watcher that overtakes a handler, nor after a write-back.
THEOREM JobsGivenOnce ==
  ASSUME Forest
  PROVE  Spec => []CalledOnce
<1>1. Init => RunsWithPermission /\ EachOnce
  BY InitPermitted, EachOnceInit
<1>2. RunsWithPermission /\ EachOnce /\ [Next]_svcVars => (RunsWithPermission /\ EachOnce)'
  <2> SUFFICES ASSUME RunsWithPermission, EachOnce, [Next]_svcVars
               PROVE  (RunsWithPermission /\ EachOnce)'
    OBVIOUS
  <2>1. RunsWithPermission' /\ TypeOK' /\ Advance
    BY NextPermitted, NextAdvances DEF RunsWithPermission
  <2> QED
    BY <2>1, AdvanceOnce
<1>3. EachOnce => CalledOnce
  BY DEF EachOnce, CalledOnce
<1> QED
  BY <1>1, <1>2, <1>3, PTL DEF Spec

\* In such a pipeline a request that was dispatched is never made to wait
\* again: the copies that are written back are those of waiting requests.
THEOREM StatusesInSequence ==
  ASSUME Forest
  PROVE  Spec => StatusSequence
<1>1. Init => RunsWithPermission /\ EachOnce
  BY InitPermitted, EachOnceInit
<1>2. RunsWithPermission /\ EachOnce /\ [Next]_svcVars => (RunsWithPermission /\ EachOnce)'
  <2> SUFFICES ASSUME RunsWithPermission, EachOnce, [Next]_svcVars
               PROVE  (RunsWithPermission /\ EachOnce)'
    OBVIOUS
  <2>1. RunsWithPermission' /\ TypeOK' /\ Advance
    BY NextPermitted, NextAdvances DEF RunsWithPermission
  <2> QED
    BY <2>1, AdvanceOnce
<1>3. RunsWithPermission /\ EachOnce /\ [Next]_svcVars
        => [\A r \in Req :
              service_requests[r].status \in {"dispatching_service", "pending", "ready"} =>
                service_requests'[r].status \notin {"not_ready_for_service", "wait_dependencies",
                                                   "ready_for_service"}]_svcVars
  BY NextAdvances, StatusAdvances DEF Status
<1> QED
  BY <1>1, <1>2, <1>3, PTL DEF Spec, StatusSequence
----------------------------------------------------------------------------
(* The mission is not completed early.  When a pipeline ends with one       *)
(* request that depends on all others, directly or through others, its      *)
(* result comes after those of all others, and they are settled by then.    *)

\* The last request depends on all others: with it, any set of requests
\* that holds what its members depend on is the set of all.
LastOfAll ==
  \A r \in Req : NextReq[r] = {} =>
    \A S \in SUBSET Req : r \in S /\ (\A q \in S : DependsOn[q] \subseteq S) => S = Req

\* Nothing more is to be done about request r.
Settled(r) == Status(r) \in {"ready", "skipped", "canceled", "failed"} /\ ~Marked(r)
AllSettled == \A r \in Req : Settled(r)

\* Request r has been let run.
Under(r) ==
  \/ Status(r) \in {"ready_for_service", "dispatching_service", "pending", "ready"}
  \/ \E e \in Asked(r) : events_queue[e] > 0
  \/ calls[r] > 0
  \/ \E h \in Handler : \/ Dispatches(handler[h], r) \/ Serves(handler[h], r) \/ Frees(handler[h], r)
                        \/ Marks(handler[h], r) /\ handler[h].todo[r] = "ready_for_service"

\* A request runs after what it depends on is settled, an answer is that of
\* a job, and the completion of the mission comes after all requests.
SettledFirst ==
  /\ \A r \in Req : Under(r) => \A d \in DependsOn[r] : Settled(d)
  /\ \A r \in Req : Status(r) = "pending" => calls[r] > 0
  /\ \A r \in Req, h \in Handler : Serves(handler[h], r) => calls[r] > 0
  /\ \A r \in Req : r \in answered => calls[r] > 0
  /\ \A r \in Req : \A e \in Reported(r) : events_queue[e] > 0 => r \in answered
  /\ Closing => AllSettled

\* A settled request stays settled.
LEMMA SettledStays ==
  ASSUME Advance, NEW r \in Req, Settled(r)
  PROVE  Settled(r)'
<1>1. Status(r) \in {"ready", "skipped", "canceled", "failed"} /\ \A h \in Handler : ~Marks(handler[h], r)
  BY DEF Settled, Marked
<1>2. CASE Still(r)
  <2>1. Status(r)' \in {"ready", "skipped", "canceled", "failed"}
    BY <1>1, <1>2 DEF Still, StatusKept, Answerable
  <2>2. ~Marked(r)'
    BY <1>1, <1>2 DEF Still, RolesKept, Marked
  <2> QED
    BY <2>1, <2>2 DEF Settled
<1>3. ASSUME NEW h \in Handler, Moves(r, h)
      PROVE  Settled(r)'
  <2>1. ~Copied(r, h) /\ ~Determined(r, h) /\ ~Written(r, h) /\ ~Freed(r, h) /\ ~Answered(r, h)
    BY <1>1 DEF Copied, Determined, Written, Freed, Answered, Answerable
  <2>2. Taken(r, h) \/ Sent(r, h) \/ Polled(r, h) \/ FollowedUp(r, h) \/ Found(r, h)
    BY <1>3, <2>1 DEF Moves
  <2>3. StatusKept(r) /\ Others(h) /\ handler'[h].pc # "updateNext"
    BY <2>2 DEF Taken, Sent, Polled, FollowedUp, Found, StatusKept
  <2>4. Status(r)' \in {"ready", "skipped", "canceled", "failed"}
    BY <1>1, <2>3 DEF StatusKept, Answerable
  <2>5. ~Marked(r)'
    BY <1>1, <2>3 DEF Others, Marked, Marks
  <2> QED
    BY <2>4, <2>5 DEF Settled
<1> QED
  BY <1>2, <1>3 DEF Advance

\* What a request is ready to run for is settled.
LEMMA DependenciesSettled ==
  ASSUME EachOnce, NEW r \in Req, DetermineStatus(r) = "ready_for_service", NEW d \in DependsOn[r]
  PROVE  Settled(d)
<1>1. d \in Req
  BY PipelineAssumption
<1>2. Status(d) = "ready"
  BY DEF DetermineStatus, Status
<1>3. ~Marked(d)
  BY <1>1, <1>2 DEF EachOnce, FreshUntilAsked, Marked
<1> QED
  BY <1>2, <1>3 DEF Settled

\* A request is let run when what it depends on is ready.
LEMMA UnderGrows ==
  ASSUME TypeOK, TypeOK', Advance, NEW r \in Req, Under(r)'
  PROVE  Under(r) \/ DetermineStatus(r) = "ready_for_service"
<1>0. \A e \in Asked(r) : events_queue[e] \in Nat /\ events_queue'[e] \in Nat
  BY NewsTyped DEF News, TypeOK
<1> SUFFICES ASSUME ~Under(r)
             PROVE  DetermineStatus(r) = "ready_for_service"
  OBVIOUS
<1>1. /\ Status(r) \notin {"ready_for_service", "dispatching_service", "pending", "ready"}
      /\ \A e \in Asked(r) : events_queue[e] = 0
      /\ ~(calls[r] > 0)
      /\ \A h \in Handler : /\ ~Dispatches(handler[h], r) /\ ~Serves(handler[h], r) /\ ~Frees(handler[h], r)
                            /\ Marks(handler[h], r) => handler[h].todo[r] # "ready_for_service"
  BY <1>0 DEF Under
<1>2. ASSUME Still(r)
      PROVE  FALSE
  <2>1. Status(r)' \notin {"ready_for_service", "dispatching_service", "pending", "ready"}
    BY <1>1, <1>2 DEF Still, StatusKept
  <2>2. \A e \in Asked(r) : ~(events_queue'[e] > 0)
    BY <1>0, <1>1, <1>2 DEF Still, NoNews, News
  <2>3. ~(calls'[r] > 0)
    BY <1>1, <1>2 DEF Still, SameCalls
  <2>4. \A h \in Handler : /\ ~Dispatches(handler'[h], r) /\ ~Serves(handler'[h], r) /\ ~Frees(handler'[h], r)
                           /\ Marks(handler'[h], r) => handler'[h].todo[r] # "ready_for_service"
    BY <1>1, <1>2 DEF Still, RolesKept
  <2> QED
    BY <2>1, <2>2, <2>3, <2>4 DEF Under, Asked
<1>3. ASSUME NEW h \in Handler, Moves(r, h)
      PROVE  DetermineStatus(r) = "ready_for_service"
  <2>1. /\ ~Taken(r, h) /\ ~Sent(r, h) /\ ~Polled(r, h) /\ ~Answered(r, h) /\ ~Freed(r, h)
    BY <1>1 DEF Taken, Less, Sent, Polled, Answered, Freed
  <2>2. CASE Found(r, h)
    BY <2>2 DEF Found
  <2>3. CASE FollowedUp(r, h) \/ Copied(r, h) \/ Determined(r, h) \/ Written(r, h)
    <3>1. Written(r, h) => Status(r)' # "ready_for_service"
      BY <1>1 DEF Written
    <3>2. Status(r)' \notin {"ready_for_service", "dispatching_service", "pending", "ready"}
      BY <1>1, <2>3, <3>1 DEF FollowedUp, Copied, Determined, Written
    <3>3. NoNews(r) \/ \E e \in Reported(r) : Less(r, e)
      BY <2>3, <3>1 DEF FollowedUp, Copied, Determined, Written
    <3>4. \A e \in Asked(r) : ~(events_queue'[e] > 0)
      BY <1>0, <1>1, <3>3, NewsApart DEF NoNews, Less, News
    <3>5. ~(calls'[r] > 0)
      BY <1>1, <2>3 DEF FollowedUp, Copied, Determined, Written, SameCalls
    <3>6. Others(h) /\ handler'[h].pc \in {"idle", "wrapUp", "listNext", "updateNext"}
      BY <2>3 DEF FollowedUp, Copied, Determined, Written, Marks, Idle
    <3>7. \A g \in Handler : ~Dispatches(handler'[g], r) /\ ~Serves(handler'[g], r) /\ ~Frees(handler'[g], r)
      BY <1>1, <3>6 DEF Others, Dispatches, Serves, Frees
    <3>8. PICK g \in Handler : Marks(handler'[g], r) /\ handler'[g].todo[r] = "ready_for_service"
      BY <3>2, <3>4, <3>5, <3>7 DEF Under, Asked
    <3>9. g = h
      BY <1>1, <3>6, <3>8 DEF Others
    <3>10. Determined(r, h)
      BY <2>3, <3>8, <3>9 DEF FollowedUp, Copied, Written, Marks
    <3> QED
      BY <3>8, <3>9, <3>10 DEF Determined
  <2> QED
    BY <1>3, <2>1, <2>2, <2>3 DEF Moves
<1> QED
  BY <1>2, <1>3 DEF Advance

\* An answer is that of a job, whatever is done about the request.
LEMMA AnswersOfJobs ==
  ASSUME TypeOK, TypeOK', SettledFirst, Advance, NEW r \in Req
  PROVE  /\ Status(r)' = "pending" => calls'[r] > 0
         /\ \A h \in Handler : Serves(handler'[h], r) => calls'[r] > 0
         /\ r \in answered' => calls'[r] > 0
         /\ \A e \in Reported(r) : events_queue'[e] > 0 => r \in answered'
<1>1. /\ Status(r) = "pending" => calls[r] > 0
      /\ \A h \in Handler : Serves(handler[h], r) => calls[r] > 0
      /\ r \in answered => calls[r] > 0
      /\ \A e \in Reported(r) : events_queue[e] > 0 => r \in answered
  BY DEF SettledFirst
<1>2. /\ calls[r] \in Nat
      /\ \A e \in Reported(r) : events_queue[e] \in Nat /\ events_queue'[e] \in Nat
      /\ answered \subseteq answered'
  BY NewsTyped DEF News, TypeOK, Advance
<1>3. ASSUME Still(r)
      PROVE  /\ Status(r)' = "pending" => calls'[r] > 0
             /\ \A h \in Handler : Serves(handler'[h], r) => calls'[r] > 0
             /\ r \in answered' => calls'[r] > 0
             /\ \A e \in Reported(r) : events_queue'[e] > 0 => r \in answered'
  <2>1. calls'[r] = calls[r] /\ (r \in answered' => calls'[r] > 0)
    BY <1>1, <1>3 DEF Still, SameCalls
  <2>2. Status(r)' = "pending" => calls'[r] > 0
    BY <1>1, <1>3, <2>1 DEF Still, StatusKept
  <2>3. \A h \in Handler : Serves(handler'[h], r) => calls'[r] > 0
    BY <1>1, <1>3, <2>1 DEF Still, RolesKept
  <2>4. \A e \in Reported(r) : events_queue'[e] > 0 => r \in answered'
    BY <1>1, <1>2, <1>3 DEF Still, NoNews, News
  <2> QED
    BY <2>1, <2>2, <2>3, <2>4
<1>4. ASSUME NEW h \in Handler, Moves(r, h)
      PROVE  /\ Status(r)' = "pending" => calls'[r] > 0
             /\ \A g \in Handler : Serves(handler'[g], r) => calls'[r] > 0
             /\ r \in answered' => calls'[r] > 0
             /\ \A e \in Reported(r) : events_queue'[e] > 0 => r \in answered'
  <2>1. Others(h)
    BY <1>4, MoveOther
  <2>2. CASE Sent(r, h)
    <3>1. calls'[r] > 0
      BY <1>2, <2>2 DEF Sent
    <3>2. \A e \in Reported(r) : events_queue'[e] > 0 => r \in answered'
      BY <1>1, <1>2, <2>2 DEF Sent, NoNews, News
    <3> QED
      BY <3>1, <3>2
  <2>3. CASE Polled(r, h)
    <3>1. calls'[r] > 0
      BY <1>1, <2>3 DEF Polled
    <3>2. \A e \in Reported(r) : events_queue'[e] > 0 => r \in answered'
      BY <1>1, <1>2, <2>3 DEF Polled, NoNews, News
    <3> QED
      BY <3>1, <3>2
  <2>4. CASE Taken(r, h) \/ Answered(r, h) \/ FollowedUp(r, h) \/ Copied(r, h) \/ Determined(r, h)
             \/ Written(r, h) \/ Found(r, h) \/ Freed(r, h)
    <3>1. calls'[r] = calls[r] /\ (r \in answered' => r \in answered)
      BY <2>4 DEF Taken, Answered, FollowedUp, Copied, Determined, Written, Found, Freed, SameCalls
    <3>2. Status(r)' = "pending" => Status(r) = "pending" \/ \E g \in Handler : Serves(handler[g], r)
      BY <2>4 DEF Taken, Answered, FollowedUp, Copied, Determined, Written, Found, Freed, StatusKept
    <3>3. ~Serves(handler'[h], r)
      BY <2>4 DEF Taken, Answered, FollowedUp, Copied, Determined, Written, Found, Freed, Serves, Marks, Idle
    <3>4. \A g \in Handler : Serves(handler'[g], r) => calls'[r] > 0
      BY <1>1, <2>1, <3>1, <3>3 DEF Others
    <3>5. \/ \A e \in Reported(r) : events_queue'[e] <= events_queue[e]
          \/ r \in answered
      <4>1. NoNews(r) => \A e \in Reported(r) : events_queue'[e] <= events_queue[e]
        BY DEF NoNews, News
      <4>2. ASSUME NEW f \in News(r), Less(r, f)
            PROVE  \A e \in Reported(r) : events_queue'[e] <= events_queue[e]
        BY <1>2, <4>2 DEF Less, News
      <4>3. ASSUME NEW f \in Asked(r), More(r, f)
            PROVE  \A e \in Reported(r) : events_queue'[e] <= events_queue[e]
        BY <4>3, NewsApart DEF More, News
      <4>4. \/ r \in answered \/ NoNews(r)
            \/ \E f \in News(r) : Less(r, f)
            \/ \E f \in Asked(r) : More(r, f)
        BY <2>4 DEF Taken, Answered, FollowedUp, Copied, Determined, Written, Found, Freed, News
      <4> QED
        BY <4>1, <4>2, <4>3, <4>4
    <3>6. \A e \in Reported(r) : events_queue'[e] > 0 => r \in answered'
      BY <1>1, <1>2, <3>5
    <3> QED
      BY <1>1, <3>1, <3>2, <3>4, <3>6
  <2> QED
    BY <1>4, <2>2, <2>3, <2>4 DEF Moves
<1> QED
  BY <1>3, <1>4 DEF Advance

\* When the result of the last request is followed up, all are settled.
LEMMA LastSettled ==
  ASSUME LastOfAll, RunsWithPermission, EachOnce, SettledFirst,
         NEW q \in Req, NextReq[q] = {}, NEW h \in Handler, FollowedUp(q, h)
  PROVE  AllSettled
<1>1. PICK e \in Reported(q) : events_queue[e] > 0
  BY DEF FollowedUp, Less
<1>2. q \in answered
  BY <1>1 DEF SettledFirst
<1>3. answered \in SUBSET Req /\ \A r \in answered : DependsOn[r] \subseteq answered
  BY DEF RunsWithPermission, TypeOK, SettledFirst, CalledAfterDependencies
<1>4. answered = Req
  BY <1>2, <1>3 DEF LastOfAll
<1>5. \A r \in Req : \A d \in DependsOn[r] : Settled(d)
  BY <1>4 DEF SettledFirst, Under
<1>6. Settled(q)
  <2>1. events_queue[e] = 1
    BY <1>1 DEF EachOnce, ReportedOnce
  <2>2. Status(q) \in Over
    BY <2>1 DEF EachOnce, ReportedOnce
  <2>3. ~Marked(q)
    BY <2>1 DEF EachOnce, FreshUntilAsked, Fresh, News
  <2> QED
    BY <2>2, <2>3 DEF Settled, Over
<1>7. ASSUME NEW p \in Req, p # q
      PROVE  \E r \in Req : p \in DependsOn[r]
  <2> SUFFICES ASSUME \A r \in Req : p \notin DependsOn[r]
               PROVE  FALSE
    OBVIOUS
  <2> DEFINE S == Req \ {p}
  <2>1. S \in SUBSET Req /\ q \in S /\ \A r \in S : DependsOn[r] \subseteq S
    BY <1>7, PipelineAssumption
  <2>2. S = Req
    BY <2>1 DEF LastOfAll
  <2> QED
    BY <2>2
<1> QED
  BY <1>5, <1>6, <1>7 DEF AllSettled

\* Every step keeps the invariant.
LEMMA SettledFirstStep ==
  ASSUME LastOfAll, RunsWithPermission, TypeOK', EachOnce, SettledFirst, Advance
  PROVE  SettledFirst'
<1>0. TypeOK
  BY DEF RunsWithPermission
<1>1. ASSUME NEW r \in Req, Under(r)', NEW d \in DependsOn[r]
      PROVE  Settled(d)'
  <2>1. d \in Req
    BY PipelineAssumption
  <2>2. Under(r) \/ DetermineStatus(r) = "ready_for_service"
    BY <1>0, <1>1, UnderGrows
  <2>3. Settled(d)
    BY <2>2, DependenciesSettled DEF SettledFirst
  <2> QED
    BY <2>1, <2>3, SettledStays
<1>2. ASSUME Closing'
      PROVE  AllSettled'
  <2>1. CASE Closing
    BY <2>1, SettledStays DEF SettledFirst, AllSettled
  <2>2. CASE \E r \in Req, h \in Handler : NextReq[r] = {} /\ FollowedUp(r, h)
    BY <2>2, LastSettled, SettledStays DEF AllSettled
  <2> QED
    BY <1>2, <2>1, <2>2 DEF Advance
<1>3. \A r \in Req : /\ Status(r)' = "pending" => calls'[r] > 0
                     /\ \A h \in Handler : Serves(handler'[h], r) => calls'[r] > 0
                     /\ r \in answered' => calls'[r] > 0
                     /\ \A e \in Reported(r) : events_queue'[e] > 0 => r \in answered'
  BY <1>0, AnswersOfJobs
<1> QED
  BY <1>1, <1>2, <1>3 DEF SettledFirst, Reported

\* At first nothing has been done.
LEMMA SettledFirstInit == Init => SettledFirst
<1> SUFFICES ASSUME Init
             PROVE  SettledFirst
  OBVIOUS
<1>1. \A h \in Handler : handler[h] \in {Idle, At("calculating", NoRow, "-")}
  BY DEF Init
<1>2. \A h \in Handler : handler[h].pc \notin RolePc /\ ~Closes(handler[h])
  BY <1>1 DEF At, Idle, RolePc, Closes
<1>3. answered = {} /\ \A r \in Req : calls[r] = 0
  BY DEF Init
<1>4. mission \notin {"assignments_completed", "succeeded"}
  BY Zenon DEF Init
<1>5. \A e \in Event : events_queue[e] =
        IF e \in {InsertionEvent(x) : x \in {q \in Req : DependsOn[q] = {}}} THEN 1 ELSE 0
  BY DEF Init
<1>6. events_queue[Completion] = 0
  <2>1. \A x : Completion # InsertionEvent(x)
    BY DEF Completion, MissionEvent, InsertionEvent
  <2>2. Completion \in Event
    BY MissionEvents DEF Completion, HandledMission
  <2> QED
    BY <1>5, <2>1, <2>2
<1>7. ASSUME NEW r \in Req
      PROVE  /\ \A e \in Reported(r) : events_queue[e] = 0
             /\ \A e \in Asked(r) : events_queue[e] > 0 => DependsOn[r] = {}
  <2>1. \A e \in News(r) : e \in Event /\ e.id = r
    BY DEF News, Asked, Reported, Event, HandledRequest, InsertionEvent, RequestEvent
  <2>2. \A x : InsertionEvent(x).id = x
    BY DEF InsertionEvent
  <2>3. \A e \in Reported(r) : \A x : e # InsertionEvent(x)
    BY DEF Reported, InsertionEvent, RequestEvent
  <2> QED
    BY <1>5, <2>1, <2>2, <2>3 DEF News
<1>8. \A r \in Req : Status(r) = IF DependsOn[r] = {} THEN "ready_for_service" ELSE "not_ready_for_service"
  BY DEF Init, NewRequest, Status
<1>9. \A r \in Req : Under(r) => DependsOn[r] = {}
  BY <1>2, <1>3, <1>7, <1>8 DEF Under, RolePc, Dispatches, Serves, Frees, Marks
<1>10. ~Closing
  BY <1>2, <1>4, <1>6 DEF Closing
<1> QED
  BY <1>2, <1>3, <1>7, <1>8, <1>9, <1>10 DEF SettledFirst, RolePc, Serves

\* When the last request depends on all others, the services complete a
\* mission only when no request is waiting or being served, although
\* wrapUpMicroserviceCall never finds the services that are left.
THEOREM CompletedAfterAll ==
  ASSUME Forest, LastOfAll
  PROVE  Spec => []NoPrematureCompletion
<1>1. Init => RunsWithPermission /\ EachOnce /\ SettledFirst
  BY InitPermitted, EachOnceInit, SettledFirstInit
<1>2. RunsWithPermission /\ EachOnce /\ SettledFirst /\ [Next]_svcVars
        => (RunsWithPermission /\ EachOnce /\ SettledFirst)'
  <2> SUFFICES ASSUME RunsWithPermission, EachOnce, SettledFirst, [Next]_svcVars
               PROVE  (RunsWithPermission /\ EachOnce /\ SettledFirst)'
    OBVIOUS
  <2>1. RunsWithPermission' /\ TypeOK' /\ Advance
    BY NextPermitted, NextAdvances DEF RunsWithPermission
  <2> QED
    BY <2>1, AdvanceOnce, SettledFirstStep
<1>3. SettledFirst => NoPrematureCompletion
  BY DEF SettledFirst, Closing, AllSettled, Settled, NoPrematureCompletion, Status
<1> QED
  BY <1>1, <1>2, <1>3, PTL DEF Spec
=============================================================================
