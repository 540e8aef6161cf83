--------------------------- MODULE ServicePipeline ---------------------------
(***************************************************************************)
(* The pipeline of microservice requests of one mission: the handlers of   *)
(* service_requests events (microservice_db_events_handler.ts), the        *)
(* orchestration they call (microservice_orchestration.ts), the calls to   *)
(* the microservices (microservice_communication.ts) and the watchers that *)
(* poll them every second on every node (microservice_event_watcher.ts).   *)
(*                                                                         *)
(* The model starts when prepareServicesPipelineForWorkProcess has         *)
(* inserted the requests of the mission and has yet to mark the mission as *)
(* calculating.  The request that a planner answered is turned into        *)
(* assignments in module Orchestration; a pipeline without planners is     *)
(* complete in this module.                                                *)
(***************************************************************************)
EXTENDS WorkProcess

CONSTANTS
  WaitAssignments,  \* requests with wait_dependencies_assignments
  Replies,          \* what microservices and the network may answer
  Choosers          \* requests whose response may list allow_dependent_steps

ASSUME ServiceAssumption ==
  /\ WaitAssignments \subseteq Req
  /\ Choosers \subseteq Req
  /\ Replies \subseteq {"ready", "pending", "failed", "canceled", "time-out", "error"}

VARIABLES
  calls,     \* how many jobs the microservice of each request was given
  answered   \* requests whose microservice has delivered a result

svcVars == <<wpVars, calls, answered>>
world == <<calls, answered>>

ServicePc == {"calculating", "claim", "drop", "select", "send", "sendFailed",
              "markPending", "saveResponse", "timedOut", "planningFailed",
              "unreachable", "listNext", "updateNext",
              "wrapUp", "release", "confirmCancel", "cancelFailed"}

----------------------------------------------------------------------------
(* Building blocks *)

\* Rows as createServiceRequestsForWorkProcessType builds them: a request
\* without dependencies is dispatched when it is inserted.  (Recipes number
\* their steps; a step without request_order is held for ever.)
NewRequest(r) ==
  [status |-> IF DependsOn[r] = {} THEN "ready_for_service" ELSE "not_ready_for_service",
   processed |-> FALSE, assignment_dispatched |-> FALSE, excluded |-> {}]

\* The rows that saveServiceResponse and the error branch may overwrite.
Answerable == {"dispatching_service", "wait_dependencies", "pending"}

\* The columns status, processed and response are overwritten together.
WithAnswer(s, processed, excluded) ==
  [r \in Req |-> [status |-> s, processed |-> processed, excluded |-> excluded,
                  assignment_dispatched |-> service_requests[r].assignment_dispatched]]

\* The requests that wait for r.
Dependents(r) == {q \in Req : r \in DependsOn[q]}

\* Mutant of DetermineStatus: the assignments of the dependencies are forgotten.
DetermineStatusMutant(r) ==
  LET status(d) == service_requests[d].status IN
  IF \E d \in DependsOn[r] : status(d) = "skipped" THEN "skipped"
  ELSE IF \E d \in DependsOn[r] : status(d) # "ready" THEN "wait_dependencies"
  ELSE IF \E d \in DependsOn[r] : r \in service_requests[d].excluded THEN "skipped"
  ELSE "ready_for_service"

\* Mutant of DetermineStatus: one ready dependency is enough.
DetermineStatusOneMutant(r) ==
  IF DependsOn[r] # {} /\ ~ \E d \in DependsOn[r] : service_requests[d].status = "ready"
    THEN "wait_dependencies" ELSE "ready_for_service"

\* determineServiceRequestStatus
DetermineStatus(r) ==
  LET status(d) == service_requests[d].status
      unfinished == {a \in Asg : /\ Owner[a] \in DependsOn[r]
                                 /\ assignments[a] \notin {"absent", "completed", "succeeded"}}
  IN IF \E d \in DependsOn[r] : status(d) = "skipped" THEN "skipped"
     ELSE IF \E d \in DependsOn[r] : status(d) # "ready" THEN "wait_dependencies"
     ELSE IF \E d \in DependsOn[r] : r \in service_requests[d].excluded THEN "skipped"
     ELSE IF r \in WaitAssignments /\ unfinished # {} THEN "wait_dependencies"
     ELSE "ready_for_service"

\* The services wrapUpMicroserviceCall still finds to be done.  It selects
\* them by the id of a row it read with the columns ['status'] only: the id
\* is undefined, the condition compares with NULL and selects nothing.
ServicesLeft == {}

----------------------------------------------------------------------------
(* The pipeline is ready *)

\* The last statement of prepareServicesPipelineForWorkProcess.
MarkCalculating(h) ==
  /\ IsAt(h, "calculating")
  /\ SetMissionWhere({"preparing resources", "dispatched", "executing"}, "calculating", {})
  /\ Becomes(h, Idle)
  /\ UNCHANGED <<service_requests, assignments, released, world>>

----------------------------------------------------------------------------
(* A request is dispatched *)

\* service_requests_insertion: the mission's status is read ...
HandleInsertion(h, r) ==
  LET e == InsertionEvent(r) IN
  /\ Starts(h, e)
  /\ TakeAndLeave({e}, {})
  /\ Becomes(h, At(IF mission \in {"failed", "canceling", "canceled", "planning_failed"}
                     THEN "drop" ELSE "claim", r, "-"))
  /\ UNCHANGED <<mission, service_requests, assignments, released, world>>

\* ... and the request is canceled, whatever its status is by now, ...
DropRequest(h) ==
  /\ IsAt(h, "drop")
  /\ WriteRequests({handler[h].row}, WithStatus("canceled"), {})
  /\ Becomes(h, Idle)
  /\ UNCHANGED <<mission, assignments, released, world>>

\* ... or claimed for dispatch.
ClaimRequest(h) ==
  /\ IsAt(h, "claim")
  /\ SetRequestWhere(handler[h].row, {"ready_for_service"}, "dispatching_service", {})
  /\ Becomes(h, At("select", handler[h].row, "-"))
  /\ UNCHANGED <<mission, assignments, released, world>>

\* service_requests_update to ready_for_service: claimed without a look at
\* the mission.  updateRequestContext follows; it writes no status.
HandleReadyForService(h, r) ==
  \E d \in BOOLEAN :
    LET e == RequestEvent(r, "ready_for_service", d) IN
    /\ Starts(h, e)
    /\ SetRequestWhere(r, {"ready_for_service"}, "dispatching_service", {e})
    /\ Becomes(h, At("select", r, "-"))
    /\ UNCHANGED <<mission, assignments, released, world>>

\* processMicroserviceRequest: only a request that is being dispatched is sent.
SelectRequest(h) ==
  LET r == handler[h].row IN
  /\ IsAt(h, "select")
  /\ Becomes(h, IF service_requests[r].status = "dispatching_service"
                  THEN At("send", r, "-") ELSE Idle)
  /\ UNCHANGED <<mission, service_requests, assignments, events_queue, released, world>>

\* The HTTP call: the microservice takes the job and answers at once, with a
\* result or with "pending".
SendRequest(h) ==
  LET r == handler[h].row IN
  /\ IsAt(h, "send")
  /\ \E reply \in Replies \ {"error", "time-out"} :
       /\ Becomes(h, At("markPending", r, reply))
       /\ answered' = IF reply = "ready" THEN answered \cup {r} ELSE answered
  /\ calls' = [calls EXCEPT ![r] = @ + 1]
  /\ UNCHANGED <<mission, service_requests, assignments, events_queue, released>>

\* The microservice is disabled, unreachable or answers nothing.
SendFails(h) ==
  /\ IsAt(h, "send")
  /\ "error" \in Replies
  /\ Becomes(h, At("sendFailed", handler[h].row, "-"))
  /\ UNCHANGED <<mission, service_requests, assignments, events_queue, released, world>>

SaveSendFailure(h) ==
  LET r == handler[h].row IN
  /\ IsAt(h, "sendFailed")
  /\ WriteRequests({q \in {r} : service_requests[q].status \in Answerable},
                   WithAnswer("failed", TRUE, {}), {})
  /\ Becomes(h, Idle)
  /\ UNCHANGED <<mission, assignments, released, world>>

\* A row that is no longer being dispatched was canceled meanwhile: then that
\* is the default outcome, instead of "pending".
MarkPending(h) ==
  LET r == handler[h].row
      matches == service_requests[r].status = "dispatching_service"
      reply == handler[h].val
  IN
  /\ IsAt(h, "markPending")
  /\ SetRequestWhere(r, {"dispatching_service"}, "pending", {})
  /\ Becomes(h, At("saveResponse", r,
                   IF reply = "pending" /\ ~matches THEN "canceled" ELSE reply))
  /\ UNCHANGED <<mission, assignments, released, world>>

\* Mutant of SaveResponse: every answer counts as a result.
SaveResponseMutant(h) ==
  LET r == handler[h].row IN
  /\ IsAt(h, "saveResponse")
  /\ WriteRequests({q \in {r} : service_requests[q].status \in Answerable},
                   WithAnswer("ready", TRUE, {}), {})
  /\ Becomes(h, Idle)
  /\ UNCHANGED <<mission, assignments, released, world>>

\* saveServiceResponse, for the call and for the watcher that polls.
SaveResponse(h) ==
  LET r == handler[h].row
      status == handler[h].val
  IN
  /\ IsAt(h, "saveResponse")
  /\ \E skip \in SUBSET (IF status = "ready" /\ r \in Choosers THEN Dependents(r) ELSE {}) :
       WriteRequests({q \in {r} : service_requests[q].status \in Answerable},
                     WithAnswer(status, status # "pending", skip), {})
  /\ Becomes(h, Idle)
  /\ UNCHANGED <<mission, assignments, released, world>>

----------------------------------------------------------------------------
(* A microservice answers: watchers *)

\* waitForServicesResults asks the microservice of a pending request.  "Not
\* ready yet" changes nothing; an answer that is late is a time-out.
PollService(h, r) ==
  /\ IsAt(h, "idle")
  /\ service_requests[r].status = "pending"
  /\ \E reply \in Replies \ {"pending"} :
       /\ Becomes(h, At(CASE reply = "time-out" -> "timedOut"
                          [] reply = "error" -> "unreachable"
                          [] OTHER -> "saveResponse", r, reply))
       /\ answered' = IF reply = "ready" THEN answered \cup {r} ELSE answered
  /\ UNCHANGED <<mission, service_requests, assignments, events_queue, released, calls>>

\* Mutant of SaveTimeout: the late request counts as processed already.
SaveTimeoutMutant(h) ==
  LET r == handler[h].row IN
  /\ IsAt(h, "timedOut")
  /\ WriteRequests({q \in {r} : service_requests[q].status = "pending"},
                   WithAnswer("time-out", TRUE, {}), {})
  /\ Becomes(h, Idle)
  /\ UNCHANGED <<mission, assignments, released, world>>

SaveTimeout(h) ==
  LET r == handler[h].row IN
  /\ IsAt(h, "timedOut")
  /\ WriteRequests({q \in {r} : service_requests[q].status = "pending"},
                   WithAnswer("time-out", FALSE, {}), {})
  /\ Becomes(h, Idle)
  /\ UNCHANGED <<mission, assignments, released, world>>

\* Mutant of SaveUnreachable: what was received is saved as the status.
SaveUnreachableMutant(h) ==
  /\ IsAt(h, "unreachable") \/ IsAt(h, "cancelFailed")
  /\ WriteRequests({handler[h].row}, WithAnswer(handler[h].val, TRUE, {}), {})
  /\ Becomes(h, Idle)
  /\ UNCHANGED <<mission, assignments, released, world>>

\* The catch branches of waitForServicesResults and of
\* sendRequestToCancelServices: the row is failed whatever it has become.
SaveUnreachable(h) ==
  /\ IsAt(h, "unreachable") \/ IsAt(h, "cancelFailed")
  /\ WriteRequests({handler[h].row},
                   WithAnswer("failed", TRUE, {}), {})
  /\ Becomes(h, Idle)
  /\ UNCHANGED <<mission, assignments, released, world>>

----------------------------------------------------------------------------
(* A request ends *)

\* Mutant of HandleFailed: the mission is failed whatever its status is.
HandleFailedMutant(h, r) ==
  \E d \in BOOLEAN :
    LET e == RequestEvent(r, "failed", d) IN
    /\ Starts(h, e)
    /\ SetMission("planning_failed", {e})
    /\ UNCHANGED <<service_requests, assignments, handler, released, world>>

\* service_requests_update to failed.
HandleFailed(h, r) ==
  \E d \in BOOLEAN :
    LET e == RequestEvent(r, "failed", d) IN
    /\ Starts(h, e)
    /\ SetMissionWhere(RunningMission, "planning_failed", {e})
    /\ UNCHANGED <<service_requests, assignments, handler, released, world>>

\* Mutant of HandleTimeout: the mission goes on.
HandleTimeoutMutant(h, r) ==
  \E d \in BOOLEAN :
    LET e == RequestEvent(r, "time-out", d) IN
    /\ Starts(h, e)
    /\ WriteRequests({r}, WithStatus("canceled"), {e})
    /\ UNCHANGED <<mission, assignments, handler, released, world>>

\* service_requests_update to time-out: the request is canceled, so that the
\* watcher tells the microservice, and the mission fails.
HandleTimeout(h, r) ==
  \E d \in BOOLEAN :
    LET e == RequestEvent(r, "time-out", d) IN
    /\ Starts(h, e)
    /\ WriteRequests({r}, WithStatus("canceled"), {e})
    /\ Becomes(h, At("planningFailed", r, "-"))
    /\ UNCHANGED <<mission, assignments, released, world>>

FailPlanning(h) ==
  /\ IsAt(h, "planningFailed")
  /\ SetMissionWhere(RunningMission, "planning_failed", {})
  /\ Becomes(h, Idle)
  /\ UNCHANGED <<service_requests, assignments, released, world>>

\* Mutant of AfterReady: next requests do not keep the mission from completing.
AfterReadyMutant(r) ==
  IF AssignmentsIn(UncompleteAssignment) = {} THEN At("wrapUp", r, "-") ELSE Idle

\* What follows a READY request: activateNextServicesInPipeline if there are
\* next requests, wrapUpMicroserviceCall decides about the mission if not.
\* (The early return for a service_type that is named `Assignment planner',
\* like the class of services, is left out: service types are names such as
\* `drive' that the recipes choose.)
AfterReady(r) ==
  IF NextReq[r] # {}
    THEN IF mission \in RunningMission THEN At("listNext", r, "-") ELSE Idle
    ELSE IF AssignmentsIn(UncompleteAssignment) = {} THEN At("wrapUp", r, "-") ELSE Idle

\* service_requests_update to ready, nothing to be made of the result.
HandleReady(h, r) ==
  \E d \in (IF r \in Planner THEN {TRUE} ELSE BOOLEAN) :
    LET e == RequestEvent(r, "ready", d) IN
    /\ Starts(h, e)
    /\ TakeAndLeave({e}, {})
    /\ Becomes(h, AfterReady(r))
    /\ UNCHANGED <<mission, service_requests, assignments, released, world>>

\* wrapUpMicroserviceCall completes the mission.
WrapUp(h) ==
  /\ IsAt(h, "wrapUp")
  /\ IF ServicesLeft = {}
       THEN SetMissionWhere(RunningMission, "assignments_completed", {})
       ELSE UNCHANGED <<mission, events_queue>>
  /\ Becomes(h, Idle)
  /\ UNCHANGED <<service_requests, assignments, released, world>>

----------------------------------------------------------------------------
(* The next requests are activated *)

\* The rows of the next requests are read; the ones that are not ready yet
\* are updated, each on its own, from the copy that was read.
ListNext(h) ==
  LET r == handler[h].row
      waiting == {q \in NextReq[r] : service_requests[q].status = "not_ready_for_service"}
  IN
  /\ IsAt(h, "listNext")
  /\ Becomes(h, IF waiting = {} THEN Idle
                ELSE [At("updateNext", r, "-") EXCEPT
                        !.todo = [x \in Row |-> IF x \in waiting THEN "not_ready_for_service" ELSE "-"]])
  /\ UNCHANGED <<mission, service_requests, assignments, events_queue, released, world>>

DetermineNext(h, q) ==
  /\ IsAt(h, "updateNext")
  /\ handler[h].todo[q] = "not_ready_for_service"
  /\ Becomes(h, [handler[h] EXCEPT !.todo[q] = DetermineStatus(q)])
  /\ UNCHANGED <<mission, service_requests, assignments, events_queue, released, world>>

\* The whole copy is written back, over whatever the row has become.
WriteNext(h, q) ==
  /\ IsAt(h, "updateNext")
  /\ handler[h].todo[q] \notin {"-", "not_ready_for_service"}
  /\ WriteRequests({q}, [x \in Req |-> [NewRequest(x) EXCEPT !.status = handler[h].todo[q]]], {})
  /\ DoneWith(h, q, Idle)
  /\ UNCHANGED <<mission, assignments, released, world>>

\* waitForServicesDependencies finds that a waiting request can run ...
FindReleasable(h, r) ==
  /\ IsAt(h, "idle")
  /\ service_requests[r].status = "wait_dependencies"
  /\ DetermineStatus(r) = "ready_for_service"
  /\ Becomes(h, At("release", r, "-"))
  /\ UNCHANGED <<mission, service_requests, assignments, events_queue, released, world>>

\* Mutant of ReleaseRequest: whatever the request has become.
ReleaseRequestMutant(h) ==
  /\ IsAt(h, "release")
  /\ WriteRequests({handler[h].row}, WithStatus("ready_for_service"), {})
  /\ Becomes(h, Idle)
  /\ UNCHANGED <<mission, assignments, released, world>>

\* ... and lets it run if it is still waiting.
ReleaseRequest(h) ==
  /\ IsAt(h, "release")
  /\ SetRequestWhere(handler[h].row, {"wait_dependencies"}, "ready_for_service", {})
  /\ Becomes(h, Idle)
  /\ UNCHANGED <<mission, assignments, released, world>>

----------------------------------------------------------------------------
(* Canceled requests are reported to their microservices *)

\* sendRequestToCancelServices: canceled and not yet processed.
CancelService(h, r) ==
  /\ IsAt(h, "idle")
  /\ service_requests[r].status = "canceled"
  /\ ~service_requests[r].processed
  /\ \E pc \in {"confirmCancel"} \cup (IF "error" \in Replies THEN {"cancelFailed"} ELSE {}) :
       Becomes(h, At(pc, r, "-"))
  /\ UNCHANGED <<mission, service_requests, assignments, events_queue, released, world>>

ConfirmCancel(h) ==
  LET r == handler[h].row IN
  /\ IsAt(h, "confirmCancel")
  /\ WriteRequests({q \in {r} : /\ service_requests[q].status = "canceled"
                                /\ ~service_requests[q].processed},
                   WithAnswer("canceled", TRUE, {}), {})
  /\ Becomes(h, Idle)
  /\ UNCHANGED <<mission, assignments, released, world>>

----------------------------------------------------------------------------
Dispatching(h) ==
  \/ ClaimRequest(h) \/ DropRequest(h) \/ SelectRequest(h) \/ SendRequest(h)
  \/ SendFails(h) \/ SaveSendFailure(h) \/ MarkPending(h) \/ SaveResponse(h)

Activating(h) ==
  \/ ListNext(h) \/ ReleaseRequest(h)
  \/ \E q \in Req : DetermineNext(h, q) \/ WriteNext(h, q)

Ending(h) ==
  \/ SaveTimeout(h) \/ SaveUnreachable(h) \/ FailPlanning(h) \/ WrapUp(h)
  \/ ConfirmCancel(h)

\* A computation in flight takes its next step.
Continue(h) == MarkCalculating(h) \/ Dispatching(h) \/ Activating(h) \/ Ending(h)

\* An event of the queue is handled.
Handle(h) ==
  \E r \in Req : \/ HandleInsertion(h, r) \/ HandleReadyForService(h, r)
                 \/ HandleReady(h, r) \/ HandleFailed(h, r) \/ HandleTimeout(h, r)

\* A tick of the watchers.
Watch(h) ==
  \E r \in Req : PollService(h, r) \/ FindReleasable(h, r) \/ CancelService(h, r)

\* The end of the mission, which no microservice takes part in.
MissionEnds(h) == WorkProcessHandler(h) /\ UNCHANGED world

Init ==
  /\ mission = "preparing resources"
  /\ service_requests = [r \in Req |-> NewRequest(r)]
  /\ assignments = [a \in Asg |-> "absent"]
  /\ events_queue = [e \in Event |->
       IF e \in {InsertionEvent(r) : r \in {q \in Req : DependsOn[q] = {}}} THEN 1 ELSE 0]
  /\ \E h \in Handler :
       handler = [g \in Handler |-> IF g = h THEN At("calculating", NoRow, "-") ELSE Idle]
  /\ released = 0
  /\ calls = [r \in Req |-> 0]
  /\ answered = {}

Next ==
  \/ UserCancels /\ UNCHANGED world
  \/ \E h \in Handler : Continue(h) \/ Handle(h) \/ Watch(h) \/ MissionEnds(h)

Spec == Init /\ [][Next]_svcVars

(* Fairness.  A computation that has been started goes on, the notification *)
(* of every queued event has its handler called, and the watchers' timer    *)
(* ticks, so that a pending request is polled until it is answered or late. *)
(* Nothing makes the user cancel.                                           *)
Fairness ==
  /\ \A h \in Handler : /\ WF_svcVars(Continue(h))
                         /\ WF_svcVars(Handle(h))
                         /\ WF_svcVars(MissionEnds(h))
  /\ \A r \in Req : /\ WF_svcVars(\E h \in Handler : PollService(h, r))
                     /\ WF_svcVars(\E h \in Handler : FindReleasable(h, r))
                     /\ WF_svcVars(\E h \in Handler : CancelService(h, r))

FairSpec == Spec /\ Fairness

----------------------------------------------------------------------------
(* Properties *)

\* A computation in flight.
Task == [pc: {"idle"} \cup WorkProcessPc \cup ServicePc,
         row: Req \cup {NoRow},
         val: Mark \cup {"error"},
         todo: [Row -> Mark]]

\* Types of the shared tables and of the computations in flight.
TypeOK ==
  /\ mission \in MissionStatus
  /\ service_requests \in [Req -> RequestRow]
  /\ assignments \in [Asg -> AssignmentStatus \cup {"absent"}]
  /\ events_queue \in [Event -> Nat]
  /\ handler \in [Handler -> Task]
  /\ released \in Nat
  /\ calls \in [Req -> Nat]
  /\ answered \subseteq Req

\* No microservice is given a job before the microservices of all the steps
\* it depends on have delivered their results: determineServiceRequestStatus,
\* the stale copies of activateNextServicesInPipeline and the watcher, in any
\* interleaving.
CalledAfterDependencies ==
  \A r \in Req : calls[r] > 0 => DependsOn[r] \subseteq answered

\* A request becomes one job of its microservice, whatever handlers and
\* watchers overlap.
CalledOnce == \A r \in Req : calls[r] <= 1

\* A request's status follows the sequence of the comment in
\* microservice_db_events_handler.ts: "not_ready_for_service =>
\* wait_dependencies => ready_for_service => pending => ready | failed |
\* canceled"; a request that was dispatched is never made to wait again.
StatusSequence ==
  [][\A r \in Req :
       service_requests[r].status \in {"dispatching_service", "pending", "ready"} =>
         service_requests'[r].status \notin {"not_ready_for_service", "wait_dependencies",
                                            "ready_for_service"}]_svcVars

\* A request that was canceled with its mission is not brought back by a
\* computation that read the request before the cancel.
CanceledIsFinal ==
  [][\A r \in Req : service_requests[r].status = "canceled" =>
       service_requests'[r].status \in {"canceled", "failed"}]_svcVars

\* A mission is completed by its services only when no request is waiting or
\* being served: wrapUpMicroserviceCall "checks if the work process is
\* completed, i.e., if there any other requests to be dispatched".
NoPrematureCompletion ==
  mission \in {"assignments_completed", "succeeded"} =>
    \A r \in Req : service_requests[r].status \in {"ready", "skipped", "canceled", "failed"}

\* The outcome of a mission is final: whatever handlers of older events are
\* still in flight, a mission that succeeded, failed or was canceled stays so.
OutcomeIsFinal ==
  [][(mission \in {"succeeded", "failed", "canceled"}) => (mission' = mission)]_svcVars

\* The agents are released once, and not before the outcome of the mission is
\* in the database: several handlers of several events can end a mission.
ReleasedAtEnd ==
  released > 0 => released = 1 /\ mission \in {"succeeded", "failed", "canceled"}

\* A step that depends on a skipped step is skipped: "if this request has any
\* dependent previous requests that were skipped, skip this request as well".
SkipPropagates ==
  \A r \in Req :
    (\E d \in DependsOn[r] : service_requests[d].status = "skipped")
      ~> (service_requests[r].status \in {"skipped", "canceled"})

\* The mission ends and lets its agents go: no interleaving of answers,
\* failures, time-outs and a cancel loses the step that ends it.
MissionTerminates ==
  <>(mission \in {"succeeded", "failed", "canceled"} /\ released > 0)

\* The microservice of r is done with its job: it delivered a result or said
\* that it failed, or sendRequestToCancelServices has told it to drop the job.
JobEnds(r) ==
  \/ r \in answered
  \/ \E h \in Handler : /\ handler[h].row = r
                       /\ \/ IsAt(h, "saveResponse") /\ handler[h].val = "failed"
                          \/ IsAt(h, "confirmCancel")

\* No job whose id is in the database is left with its microservice: it ends
\* or is canceled there, also when its answer is late, when the mission fails
\* on account of another service or when the user cancels.  The row may have
\* been canceled, timed out or failed by another computation meanwhile; what
\* counts is the microservice.  (A job handed over by a call that is in flight
\* when its row is canceled never gets its id into the database.)
JobsEnd == \A r \in Req : service_requests[r].status = "pending" ~> JobEnds(r)
----------------------------------------------------------------------------
(* Why CalledAfterDependencies holds: the part of the state that carries    *)
(* the permission to run from determineServiceRequestStatus to the call.    *)

\* The microservices of all steps that r depends on are among those that
\* delivered the results.
Permitted(r, results) == DependsOn[r] \subseteq results

\* Statements that write the row or the request they are about.
RequestPc == {"drop", "claim", "select", "send", "sendFailed", "markPending",
              "saveResponse", "timedOut", "unreachable", "release",
              "confirmCancel", "cancelFailed", "listNext", "updateNext"}

\* A computation holds a row and a value that its statement can write.
TaskOK(t) ==
  /\ t.pc \in RequestPc => t.row \in Req
  /\ t.pc \in {"markPending", "saveResponse"} =>
       t.val \in {"ready", "pending", "failed", "canceled"}
  /\ t.pc = "endMission" => t.val \in {"canceled", "succeeded"}
  /\ t.pc = "updateNext" =>
       \A q \in Req : t.todo[q] \in {"-", "not_ready_for_service", "skipped",
                                     "wait_dependencies", "ready_for_service"}

\* What a computation has decided about a request stays justified while other
\* computations run: a decision to let it run, a job given, a result received.
TaskPermitted(t, results) ==
  /\ t.pc \in {"send", "markPending", "saveResponse", "release"} => Permitted(t.row, results)
  /\ t.pc \in {"markPending", "saveResponse"} /\ t.val = "ready" => t.row \in results
  /\ t.pc = "updateNext" =>
       \A q \in Req : t.todo[q] = "ready_for_service" => Permitted(q, results)

\* A request that may be claimed, is being served or is ready was permitted
\* to run, and a request that is ready has its result.
StatusPermitted(r, status, results) ==
  /\ status \in {"ready_for_service", "dispatching_service", "pending", "ready"} =>
       Permitted(r, results)
  /\ status = "ready" => r \in results

\* Every request, every job and every computation in flight carries a
\* permission that its dependencies gave: the inductive form of
\* CalledAfterDependencies.
RunsWithPermission ==
  /\ TypeOK
  /\ \A r \in Req : StatusPermitted(r, service_requests[r].status, answered)
  /\ \A h \in Handler : TaskOK(handler[h]) /\ TaskPermitted(handler[h], answered)
  /\ CalledAfterDependencies
=============================================================================
