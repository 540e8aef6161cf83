---------------------------- MODULE Orchestration ----------------------------
(***************************************************************************)
(* A mission from its first service request to its last assignment: the    *)
(* pipeline of requests and the pipeline of assignments over the same      *)
(* rows, joined by createAssignment (microservice_assignment_result.ts),   *)
(* which turns a planner's result into assignments.                        *)
(***************************************************************************)
EXTENDS WorkProcess

CONSTANTS WaitAssignments, Replies, Choosers,
          NextAsg, DependsAsg, Continues, Reports, QuickAgents, OrdersFail,
          DispatchModes,  \* how planners' responses order their assignments
          InvalidPlans    \* a planner may name an agent that does not exist

VARIABLES calls, answered, sent, agent, done

ASSUME ModeAssumption ==
  /\ DispatchModes \subseteq {"assignment_order_array", "dispatch_order_array",
                             "dispatch_all_at_once"}
  /\ "dispatch_all_at_once" \in DispatchModes => \A a \in Asg : NextAsg[a] = {}
  /\ InvalidPlans \in BOOLEAN

\* createAssignment orders the assignments of one response among themselves.
ASSUME PlansApart == \A a \in Asg : \A b \in NextAsg[a] : Owner[b] = Owner[a]

Svc == INSTANCE ServicePipeline
Asm == INSTANCE AssignmentPipeline

ASSUME PartsAssumption == Svc!ServiceAssumption /\ Asm!AssignmentAssumption

vars == <<wpVars, calls, answered, sent, agent, done>>
world == <<calls, answered>>
field == <<sent, agent, done>>

PlanPc == {"insertAssignments", "dispatchPlan", "reorderPlan", "flagDispatched",
           "markMissionExecuting", "planDone"}

----------------------------------------------------------------------------
(* createAssignment *)

Plan(r) == {a \in Asg : Owner[a] = r}

\* [x |-> what the statements of this stage write into row x]
Writes(rows, status(_)) == [x \in Row |-> IF x \in rows THEN status(x) ELSE "-"]

\* service_requests_update to ready of a request whose result is applied and
\* has not been yet; the status of the mission is not asked for.  The error
\* of a plan that is not valid is logged, and the pipeline goes on without
\* assignments.
HandlePlan(h, r) ==
  LET e == RequestEvent(r, "ready", FALSE) IN
  /\ r \in Planner
  /\ Starts(h, e)
  /\ TakeAndLeave({e}, {})
  /\ \E pc \in {"insertAssignments"} \cup (IF InvalidPlans THEN {"planDone"} ELSE {}) :
       Becomes(h, At(pc, r, "-"))
  /\ UNCHANGED <<mission, service_requests, assignments, released, world, field>>

\* The statuses that are written at once when the rows are there.
FirstWrites(r, mode) ==
  LET rows == IF mode = "assignment_order_array"
                THEN {a \in Plan(r) : DependsAsg[a] = {}} ELSE Plan(r)
      toDispatch(x) == "to_dispatch"
  IN Writes(rows, toDispatch)

\* The response says how its assignments are ordered; it may hold none.
InsertAssignments(h) ==
  LET r == handler[h].row IN
  /\ IsAt(h, "insertAssignments")
  /\ assignments' = [a \in Asg |-> IF a \in Plan(r) THEN "not_ready_to_dispatch" ELSE assignments[a]]
  /\ \E mode \in DispatchModes :
       Becomes(h, IF Plan(r) = {} THEN At("planDone", r, "-")
                  ELSE [At("dispatchPlan", r, mode) EXCEPT !.todo = FirstWrites(r, mode)])
  /\ UNCHANGED <<mission, service_requests, events_queue, released, world, field>>

\* dispatch_order: all groups but the last are written again, the first as to
\* be dispatched and the others as not ready; so is a group that is alone.
LaterWrites(r, mode) ==
  LET rows == {a \in Plan(r) : mode = "dispatch_order_array" /\ (NextAsg[a] # {} \/ DependsAsg[a] = {})}
      status(x) == IF DependsAsg[x] = {} THEN "to_dispatch" ELSE "not_ready_to_dispatch"
  IN Writes(rows, status)

\* Every assignment of the plan flags the request once.
Flags(r) == LET flag(x) == "executing" IN Writes(Plan(r), flag)

\* What follows when the last status of a stage is written.
AfterStage(pc, r, mode) ==
  IF pc = "dispatchPlan" /\ LaterWrites(r, mode) # NoTodo
    THEN [At("reorderPlan", r, mode) EXCEPT !.todo = LaterWrites(r, mode)]
    ELSE [At("flagDispatched", r, "-") EXCEPT !.todo = Flags(r)]

WriteAssignment(h, a) ==
  \E pc \in {"dispatchPlan", "reorderPlan"} :
    /\ IsAt(h, pc)
    /\ handler[h].todo[a] # "-"
    /\ SetAssignments({a}, handler[h].todo[a], {})
    /\ DoneWith(h, a, AfterStage(pc, handler[h].row, handler[h].val))
    /\ UNCHANGED <<mission, service_requests, released, world, field>>

\* assignment_dispatched is set, which reports the READY request once more ...
FlagDispatched(h) ==
  LET r == handler[h].row IN
  /\ IsAt(h, "flagDispatched")
  /\ WriteRequests({r}, [q \in Req |-> [service_requests[q] EXCEPT !.assignment_dispatched = TRUE]], {})
  /\ Becomes(h, [handler[h] EXCEPT !.pc = "markMissionExecuting"])
  /\ UNCHANGED <<mission, assignments, released, world, field>>

\* ... and the mission executes, if it is on its way there.
MarkMissionExecuting(h) ==
  LET a == CHOOSE x \in Todo(h) : TRUE IN
  /\ IsAt(h, "markMissionExecuting")
  /\ SetMissionWhere({"dispatched", "calculating", "preparing resources"}, "executing", {})
  /\ Becomes(h, IF Todo(h) = {a}
                  THEN At("planDone", handler[h].row, "-")
                  ELSE [handler[h] EXCEPT !.pc = "flagDispatched", !.todo[a] = "-"])
  /\ UNCHANGED <<service_requests, assignments, released, world, field>>

\* Mutant of PlanDone: the pipeline does not go on.
PlanDoneMutant(h) ==
  /\ IsAt(h, "planDone")
  /\ Becomes(h, Idle)
  /\ UNCHANGED <<mission, service_requests, assignments, events_queue, released, world, field>>

\* Then the pipeline goes on as after any other request.
PlanDone(h) ==
  /\ IsAt(h, "planDone")
  /\ Becomes(h, Svc!AfterReady(handler[h].row))
  /\ UNCHANGED <<mission, service_requests, assignments, events_queue, released, world, field>>

Planning(h) ==
  \/ InsertAssignments(h) \/ FlagDispatched(h) \/ MarkMissionExecuting(h) \/ PlanDone(h)
  \/ \E a \in Asg : WriteAssignment(h, a)

----------------------------------------------------------------------------
Init == Svc!Init /\ sent = [a \in Asg |-> 0] /\ agent = [a \in Asg |-> "none"] /\ done = {}

ServiceStep(h) == (Svc!Continue(h) \/ Svc!Handle(h) \/ Svc!Watch(h)) /\ UNCHANGED field

AssignmentStep(h) ==
  /\ Asm!Continue(h) \/ Asm!Handle(h) \/ Asm!Watch(h) \/ \E a \in Asg : Asm!AgentReports(h, a)
  /\ UNCHANGED world

Next ==
  \/ UserCancels /\ UNCHANGED <<world, field>>
  \/ \E h \in Handler :
       \/ ServiceStep(h)
       \/ AssignmentStep(h)
       \/ WorkProcessHandler(h) /\ UNCHANGED <<world, field>>
       \/ Planning(h)
       \/ \E r \in Req : HandlePlan(h, r)

Spec == Init /\ [][Next]_vars

(* Fairness: as in the two pipelines.                                       *)
Fairness ==
  /\ \A h \in Handler :
       /\ WF_vars(Svc!Continue(h) /\ UNCHANGED field)
       /\ WF_vars(Asm!Continue(h) /\ UNCHANGED world)
       /\ WF_vars(Planning(h))
       /\ WF_vars(WorkProcessHandler(h) /\ UNCHANGED <<world, field>>)
       /\ WF_vars(\/ Svc!Handle(h) /\ UNCHANGED field
                  \/ Asm!Handle(h) /\ UNCHANGED world
                  \/ \E r \in Req : HandlePlan(h, r))
  /\ \A r \in Req : /\ WF_vars(\E h \in Handler : Svc!PollService(h, r) /\ UNCHANGED field)
                     /\ WF_vars(\E h \in Handler : Svc!FindReleasable(h, r) /\ UNCHANGED field)
                     /\ WF_vars(\E h \in Handler : Svc!CancelService(h, r) /\ UNCHANGED field)
  /\ \A a \in Asg : /\ WF_vars(\E h \in Handler : Asm!FindUnblocked(h, a) /\ UNCHANGED world)
                     /\ WF_vars(Asm!AgentEnds(a) /\ UNCHANGED world)

FairSpec == Spec /\ Fairness

----------------------------------------------------------------------------
(* Properties *)

\* Types of what the two pipelines share.
TypeOK ==
  /\ mission \in MissionStatus
  /\ service_requests \in [Req -> RequestRow]
  /\ assignments \in [Asg -> AssignmentStatus \cup {"absent"}]
  /\ events_queue \in [Event -> Nat]
  /\ handler \in [Handler ->
       [pc: {"idle"} \cup WorkProcessPc \cup Svc!ServicePc \cup Asm!AssignmentPc \cup PlanPc,
        row: Row \cup {NoRow}, val: Mark \cup {"error"} \cup DispatchModes, todo: [Row -> Mark]]]
  /\ sent \in [Asg -> Nat] /\ agent \in [Asg -> Asm!AgentState] /\ done \subseteq Asg

\* A service that waits for the assignments of its dependencies is not called
\* before agents have carried out all of them, nor do any turn up later.
ServiceWaitsForAssignments ==
  \A r \in WaitAssignments :
    calls[r] > 0 =>
      \A a \in Asg : Owner[a] \in DependsOn[r] /\ assignments[a] # "absent" => a \in done

\* No microservice is called before those it depends on have answered, and no
\* agent is ordered to do anything that its planner has not answered.
FollowsPlan ==
  /\ \A r \in Req : calls[r] > 0 => DependsOn[r] \subseteq answered
  /\ \A a \in Asg : sent[a] > 0 => Owner[a] \in answered

\* No agent is ordered before the assignments that precede its own in the
\* planner's order are carried out.
SentAfterDependencies ==
  \A a \in Asg : sent[a] > 0 => DependsAsg[a] \subseteq done

\* The mission is completed only when there are no "other requests to be
\* dispatched" nor "any uncompleted assignments".
NoPrematureCompletion ==
  mission \in {"assignments_completed", "succeeded"} =>
    /\ \A r \in Req : service_requests[r].status \in {"ready", "skipped", "canceled", "failed"}
    /\ \A a \in Asg : assignments[a] # "canceled" => agent[a] \notin {"working", "stopping"}

\* A mission's outcome is final.
OutcomeIsFinal ==
  [][(mission \in {"succeeded", "failed", "canceled"}) => (mission' = mission)]_vars

\* A request that has been answered or is being served is not dispatched again:
\* "not_ready_for_service => wait_dependencies => ready_for_service  =>
\* pending => ready | failed | canceled".
StatusSequence ==
  [][\A r \in Req :
       service_requests[r].status \in {"dispatching_service", "pending", "ready"} =>
         service_requests'[r].status \notin {"not_ready_for_service", "wait_dependencies",
                                            "ready_for_service"}]_vars

\* The mission ends, whatever its services and agents answer.
MissionTerminates ==
  <>(mission \in {"succeeded", "failed", "canceled"} /\ released > 0)
=============================================================================
