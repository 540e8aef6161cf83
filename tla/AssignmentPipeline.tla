-------------------------- MODULE AssignmentPipeline --------------------------
(***************************************************************************)
(* The pipeline of assignments of one mission: the handlers of             *)
(* assignments_status_update events (assignment_db_events_handler.ts), the *)
(* orchestration they call (assignment_orchestration.ts), the reports of   *)
(* the agents (status_event_handler.ts) and the watcher that releases      *)
(* waiting assignments (microservice_event_watcher.ts).                    *)
(*                                                                         *)
(* The model starts when the planner's result has been turned into rows:   *)
(* the first group is to be dispatched, the others are not ready.  The     *)
(* steps that lead there are in module Orchestration.                      *)
(***************************************************************************)
EXTENDS WorkProcess

CONSTANTS
  NextAsg,      \* next_assignments of each assignment
  DependsAsg,   \* depend_on_assignments of each assignment
  Continues,    \* assignments whose failure is to be CONTINUE or RELEASE
  Reports,      \* statuses that agents report
  QuickAgents,  \* an agent may report before the core has noted that it executes
  OrdersFail    \* assignments whose order may not reach the broker

ASSUME AssignmentAssumption ==
  /\ NextAsg \in [Asg -> SUBSET Asg]
  /\ DependsAsg \in [Asg -> SUBSET Asg]
  /\ Continues \subseteq Asg
  /\ Reports \subseteq {"executing", "active", "succeeded", "failed", "aborted",
                        "rejected", "canceled"}
  /\ QuickAgents \in BOOLEAN
  /\ OrdersFail \subseteq Asg

VARIABLES
  sent,   \* how many times the agent was ordered to execute each assignment
  agent,  \* what the agent does about it
  done    \* assignments that an agent has carried out

asgVars == <<wpVars, sent, agent, done>>
field == <<sent, agent, done>>

AssignmentPc == {"order", "orderFailed", "markExecuting", "markCanceled",
                 "checkServices", "checkAssignments", "completeMission",
                 "listNextAssignments", "activate", "failMission", "unblock",
                 "saveReport", "saveReportWhere"}

AgentState == {"none", "working", "stopping", "over"}

----------------------------------------------------------------------------
(* An assignment is dispatched *)

\* to_dispatch: the row is read again (its context is completed) ...
HandleToDispatch(h, a) ==
  LET e == AssignmentEvent(a, "to_dispatch") IN
  /\ Starts(h, e)
  /\ TakeAndLeave({e}, {})
  /\ Becomes(h, At("order", a, "-"))
  /\ UNCHANGED <<mission, service_requests, assignments, released, field>>

\* ... and the order goes to the agent, whatever the status is by now.
SendOrder(h) ==
  LET a == handler[h].row IN
  /\ IsAt(h, "order")
  /\ sent' = [sent EXCEPT ![a] = @ + 1]
  /\ agent' = [agent EXCEPT ![a] = "working"]
  /\ Becomes(h, At("markExecuting", a, "-"))
  /\ UNCHANGED <<mission, service_requests, assignments, events_queue, released, done>>

\* dispatchAssignmentToAgent catches the error of the broker ...
OrderFails(h) ==
  /\ IsAt(h, "order")
  /\ handler[h].row \in OrdersFail
  /\ Becomes(h, At("orderFailed", handler[h].row, "-"))
  /\ UNCHANGED <<mission, service_requests, assignments, events_queue, released, field>>

\* ... and returns normally after it has failed the assignment.
SaveOrderFailure(h) ==
  /\ IsAt(h, "orderFailed")
  /\ SetAssignments({handler[h].row}, "failed", {})
  /\ Becomes(h, At("markExecuting", handler[h].row, "-"))
  /\ UNCHANGED <<mission, service_requests, released, field>>

\* The row is marked as executing in any case.
MarkExecuting(h) ==
  /\ IsAt(h, "markExecuting")
  /\ SetAssignments({handler[h].row}, "executing", {})
  /\ Becomes(h, Idle)
  /\ UNCHANGED <<mission, service_requests, released, field>>

----------------------------------------------------------------------------
(* The agent reports *)

\* A status message of the agent arrives; evaluateAssignmentUpdate reads the
\* row and decides, before an await, how it will be written.
AgentReports(h, a) ==
  \E s \in Reports :
    /\ IsAt(h, "idle")
    /\ agent[a] \in {"working", "stopping"}
    /\ s = "canceled" => agent[a] = "stopping"
    /\ QuickAgents \/ \A g \in Handler : ~(IsAt(g, "markExecuting") /\ handler[g].row = a)
    /\ agent' = [agent EXCEPT ![a] = IF s \in AfterDispatch THEN @ ELSE "over"]
    /\ done' = IF s = "succeeded" THEN done \cup {a} ELSE done
    /\ LET current == assignments[a] IN
       Becomes(h, IF \/ current = s /\ s \notin AfterDispatch
                     \/ current # s /\ current \in {"succeeded", "completed", "failed"}
                    THEN Idle
                  ELSE IF s \in {"canceled", "aborted", "failed"}
                    THEN At("saveReport", a, s)
                    ELSE At("saveReportWhere", a, s))
    /\ UNCHANGED <<mission, service_requests, assignments, events_queue, released, sent>>

\* The end that an agent declares is written without a look at the mission.
SaveReport(h) ==
  /\ IsAt(h, "saveReport")
  /\ SetAssignments({handler[h].row}, handler[h].val, {})
  /\ Becomes(h, Idle)
  /\ UNCHANGED <<mission, service_requests, released, field>>

\* Progress and success count only while the mission takes them.
SaveReportWhere(h) ==
  /\ IsAt(h, "saveReportWhere")
  /\ SetAssignments({a \in {handler[h].row} :
                       mission \in {"executing", "dispatched", "calculating", "canceling", "failed"}},
                    handler[h].val, {})
  /\ Becomes(h, Idle)
  /\ UNCHANGED <<mission, service_requests, released, field>>

----------------------------------------------------------------------------
(* An assignment ends *)

\* succeeded: completed, then wrapUpAssignment.
HandleSucceeded(h, a) ==
  LET e == AssignmentEvent(a, "succeeded") IN
  /\ Starts(h, e)
  /\ SetAssignments({a}, "completed", {e})
  /\ Becomes(h, At("checkServices", a, "-"))
  /\ UNCHANGED <<mission, service_requests, released, field>>

\* canceling: the agent is told to stop ...
HandleAssignmentCanceling(h, a) ==
  LET e == AssignmentEvent(a, "canceling") IN
  /\ Starts(h, e)
  /\ TakeAndLeave({e}, {})
  /\ agent' = [agent EXCEPT ![a] = IF @ = "working" THEN "stopping" ELSE @]
  /\ Becomes(h, At("markCanceled", a, "-"))
  /\ UNCHANGED <<mission, service_requests, assignments, released, sent, done>>

\* ... and the row is canceled, without waiting for the agent.
MarkCanceled(h) ==
  /\ IsAt(h, "markCanceled")
  /\ SetAssignments({handler[h].row}, "canceled", {})
  /\ Becomes(h, Idle)
  /\ UNCHANGED <<mission, service_requests, released, field>>

\* canceled: wrapUpAssignment.
HandleCanceled(h, a) ==
  LET e == AssignmentEvent(a, "canceled") IN
  /\ Starts(h, e)
  /\ TakeAndLeave({e}, {})
  /\ Becomes(h, At("checkServices", a, "-"))
  /\ UNCHANGED <<mission, service_requests, assignments, released, field>>

\* failed, aborted, rejected: the action of the assignment or of the mission.
\* RELEASE differs from CONTINUE in what the agent is sent and in the new
\* mission it may insert, which are not of this mission.
HandleAssignmentFailure(h, a) ==
  \E s \in {"failed", "aborted", "rejected"} :
    LET e == AssignmentEvent(a, s) IN
    /\ Starts(h, e)
    /\ TakeAndLeave({e}, {})
    /\ Becomes(h, At(IF a \in Continues THEN "checkServices" ELSE "failMission", a, "-"))
    /\ UNCHANGED <<mission, service_requests, assignments, released, field>>

\* Mutant of FailMission: whatever the mission's status is.
FailMissionMutant(h) ==
  /\ IsAt(h, "failMission")
  /\ SetMission("assignment_failed", {})
  /\ Becomes(h, Idle)
  /\ UNCHANGED <<service_requests, assignments, released, field>>

FailMission(h) ==
  /\ IsAt(h, "failMission")
  /\ SetMissionWhere(RunningMission, "assignment_failed", {})
  /\ Becomes(h, Idle)
  /\ UNCHANGED <<service_requests, assignments, released, field>>

----------------------------------------------------------------------------
(* wrapUpAssignment: is the mission completed? what comes next? *)

CheckServices(h) ==
  LET remaining == {r \in RequestsIn(UncompletedService) : ~service_requests[r].processed} IN
  /\ IsAt(h, "checkServices")
  /\ Becomes(h, At(IF remaining = {} THEN "checkAssignments" ELSE "listNextAssignments",
                   handler[h].row, "-"))
  /\ UNCHANGED <<mission, service_requests, assignments, events_queue, released, field>>

\* Mutant of CheckAssignments: assignments that wait for their order are forgotten.
CheckAssignmentsMutant(h) ==
  /\ IsAt(h, "checkAssignments")
  /\ Becomes(h, At(IF AssignmentsIn(AfterDispatch) = {}
                     THEN "completeMission" ELSE "listNextAssignments",
                   handler[h].row, "-"))
  /\ UNCHANGED <<mission, service_requests, assignments, events_queue, released, field>>

CheckAssignments(h) ==
  /\ IsAt(h, "checkAssignments")
  /\ Becomes(h, At(IF AssignmentsIn(UncompleteAssignment) = {}
                     THEN "completeMission" ELSE "listNextAssignments",
                   handler[h].row, "-"))
  /\ UNCHANGED <<mission, service_requests, assignments, events_queue, released, field>>

CompleteMission(h) ==
  /\ IsAt(h, "completeMission")
  /\ SetMissionWhere(UncompleteMission, "assignments_completed", {})
  /\ Becomes(h, At("listNextAssignments", handler[h].row, "-"))
  /\ UNCHANGED <<service_requests, assignments, released, field>>

\* activateNextAssignmentInPipeline reads the next assignments ...
ListNextAssignments(h) ==
  LET a == handler[h].row
      next == {b \in NextAsg[a] : assignments[b] # "canceled"}
      mark(b) == IF DependsAsg[b] = {} THEN "to_dispatch" ELSE "wait_dependencies"
  IN
  /\ IsAt(h, "listNextAssignments")
  /\ Becomes(h, IF next = {} THEN Idle
                ELSE [At("activate", a, "-") EXCEPT
                        !.todo = [x \in Row |-> IF x \in next THEN mark(x) ELSE "-"]])
  /\ UNCHANGED <<mission, service_requests, assignments, events_queue, released, field>>

\* ... and updates each of them, whatever it has become.
ActivateAssignment(h, b) ==
  /\ IsAt(h, "activate")
  /\ handler[h].todo[b] # "-"
  /\ SetAssignments({b}, handler[h].todo[b], {})
  /\ DoneWith(h, b, Idle)
  /\ UNCHANGED <<mission, service_requests, released, field>>

\* waitForAssigmentsDependencies: a waiting assignment whose dependencies are
\* all completed ...
FindUnblocked(h, b) ==
  /\ IsAt(h, "idle")
  /\ assignments[b] = "wait_dependencies"
  /\ \A a \in DependsAsg[b] : assignments[a] = "completed"
  /\ Becomes(h, At("unblock", b, "-"))
  /\ UNCHANGED <<mission, service_requests, assignments, events_queue, released, field>>

\* Mutant of Unblock: whatever the assignment has become.
UnblockMutant(h) ==
  /\ IsAt(h, "unblock")
  /\ SetAssignments({handler[h].row}, "to_dispatch", {})
  /\ Becomes(h, Idle)
  /\ UNCHANGED <<mission, service_requests, released, field>>

\* ... is dispatched if it still waits.
Unblock(h) ==
  /\ IsAt(h, "unblock")
  /\ SetAssignments({b \in {handler[h].row} : assignments[b] = "wait_dependencies"},
                    "to_dispatch", {})
  /\ Becomes(h, Idle)
  /\ UNCHANGED <<mission, service_requests, released, field>>

----------------------------------------------------------------------------
Ordering(h) ==
  \/ SendOrder(h) \/ OrderFails(h) \/ SaveOrderFailure(h) \/ MarkExecuting(h)
  \/ SaveReport(h) \/ SaveReportWhere(h) \/ MarkCanceled(h)

WrappingUp(h) ==
  \/ CheckServices(h) \/ CheckAssignments(h) \/ CompleteMission(h) \/ FailMission(h)
  \/ ListNextAssignments(h) \/ Unblock(h)
  \/ \E b \in Asg : ActivateAssignment(h, b)

\* A computation in flight takes its next step.
Continue(h) == Ordering(h) \/ WrappingUp(h)

\* An event of the queue is handled.
Handle(h) ==
  \E a \in Asg : \/ HandleToDispatch(h, a) \/ HandleSucceeded(h, a) \/ HandleCanceled(h, a)
                 \/ HandleAssignmentCanceling(h, a) \/ HandleAssignmentFailure(h, a)

\* A tick of the watcher.
Watch(h) == \E b \in Asg : FindUnblocked(h, b)

MissionEnds(h) == WorkProcessHandler(h) /\ UNCHANGED field

\* Mutant of FirstGroup: all groups at once.
FirstGroupMutant == Asg

\* The rows that createAssignment leaves: the first group is to be dispatched.
FirstGroup == {a \in Asg : DependsAsg[a] = {}}

Init ==
  /\ mission = "executing"
  /\ service_requests = [r \in Req |->
       [status |-> "ready", processed |-> TRUE, assignment_dispatched |-> TRUE, excluded |-> {}]]
  /\ assignments = [a \in Asg |->
       IF a \in FirstGroup THEN "to_dispatch" ELSE "not_ready_to_dispatch"]
  /\ events_queue = [e \in Event |->
       IF e \in {AssignmentEvent(a, "to_dispatch") : a \in FirstGroup} THEN 1 ELSE 0]
  /\ handler = [h \in Handler |-> Idle]
  /\ released = 0
  /\ sent = [a \in Asg |-> 0]
  /\ agent = [a \in Asg |-> "none"]
  /\ done = {}

Next ==
  \/ UserCancels /\ UNCHANGED field
  \/ \E h \in Handler : \/ Continue(h) \/ Handle(h) \/ Watch(h) \/ MissionEnds(h)
                        \/ \E a \in Asg : AgentReports(h, a)

Spec == Init /\ [][Next]_asgVars

(* Fairness.  Computations go on, events are notified and the watcher's     *)
(* timer ticks.                                                             *)
CoreFairness ==
  /\ \A h \in Handler : /\ WF_asgVars(Continue(h))
                         /\ WF_asgVars(Handle(h))
                         /\ WF_asgVars(MissionEnds(h))
  /\ \A a \in Asg : WF_asgVars(\E h \in Handler : FindUnblocked(h, a))

CoreFairSpec == Spec /\ CoreFairness

\* An agent, moreover, reports the end of what it was ordered to do.
AgentEnds(a) ==
  \E h \in Handler : AgentReports(h, a) /\ agent'[a] = "over"

FairSpec == CoreFairSpec /\ \A a \in Asg : WF_asgVars(AgentEnds(a))

----------------------------------------------------------------------------
(* Properties *)

\* Types of the shared tables, of the computations in flight and of the field.
TypeOK ==
  /\ mission \in MissionStatus
  /\ service_requests \in [Req -> RequestRow]
  /\ assignments \in [Asg -> AssignmentStatus \cup {"absent"}]
  /\ events_queue \in [Event -> Nat]
  /\ handler \in [Handler -> [pc: {"idle"} \cup WorkProcessPc \cup AssignmentPc,
                             row: Asg \cup {NoRow}, val: Mark, todo: [Row -> Mark]]]
  /\ released \in Nat
  /\ sent \in [Asg -> Nat]
  /\ agent \in [Asg -> AgentState]
  /\ done \subseteq Asg

\* No agent gets an order before the agents of all the assignments it depends
\* on have carried out theirs: the unconditional updates of
\* activateNextAssignmentInPipeline, the watcher and late reports, in any
\* interleaving.
SentAfterDependencies ==
  \A a \in Asg : sent[a] > 0 => DependsAsg[a] \subseteq done

\* The mission is completed only when no agent is at work for it and no
\* assignment waits for its first order, canceled ones apart:
\* assignmentUpdatesMissionStatus looks at the whole mission, at one moment,
\* and writes at a later one.
NoEarlyCompletion ==
  mission \in {"assignments_completed", "succeeded"} =>
    \A a \in Asg :
      assignments[a] # "canceled" => /\ agent[a] \notin {"working", "stopping"}
                                     /\ agent[a] = "none" => assignments[a] \notin BeforeDispatch

\* A mission's outcome is final, also when late reports of agents and the
\* wrap-up of other assignments are still in flight.
OutcomeIsFinal ==
  [][(mission \in {"succeeded", "failed", "canceled"}) => (mission' = mission)]_asgVars

\* Each assignment is ordered once.
SentOnce == \A a \in Asg : sent[a] <= 1

\* An assignment's status goes through the cycle of data_models.ts:
\* "TO_DISPATCH => EXECUTING => SUCCEEDED => COMPLETED", never back.
AssignmentCycle ==
  [][\A a \in Asg :
       /\ assignments[a] \in {"executing", "active"} =>
            assignments'[a] \notin {"to_dispatch", "wait_dependencies"}
       /\ assignments[a] \in {"succeeded", "completed"} =>
            assignments'[a] \notin {"to_dispatch", "wait_dependencies", "executing", "active"}
    ]_asgVars

\* The agents are released once, after the outcome of the mission.
ReleasedAtEnd ==
  released > 0 => released = 1 /\ mission \in {"succeeded", "failed", "canceled"}

\* The mission ends and lets its agents go: no interleaving of reports,
\* failures and a cancel loses the step that ends it.
MissionTerminates ==
  <>(mission \in {"succeeded", "failed", "canceled"} /\ released > 0)

\* "Mission is canceled by app -> Agent must cancel assignment": an agent that
\* works for a canceled mission is told to stop.
CancelReachesAgent ==
  \A a \in Asg : (mission = "canceled" /\ agent[a] = "working")
                   ~> (agent[a] # "working")
=============================================================================
