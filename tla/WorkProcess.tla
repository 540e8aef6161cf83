----------------------------- MODULE WorkProcess -----------------------------
(***************************************************************************)
(* The end of a mission: the handlers of work_processes_update events      *)
(* (workprocess_db_events_handler.ts), the cleanup they run                *)
(* (assignment_orchestration.ts), and the user who cancels the mission.    *)
(* The pipelines that lead a mission here are in ServicePipeline and       *)
(* AssignmentPipeline.                                                     *)
(***************************************************************************)
EXTENDS MissionDB

CONSTANT Cancelable   \* statuses the mission may have when the user's cancel arrives

ASSUME CancelableAssumption ==
  Cancelable \subseteq {"preparing resources", "calculating", "executing",
                        "assignments_completed"}

VARIABLE released     \* how many times the mission's agents were sent a release

wpVars == <<dbVars, released>>

\* The statements of the end-of-mission handlers.
WorkProcessPc == {"endMission", "cancelRequests", "cancelWaitingAssignments",
                  "cancelRunningAssignments", "onWorkProcessEnd"}

\* The requests and the assignments that a mission's end cancels.
CancelableRequest == {"not_ready_for_service", "ready_for_service",
                      "dispatching_service", "wait_dependencies", "pending"}

----------------------------------------------------------------------------
\* The user or a client application writes `canceling' into the row.
UserCancels ==
  /\ mission \in Cancelable
  /\ SetMission("canceling", {})
  /\ UNCHANGED <<service_requests, assignments, handler, released>>

\* canceling: CANCELING -> CANCELED if it still is; the cleanup follows
\* whether or not the update found the row.
HandleCanceling(h) ==
  LET e == MissionEvent("canceling") IN
  /\ Starts(h, e)
  /\ SetMissionWhere({"canceling"}, "canceled", {e})
  /\ Becomes(h, At("cancelRequests", NoRow, "canceling"))
  /\ UNCHANGED <<service_requests, assignments, released>>

\* assignment_failed, planning_failed: -> FAILED if it still is, then cleanup.
HandleFailure(h) ==
  \E s \in {"assignment_failed", "planning_failed"} :
    LET e == MissionEvent(s) IN
    /\ Starts(h, e)
    /\ SetMissionWhere({s}, "failed", {e})
    /\ Becomes(h, At("cancelRequests", NoRow, s))
    /\ UNCHANGED <<service_requests, assignments, released>>

\* assignments_completed: the outcome depends on whether the mission has
\* canceled assignments at this moment ...
HandleCompleted(h) ==
  LET e == MissionEvent("assignments_completed") IN
  /\ Starts(h, e)
  /\ TakeAndLeave({e}, {})
  /\ Becomes(h, At("endMission", NoRow,
                   IF AssignmentsIn({"canceled"}) # {} THEN "canceled" ELSE "succeeded"))
  /\ UNCHANGED <<mission, service_requests, assignments, released>>

\* Mutant of EndMission: written only while the mission runs.
EndMissionMutant(h) ==
  /\ IsAt(h, "endMission")
  /\ SetMissionWhere(RunningMission, handler[h].val, {})
  /\ Becomes(h, At("onWorkProcessEnd", NoRow, handler[h].val))
  /\ UNCHANGED <<service_requests, assignments, released>>

\* ... and is written unconditionally at a later one.
EndMission(h) ==
  /\ IsAt(h, "endMission")
  /\ SetMission(handler[h].val, {})
  /\ Becomes(h, At("onWorkProcessEnd", NoRow, handler[h].val))
  /\ UNCHANGED <<service_requests, assignments, released>>

CancelRequests(h) ==
  /\ IsAt(h, "cancelRequests")
  /\ WriteRequests(RequestsIn(CancelableRequest), WithStatus("canceled"), {})
  /\ Becomes(h, At("cancelWaitingAssignments", NoRow, handler[h].val))
  /\ UNCHANGED <<mission, assignments, released>>

\* cancelWorkProcessAssignments: what no agent has seen is canceled at once ...
CancelWaitingAssignments(h) ==
  /\ IsAt(h, "cancelWaitingAssignments")
  /\ SetAssignments(AssignmentsIn(BeforeDispatch), "canceled", {})
  /\ Becomes(h, At("cancelRunningAssignments", NoRow, handler[h].val))
  /\ UNCHANGED <<mission, service_requests, released>>

\* ... what an agent executes is canceled through the agent.
CancelRunningAssignments(h) ==
  /\ IsAt(h, "cancelRunningAssignments")
  /\ SetAssignments(AssignmentsIn(AfterDispatch), "canceling", {})
  /\ Becomes(h, At("onWorkProcessEnd", NoRow, handler[h].val))
  /\ UNCHANGED <<mission, service_requests, released>>

\* The agents of the mission are released (the mission is in no queue).
OnWorkProcessEnd(h) ==
  /\ IsAt(h, "onWorkProcessEnd")
  /\ released' = released + 1
  /\ Becomes(h, Idle)
  /\ UNCHANGED <<mission, service_requests, assignments, events_queue>>

WorkProcessHandler(h) ==
  \/ HandleCanceling(h) \/ HandleFailure(h) \/ HandleCompleted(h)
  \/ EndMission(h) \/ CancelRequests(h) \/ CancelWaitingAssignments(h)
  \/ CancelRunningAssignments(h) \/ OnWorkProcessEnd(h)
=============================================================================
