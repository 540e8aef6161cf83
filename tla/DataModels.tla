----------------------------- MODULE DataModels -----------------------------
(***************************************************************************)
(* The status enumerations of helyOS core (modules/data_models.ts) and the *)
(* groups of statuses by which the orchestration decides what is finished. *)
(***************************************************************************)

MissionStatus ==
  {"draft", "dispatched", "preparing resources", "calculating", "executing",
   "assignments_completed", "succeeded", "assignment_failed",
   "planning_failed", "failed", "canceling", "canceled"}

ServiceStatus ==
  {"not_ready_for_service", "ready_for_service", "pending", "failed",
   "time-out", "canceled", "skipped", "ready", "wait_dependencies",
   "dispatching_service"}

AssignmentStatus ==
  {"to_dispatch", "executing", "succeeded", "completed", "rejected",
   "failed", "aborted", "canceling", "canceled", "wait_dependencies",
   "not_ready_to_dispatch", "active"}

\* UNCOMPLETE_ASSIGNM_BEFORE_DISPATCH and UNCOMPLETE_ASSIGNM_AFTER_DISPATCH
BeforeDispatch == {"to_dispatch", "not_ready_to_dispatch", "wait_dependencies"}
AfterDispatch  == {"executing", "active"}

\* UNCOMPLETE_ASSIGNM_STATUSES: the agent still has something to do.  Neither
\* "canceling" nor "succeeded" is in the list.
UncompleteAssignment == BeforeDispatch \cup AfterDispatch

\* UNCOMPLETE_MISSION_STATUS: "canceling" counts as uncomplete.
UncompleteMission ==
  {"draft", "dispatched", "preparing resources", "canceling", "calculating",
   "executing"}

\* UNCOMPLETED_SERVICE_STATUS: "ready" is in the list, "not_ready_for_service"
\* and "ready_for_service" are not.
UncompletedService ==
  {"dispatching_service", "pending", "ready", "wait_dependencies"}

\* The statuses in which handlers let a mission complete or fail: the
\* status__in list that almost every conditional mission update repeats.
RunningMission == {"preparing resources", "calculating", "executing"}
=============================================================================
