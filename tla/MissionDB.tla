------------------------------ MODULE MissionDB ------------------------------
(***************************************************************************)
(* What the handlers of helyOS core share while they run one mission: its  *)
(* rows in the tables work_processes, service_requests and assignments,    *)
(* the events_queue that the SQL triggers fill, and the asynchronous       *)
(* computations in flight in the node processes.                           *)
(*                                                                         *)
(* A step is one SQL statement of one computation: every await of the code *)
(* lets the statements of other computations in.  A statement and the      *)
(* events of its triggers commit together.  An event is popped by a        *)
(* `DELETE ... LIMIT 1' without ORDER BY and its handler is not awaited,   *)
(* so events are handled in any order and handlers overlap; a handler's    *)
(* first statement is the step that takes its event, because a popped      *)
(* event that has done nothing is not distinguishable from a queued one.   *)
(*                                                                         *)
(* Events no handler reacts to are not kept.  Payloads are reduced to what *)
(* the handlers read from them.                                            *)
(***************************************************************************)
EXTENDS Naturals, FiniteSets, DataModels

CONSTANTS
  Req,        \* service requests (rows of service_requests)
  Asg,        \* assignments (rows of assignments)
  Handler,    \* computations that may be in flight at the same time
  NoRow,      \* "no row": the id of events and computations about the mission
  NextReq,    \* next_request_to_dispatch_uids of each request
  DependsOn,  \* depend_on_requests of each request
  Planner,    \* requests whose result is turned into assignments
  Owner       \* service_request_id of each assignment

ASSUME RowAssumption == NoRow \notin Req \cup Asg /\ Req \cap Asg = {}
ASSUME PipelineAssumption == /\ NextReq \in [Req -> SUBSET Req]
                             /\ DependsOn \in [Req -> SUBSET Req]
                             /\ Planner \subseteq Req
                             /\ Owner \in [Asg -> Req]

VARIABLES
  mission,           \* work_processes.status of the mission
  service_requests,  \* rows of the mission, see RequestRow
  assignments,       \* status of each assignment row, "absent" before its INSERT
  events_queue,      \* how many copies of each event wait
  handler            \* what each computation in flight does next, see Task

dbVars == <<mission, service_requests, assignments, events_queue, handler>>

Row == Req \cup Asg

(* excluded: the steps that orchestration.allow_dependent_steps of the     *)
(* response leaves out; empty for no response and for no such field.       *)
RequestRow ==
  [status: ServiceStatus, processed: BOOLEAN, assignment_dispatched: BOOLEAN,
   excluded: SUBSET Req]

----------------------------------------------------------------------------
(* Events *)

MissionEvent(s) ==
  [channel |-> "work_processes_update", id |-> NoRow, status |-> s,
   assignment_dispatched |-> FALSE]

InsertionEvent(r) ==
  [channel |-> "service_requests_insertion", id |-> r,
   status |-> "ready_for_service", assignment_dispatched |-> FALSE]

RequestEvent(r, s, d) ==
  [channel |-> "service_requests_update", id |-> r, status |-> s,
   assignment_dispatched |-> d]

AssignmentEvent(a, s) ==
  [channel |-> "assignments_status_update", id |-> a, status |-> s,
   assignment_dispatched |-> FALSE]

\* The events some handler reacts to.
HandledMission == {"canceling", "assignment_failed", "planning_failed",
                   "assignments_completed"}
HandledRequest == {"ready_for_service", "ready", "failed", "time-out"}
HandledAssignment == {"to_dispatch", "canceling", "succeeded", "canceled",
                      "failed", "aborted", "rejected"}

Event ==
  {MissionEvent(s) : s \in HandledMission}
    \cup {InsertionEvent(r) : r \in Req}
    \cup {RequestEvent(r, s, d) : r \in Req, s \in HandledRequest, d \in BOOLEAN}
    \cup {AssignmentEvent(a, s) : a \in Asg, s \in HandledAssignment}

Queued(e) == e \in Event /\ events_queue[e] > 0

\* One statement: take the events `taken' (of the handler that starts with
\* it) and leave those its triggers write.
TakeAndLeave(taken, left) ==
  events_queue' = [e \in Event |->
                     (IF e \in taken THEN events_queue[e] - 1 ELSE events_queue[e])
                       + (IF e \in left THEN 1 ELSE 0)]

----------------------------------------------------------------------------
(* Statements.  Each names the events its handler takes with it. *)

\* UPDATE work_processes: the trigger reports a status that is distinct.
SetMission(s, taken) ==
  /\ mission' = s
  /\ TakeAndLeave(taken, IF s = mission THEN {} ELSE {MissionEvent(s)})

\* updateByConditions({id, status__in: allowed}, {status: s})
SetMissionWhere(allowed, s, taken) ==
  IF mission \in allowed
    THEN SetMission(s, taken)
    ELSE TakeAndLeave(taken, {}) /\ UNCHANGED mission

\* UPDATE service_requests: the trigger reports every updated row.
WriteRequests(rows, new, taken) ==
  /\ service_requests' = [r \in Req |-> IF r \in rows THEN new[r] ELSE service_requests[r]]
  /\ TakeAndLeave(taken, {RequestEvent(r, new[r].status, new[r].assignment_dispatched) : r \in rows})

WithStatus(s) == [r \in Req |-> [service_requests[r] EXCEPT !.status = s]]

\* updateByConditions({id: r, status__in: allowed}, {status: s})
SetRequestWhere(r, allowed, s, taken) ==
  WriteRequests({q \in {r} : service_requests[q].status \in allowed}, WithStatus(s), taken)

\* UPDATE assignments: the trigger reports a status that is distinct.
SetAssignments(rows, s, taken) ==
  /\ assignments' = [a \in Asg |-> IF a \in rows THEN s ELSE assignments[a]]
  /\ TakeAndLeave(taken, {AssignmentEvent(a, s) : a \in {b \in rows : assignments[b] # s}})

AssignmentsIn(S) == {a \in Asg : assignments[a] \in S}
RequestsIn(S) == {r \in Req : service_requests[r].status \in S}

----------------------------------------------------------------------------
(* Computations in flight.  `pc' names the statement to come, `row' the    *)
(* row it is about, `val' a value read or received before an await and     *)
(* used after it, and `todo' the rows the computation still has to write,  *)
(* with the status it holds for each of them ("-" for none).               *)

Mark == {"-"} \cup MissionStatus \cup ServiceStatus \cup AssignmentStatus
NoTodo == [x \in Row |-> "-"]

Idle == [pc |-> "idle", row |-> NoRow, val |-> "-", todo |-> NoTodo]

At(pc, row, val) == [pc |-> pc, row |-> row, val |-> val, todo |-> NoTodo]

IsAt(h, pc) == handler[h].pc = pc

Becomes(h, task) == handler' = [handler EXCEPT ![h] = task]

Starts(h, e) == IsAt(h, "idle") /\ Queued(e)

Todo(h) == {x \in Row : handler[h].todo[x] # "-"}

\* The computation is finished with row x of its list.
DoneWith(h, x, whenEmpty) ==
  Becomes(h, IF Todo(h) \subseteq {x}
               THEN whenEmpty
               ELSE [handler[h] EXCEPT !.todo[x] = "-"])
=============================================================================
