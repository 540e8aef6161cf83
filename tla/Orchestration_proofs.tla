------------------------ MODULE Orchestration_proofs ------------------------
(***************************************************************************)
(* What Orchestration keeps, for every recipe, every plan and every number *)
(* of computations:                                                        *)
(*   - the state is typed (TypeCorrect);                                   *)
(*   - no service is called before those it depends on answered, and no    *)
(*     agent gets an assignment of a planner that did not                  *)
(*     (PlanFollowed);                                                     *)
(*   - a service that waits for the assignments of a planner is called     *)
(*     after agents have carried out all of them, if the planner is a      *)
(*     first step and the service is the next of no other one              *)
(*     (AssignmentsFirst).                                                 *)
(*                                                                         *)
(* The proofs go in layers.  Every action is reduced to a Step: what a     *)
(* step may do about each request (Advance) and about the assignments      *)
(* (AssignmentsAdvance), in terms of the rows, the queued events and the   *)
(* task of the computation that takes it.  The two invariants, InOrder and *)
(* Waits, are then shown from Step alone.                                  *)
(***************************************************************************)
EXTENDS Orchestration, TLAPS

----------------------------------------------------------------------------
(* Each pipeline has its own copy of the statements of MissionDB; they are  *)
(* the same.                                                                *)

\* The events, the tasks and the rows.
LEMMA SameTerms ==
  /\ \A r, s, d : RequestEvent(r, s, d) = Svc!RequestEvent(r, s, d)
  /\ \A s : MissionEvent(s) = Svc!MissionEvent(s)
  /\ \A r : InsertionEvent(r) = Svc!InsertionEvent(r)
  /\ \A a, s : AssignmentEvent(a, s) = Svc!AssignmentEvent(a, s)
  /\ \A r, s, d : RequestEvent(r, s, d) = Asm!RequestEvent(r, s, d)
  /\ \A s : MissionEvent(s) = Asm!MissionEvent(s)
  /\ \A r : InsertionEvent(r) = Asm!InsertionEvent(r)
  /\ \A a, s : AssignmentEvent(a, s) = Asm!AssignmentEvent(a, s)
  /\ Svc!Idle = Idle /\ Asm!Idle = Idle
  /\ \A pc, row, val : Svc!At(pc, row, val) = At(pc, row, val) /\ Asm!At(pc, row, val) = At(pc, row, val)
  /\ \A S : Svc!AssignmentsIn(S) = AssignmentsIn(S)
  /\ \A s : Svc!WithStatus(s) = WithStatus(s)
  /\ Svc!Row = Row /\ Asm!Row = Row
BY DEF RequestEvent, MissionEvent, InsertionEvent, AssignmentEvent,
       Svc!RequestEvent, Svc!MissionEvent, Svc!InsertionEvent, Svc!AssignmentEvent,
       Asm!RequestEvent, Asm!MissionEvent, Asm!InsertionEvent, Asm!AssignmentEvent,
       Idle, Svc!Idle, Asm!Idle, At, Svc!At, Asm!At, NoTodo, Svc!NoTodo, Asm!NoTodo,
       Row, Svc!Row, Asm!Row, AssignmentsIn, Svc!AssignmentsIn, WithStatus, Svc!WithStatus

\* The events the queue may hold.
LEMMA SameEvents == Svc!Event = Event /\ Asm!Event = Event
BY SameTerms DEF Event, HandledMission, HandledRequest, HandledAssignment,
   Svc!Event, Svc!HandledMission, Svc!HandledRequest, Svc!HandledAssignment,
   Asm!Event, Asm!HandledMission, Asm!HandledRequest, Asm!HandledAssignment

\* The queue.
LEMMA SameQueue ==
  ASSUME NEW taken, NEW left, NEW e
  PROVE  /\ Svc!TakeAndLeave(taken, left) <=> TakeAndLeave(taken, left)
         /\ Asm!TakeAndLeave(taken, left) <=> TakeAndLeave(taken, left)
         /\ Svc!Queued(e) <=> Queued(e)
         /\ Asm!Queued(e) <=> Queued(e)
BY SameEvents DEF TakeAndLeave, Svc!TakeAndLeave, Asm!TakeAndLeave, Queued, Svc!Queued, Asm!Queued

\* The statements on the mission and on the assignments.
LEMMA SameMission ==
  ASSUME NEW s, NEW allowed, NEW taken
  PROVE  /\ Svc!SetMission(s, taken) <=> SetMission(s, taken)
         /\ Asm!SetMission(s, taken) <=> SetMission(s, taken)
         /\ Svc!SetMissionWhere(allowed, s, taken) <=> SetMissionWhere(allowed, s, taken)
         /\ Asm!SetMissionWhere(allowed, s, taken) <=> SetMissionWhere(allowed, s, taken)
BY SameTerms, SameQueue
DEF SetMission, Svc!SetMission, Asm!SetMission, SetMissionWhere, Svc!SetMissionWhere, Asm!SetMissionWhere

\* The statement on the assignments.
LEMMA SameAssignments ==
  ASSUME NEW rows, NEW s, NEW taken
  PROVE  Asm!SetAssignments(rows, s, taken) <=> SetAssignments(rows, s, taken)
BY SameTerms, SameQueue DEF SetAssignments, Asm!SetAssignments

\* The statement on the requests.
LEMMA SameRequests ==
  ASSUME NEW rows, NEW new, NEW taken
  PROVE  Svc!WriteRequests(rows, new, taken) <=> WriteRequests(rows, new, taken)
<1>1. \A r \in rows : Svc!RequestEvent(r, new[r].status, new[r].assignment_dispatched)
                        = RequestEvent(r, new[r].status, new[r].assignment_dispatched)
  BY SameTerms
<1>2. {Svc!RequestEvent(r, new[r].status, new[r].assignment_dispatched) : r \in rows}
        = {RequestEvent(r, new[r].status, new[r].assignment_dispatched) : r \in rows}
  BY <1>1
<1> QED
  BY <1>2, SameQueue DEF WriteRequests, Svc!WriteRequests

\* Starting on an event, and going on.
LEMMA SameTasks ==
  ASSUME NEW h, NEW t, NEW e, NEW pc
  PROVE  /\ Svc!Starts(h, e) <=> handler[h].pc = "idle" /\ Queued(e)
         /\ Asm!Starts(h, e) <=> handler[h].pc = "idle" /\ Queued(e)
         /\ Starts(h, e) <=> handler[h].pc = "idle" /\ Queued(e)
         /\ Svc!Becomes(h, t) <=> Becomes(h, t)
         /\ Asm!Becomes(h, t) <=> Becomes(h, t)
         /\ Svc!IsAt(h, pc) <=> handler[h].pc = pc
         /\ Asm!IsAt(h, pc) <=> handler[h].pc = pc
         /\ IsAt(h, pc) <=> handler[h].pc = pc
BY SameQueue DEF Svc!Starts, Asm!Starts, Starts, Svc!IsAt, Asm!IsAt, IsAt, Svc!Becomes, Asm!Becomes, Becomes

----------------------------------------------------------------------------
(* Places and types *)

\* A computation in flight holds a row and values that its statement can
\* write: what TypeOK does not say of it.
TaskOK(t) ==
  /\ t.pc \in Svc!RequestPc => t.row \in Req
  /\ t.pc \in {"markPending", "saveResponse"} => t.val \in {"ready", "pending", "failed", "canceled"}
  /\ t.pc = "endMission" => t.val \in {"canceled", "succeeded"}
  /\ t.pc = "updateNext" =>
       \A q \in Req : /\ t.todo[q] \in {"-", "not_ready_for_service", "skipped",
                                        "wait_dependencies", "ready_for_service"}
                      /\ t.todo[q] # "-" => q \in NextReq[t.row]
  /\ t.pc \in Asm!AssignmentPc => t.row \in Asg
  /\ t.pc = "activate" =>
       \A b \in Asg : /\ t.todo[b] \in {"-", "to_dispatch", "wait_dependencies"}
                      /\ t.todo[b] # "-" => Owner[b] = Owner[t.row]
  /\ t.pc = "saveReport" => t.val \in {"canceled", "aborted", "failed"}
  /\ t.pc = "saveReportWhere" => t.val \in Reports
  /\ t.pc \in PlanPc => t.row \in Planner
  /\ t.pc \in {"dispatchPlan", "reorderPlan"} =>
       \A a \in Asg : /\ t.todo[a] \in {"-", "to_dispatch", "not_ready_to_dispatch"}
                      /\ t.todo[a] # "-" => Owner[a] = t.row

\* The statements of all computations.
Pc == {"idle"} \cup WorkProcessPc \cup Svc!ServicePc \cup Asm!AssignmentPc \cup PlanPc

\* A task, whatever its statement.
AnyTask == [pc: Pc, row: Row \cup {NoRow}, val: Mark \cup {"error"} \cup DispatchModes, todo: [Row -> Mark]]

\* The state is typed, and so are the jobs.
Typed ==
  /\ TypeOK
  /\ calls \in [Req -> Nat]
  /\ \A h \in Handler : TaskOK(handler[h])
  /\ Handler # {}

\* What the invariant says of the computation that takes a step.
LEMMA TypedTask ==
  ASSUME Typed, NEW h \in Handler
  PROVE  TypeOK /\ handler[h] \in AnyTask /\ TaskOK(handler[h])
BY DEF Typed, TypeOK, AnyTask, Pc

\* One computation takes the step, the others wait.
Others(h) == \A g \in Handler : g # h => handler'[g] = handler[g]

\* What a computation becomes, it is.
LEMMA OneMoves ==
  ASSUME Typed, NEW h \in Handler, NEW t, Becomes(h, t)
  PROVE  Others(h) /\ handler'[h] = t /\ (t \in AnyTask => handler' \in [Handler -> AnyTask])
BY DEF Typed, TypeOK, Becomes, Others, AnyTask, Pc

----------------------------------------------------------------------------
(* What one statement does to the tables and to the queue *)

\* The two columns of a request the proofs speak of.
Status(r) == service_requests[r].status
Flag(r) == service_requests[r].assignment_dispatched

\* The events that have request r dispatched, and those that report its result.
Asked(r) == {InsertionEvent(r)} \cup {RequestEvent(r, "ready_for_service", d) : d \in BOOLEAN}
Ready(r, d) == RequestEvent(r, "ready", d)
News(r) == Asked(r) \cup {Ready(r, d) : d \in BOOLEAN}

\* The events are distinct and in the queue's domain.
LEMMA NewsFacts ==
  ASSUME NEW r \in Req
  PROVE  /\ News(r) \subseteq Event
         /\ \A d \in BOOLEAN : Ready(r, d) \in Event /\ Ready(r, d) \in News(r) /\ Ready(r, d) \notin Asked(r)
         /\ Ready(r, TRUE) # Ready(r, FALSE)
         /\ \A e \in News(r) : e.channel \in {"service_requests_update", "service_requests_insertion"} /\ e.id = r
<1>1. InsertionEvent(r) \in Event /\ \A s \in HandledRequest, d \in BOOLEAN : RequestEvent(r, s, d) \in Event
  BY DEF Event
<1>2. News(r) \subseteq Event
  BY <1>1 DEF News, Asked, Ready, HandledRequest
<1>3. \A d \in BOOLEAN : Ready(r, d) \in News(r)
  BY DEF News
<1>4. \A d \in BOOLEAN : Ready(r, d) \notin Asked(r)
  BY DEF Asked, Ready, RequestEvent, InsertionEvent
<1>5. Ready(r, TRUE) # Ready(r, FALSE)
  BY DEF Ready, RequestEvent
<1>6. \A e \in News(r) : e.channel \in {"service_requests_update", "service_requests_insertion"} /\ e.id = r
  BY DEF News, Asked, Ready, RequestEvent, InsertionEvent
<1> QED
  BY <1>2, <1>3, <1>4, <1>5, <1>6

\* The updates that are news of a request.
LEMMA UpdateNews ==
  ASSUME NEW r \in Req, NEW q, NEW s, NEW d, RequestEvent(q, s, d) \in News(r)
  PROVE  /\ q = r /\ s \in {"ready", "ready_for_service"}
         /\ s = "ready" => RequestEvent(q, s, d) = Ready(r, d)
         /\ s = "ready_for_service" => RequestEvent(q, s, d) \in Asked(r)
<1>1. RequestEvent(q, s, d).id = q /\ RequestEvent(q, s, d).status = s /\ RequestEvent(q, s, d).channel = "service_requests_update"
  BY DEF RequestEvent
<1>2. CASE RequestEvent(q, s, d) \in Asked(r)
  <2>1. s = "ready_for_service" /\ q = r
    BY <1>1, <1>2 DEF Asked, RequestEvent, InsertionEvent
  <2> QED
    BY <1>2, <2>1
<1>3. CASE \E f \in BOOLEAN : RequestEvent(q, s, d) = Ready(r, f)
  BY <1>1, <1>3 DEF Ready, RequestEvent
<1> QED
  BY <1>2, <1>3 DEF News

\* One event of the queue.
LEMMA Count ==
  ASSUME Typed, NEW taken, NEW left, \A f \in taken : Queued(f), TakeAndLeave(taken, left), NEW e \in Event
  PROVE  /\ events_queue[e] \in Nat /\ events_queue'[e] \in Nat
         /\ e \notin left => events_queue'[e] <= events_queue[e]
         /\ events_queue'[e] <= events_queue[e] + 1
         /\ e \in taken /\ e \notin left => events_queue'[e] = events_queue[e] - 1
<1>1. events_queue[e] \in Nat /\ (e \in taken => events_queue[e] > 0)
  BY DEF Typed, TypeOK, Queued
<1>2. events_queue'[e] = (IF e \in taken THEN events_queue[e] - 1 ELSE events_queue[e])
                           + (IF e \in left THEN 1 ELSE 0)
  BY DEF TakeAndLeave
<1> QED
  BY <1>1, <1>2

\* Taking queued events and leaving others keeps the queue a bag of events.
LEMMA QueueTyped ==
  ASSUME Typed, NEW taken, NEW left, \A e \in taken : Queued(e), TakeAndLeave(taken, left)
  PROVE  events_queue' \in [Event -> Nat]
<1>1. \A e \in Event : events_queue'[e] \in Nat
  BY Count
<1> QED
  BY <1>1 DEF TakeAndLeave

\* No news of requests and no event of assignments.
Quiet == \A e \in Event : e.channel # "work_processes_update" => events_queue'[e] <= events_queue[e]

\* A statement that leaves mission events at most.
LEMMA QuietQueue ==
  ASSUME Typed, NEW taken, NEW left, \A e \in taken : Queued(e), TakeAndLeave(taken, left),
         \A e \in left : e.channel = "work_processes_update"
  PROVE  Quiet /\ events_queue' \in [Event -> Nat]
<1>1. \A e \in Event : e.channel # "work_processes_update" => events_queue'[e] <= events_queue[e]
  BY Count
<1> QED
  BY <1>1, QueueTyped DEF Quiet

\* A step that leaves the queue alone.
LEMMA QuietSame ==
  ASSUME Typed, UNCHANGED events_queue
  PROVE  Quiet /\ events_queue' \in [Event -> Nat]
<1>1. \A e \in Event : events_queue[e] \in Nat
  BY DEF Typed, TypeOK
<1> QED
  BY <1>1 DEF Quiet, Typed, TypeOK

\* A statement on the mission queues no event about a row.
LEMMA QuietMission ==
  ASSUME Typed, NEW s \in MissionStatus, NEW allowed, NEW taken, \A e \in taken : Queued(e),
         SetMission(s, taken) \/ SetMissionWhere(allowed, s, taken)
  PROVE  Quiet /\ events_queue' \in [Event -> Nat] /\ mission' \in MissionStatus
<1>1. MissionEvent(s).channel = "work_processes_update"
  BY DEF MissionEvent
<1>2. CASE SetMission(s, taken)
  <2>1. PICK left : TakeAndLeave(taken, left) /\ \A e \in left : e.channel = "work_processes_update"
    BY <1>1, <1>2 DEF SetMission
  <2> QED
    BY <1>2, <2>1, QuietQueue DEF SetMission
<1>3. CASE ~SetMission(s, taken)
  <2>1. TakeAndLeave(taken, {}) /\ UNCHANGED mission
    BY <1>3 DEF SetMissionWhere
  <2>2. Quiet /\ events_queue' \in [Event -> Nat]
    BY <2>1, QuietQueue
  <2> QED
    BY <2>1, <2>2 DEF Typed, TypeOK
<1> QED
  BY <1>2, <1>3

\* What a statement on the requests does to one of them.
RowWritten(r, rows, new) ==
  /\ r \notin rows => /\ service_requests'[r] = service_requests[r]
                      /\ \A e \in News(r) : events_queue'[e] <= events_queue[e]
  /\ r \in rows => /\ service_requests'[r] = new[r]
                   /\ \A e \in News(r) : events_queue'[e] > events_queue[e] =>
                        /\ events_queue'[e] = events_queue[e] + 1
                        /\ new[r].status \in {"ready", "ready_for_service"}
                        /\ new[r].status = "ready" => e = Ready(r, new[r].assignment_dispatched)
                        /\ new[r].status = "ready_for_service" => e \in Asked(r)

\* The events of an assignment.
AsgNews(a) == {AssignmentEvent(a, s) : s \in HandledAssignment}

AsgQuiet == \A a \in Asg : \A e \in AsgNews(a) : events_queue'[e] <= events_queue[e]

\* They are distinct and in the queue's domain.
LEMMA AsgFacts ==
  ASSUME NEW a \in Asg
  PROVE  /\ AsgNews(a) \subseteq Event
         /\ \A e \in AsgNews(a) : e.channel = "assignments_status_update" /\ e.id = a
         /\ \A b, s : AssignmentEvent(b, s) \in AsgNews(a) => b = a /\ s \in HandledAssignment
<1>1. AsgNews(a) \subseteq Event
  BY DEF AsgNews, Event
<1>2. \A e \in AsgNews(a) : e.channel = "assignments_status_update" /\ e.id = a
  BY DEF AsgNews, AssignmentEvent
<1>3. ASSUME NEW b, NEW s, AssignmentEvent(b, s) \in AsgNews(a)
      PROVE  b = a /\ s \in HandledAssignment
  <2>1. PICK t \in HandledAssignment : AssignmentEvent(b, s) = AssignmentEvent(a, t)
    BY <1>3 DEF AsgNews
  <2>2. AssignmentEvent(b, s).id = b /\ AssignmentEvent(b, s).status = s
        /\ AssignmentEvent(a, t).id = a /\ AssignmentEvent(a, t).status = t
    BY DEF AssignmentEvent
  <2> QED
    BY <2>1, <2>2
<1> QED
  BY <1>1, <1>2, <1>3

\* A statement on the requests.
LEMMA RowsWritten ==
  ASSUME Typed, NEW rows \in SUBSET Req, NEW new, NEW taken, \A e \in taken : Queued(e),
         WriteRequests(rows, new, taken), \A r \in rows : new[r] \in RequestRow
  PROVE  /\ \A r \in Req : RowWritten(r, rows, new)
         /\ service_requests' \in [Req -> RequestRow]
         /\ events_queue' \in [Event -> Nat]
         /\ AsgQuiet
<1> DEFINE left == {RequestEvent(r, new[r].status, new[r].assignment_dispatched) : r \in rows}
<1>1. /\ service_requests' = [r \in Req |-> IF r \in rows THEN new[r] ELSE service_requests[r]]
      /\ TakeAndLeave(taken, left)
  BY DEF WriteRequests
<1>2. ASSUME NEW r \in Req, NEW e \in News(r), e \in left
      PROVE  /\ r \in rows /\ new[r].status \in {"ready", "ready_for_service"}
             /\ new[r].status = "ready" => e = Ready(r, new[r].assignment_dispatched)
             /\ new[r].status = "ready_for_service" => e \in Asked(r)
  <2>1. PICK q \in rows : e = RequestEvent(q, new[q].status, new[q].assignment_dispatched)
    BY <1>2
  <2>2. PICK s, d : s = new[q].status /\ d = new[q].assignment_dispatched
    OBVIOUS
  <2>3. RequestEvent(q, s, d) \in News(r) /\ e = RequestEvent(q, s, d)
    BY <1>2, <2>1, <2>2
  <2>4. /\ q = r /\ s \in {"ready", "ready_for_service"}
        /\ s = "ready" => e = Ready(r, d)
        /\ s = "ready_for_service" => e \in Asked(r)
    BY <2>3, UpdateNews
  <2> QED
    BY <2>2, <2>4
<1>3. \A e \in left : e.channel = "service_requests_update"
  BY DEF RequestEvent
<1> HIDE DEF left
<1>4. ASSUME NEW r \in Req
      PROVE  RowWritten(r, rows, new)
  <2>1. ASSUME NEW e \in News(r)
        PROVE  /\ events_queue[e] \in Nat /\ events_queue'[e] \in Nat
               /\ e \notin left => events_queue'[e] <= events_queue[e]
               /\ events_queue'[e] <= events_queue[e] + 1
    BY <1>1, <2>1, Count, NewsFacts
  <2>2. ASSUME NEW e \in News(r), events_queue'[e] > events_queue[e]
        PROVE  e \in left /\ events_queue'[e] = events_queue[e] + 1
    BY <2>1, <2>2
  <2>3. \A e \in News(r) : r \notin rows => events_queue'[e] <= events_queue[e]
    BY <1>2, <2>1
  <2> QED
    BY <1>1, <1>2, <2>2, <2>3 DEF RowWritten
<1>5. AsgQuiet
  <2> SUFFICES ASSUME NEW a \in Asg, NEW e \in AsgNews(a)
               PROVE  events_queue'[e] <= events_queue[e]
    BY DEF AsgQuiet
  <2>1. e \in Event /\ e \notin left
    BY <1>3, AsgFacts
  <2> QED
    BY <1>1, <2>1, Count
<1>6. service_requests' \in [Req -> RequestRow]
  BY <1>1 DEF Typed, TypeOK
<1> QED
  BY <1>1, <1>4, <1>5, <1>6, QueueTyped

\* One that is about something else.
RowSame(r) ==
  /\ service_requests'[r] = service_requests[r]
  /\ \A e \in News(r) : events_queue'[e] <= events_queue[e]

\* A step that writes neither requests nor events about them.
LEMMA RowsSame ==
  ASSUME Quiet, UNCHANGED service_requests
  PROVE  (\A r \in Req : RowSame(r)) /\ AsgQuiet
<1>1. \A r \in Req : \A e \in News(r) : events_queue'[e] <= events_queue[e]
  BY NewsFacts DEF Quiet
<1>2. AsgQuiet
  BY AsgFacts DEF Quiet, AsgQuiet
<1> QED
  BY <1>1, <1>2 DEF RowSame

----------------------------------------------------------------------------
(* What a step does about one request *)

\* Tasks that are about a request: it is dispatched, served, released; the
\* requests after it are listed; it is marked as the next of another; its
\* assignments are inserted, and what follows.
Dispatches(t, r) == t.pc \in {"claim", "select", "send"} /\ t.row = r
Serves(t, r) == t.pc \in {"markPending", "saveResponse"} /\ t.row = r
Frees(t, r) == t.pc = "release" /\ t.row = r
Lists(t, r) == t.pc \in {"listNext", "updateNext"} /\ t.row = r
Marks(t, r) == t.pc = "updateNext" /\ t.todo[r] # "-"
Inserts(t, r) == t.pc = "insertAssignments" /\ t.row = r
Plans(t, r) == t.pc \in PlanPc \ {"insertAssignments"} /\ t.row = r

RolePc == {"claim", "select", "send", "markPending", "saveResponse", "release",
           "listNext", "updateNext"} \cup PlanPc

\* The status of the row.
StatusMoves(r, h) ==
  LET old == service_requests[r].status
      new == service_requests'[r].status
      t == handler[h]
  IN \/ new = old \/ new \in {"failed", "canceled"}
     \/ old = "pending" /\ new = "time-out"
     \/ old = "ready_for_service" /\ new = "dispatching_service"
     \/ old = "dispatching_service" /\ new = "pending"
     \/ old \in Svc!Answerable /\ t.pc = "saveResponse" /\ t.row = r /\ new = t.val
     \/ Marks(t, r) /\ new = t.todo[r] /\ new \in {"skipped", "wait_dependencies", "ready_for_service"}
     \/ Frees(t, r) /\ old = "wait_dependencies" /\ new = "ready_for_service"

\* Its flag.
FlagMoves(r, h) ==
  LET new == service_requests'[r].assignment_dispatched IN
  \/ new = Flag(r)
  \/ ~new /\ Marks(handler[h], r)
  \/ new /\ Plans(handler[h], r)

\* The events.
EventsMove(r) ==
  /\ \A e \in Asked(r) : events_queue'[e] > events_queue[e] =>
       service_requests'[r].status = "ready_for_service"
  /\ \A d \in BOOLEAN : events_queue'[Ready(r, d)] > events_queue[Ready(r, d)] =>
       /\ events_queue'[Ready(r, d)] = events_queue[Ready(r, d)] + 1
       /\ service_requests'[r].status = "ready"
       /\ d = service_requests'[r].assignment_dispatched
       /\ Status(r) # "ready" \/ d

\* The job, and what was heard.
CallsMove(r, h) ==
  calls'[r] = calls[r] \/ (handler[h].pc = "send" /\ handler[h].row = r)

\* The computation that takes the step: how a request is dispatched and served, ...
ServiceMoves(r, h) ==
  LET t == handler[h]
      u == handler'[h]
  IN
  /\ Dispatches(u, r) => Dispatches(t, r) \/ \E e \in Asked(r) : Queued(e)
  /\ u.pc = "send" /\ u.row = r => Status(r) = "dispatching_service"
  /\ Serves(u, r) => /\ Serves(t, r) \/ (t.pc = "send" /\ t.row = r) \/ Status(r) = "pending"
                     /\ u.val = "ready" => r \in answered' \/ (Serves(t, r) /\ t.val = "ready")

\* ... released and marked, ...
PipelineMoves(r, h) ==
  LET t == handler[h]
      u == handler'[h]
  IN
  /\ Frees(u, r) => Status(r) = "wait_dependencies" /\ Svc!DetermineStatus(r) = "ready_for_service"
  /\ Marks(u, r) =>
       \/ /\ t.pc = "listNext" /\ r \in NextReq[t.row] /\ Status(r) = "not_ready_for_service"
          /\ u.todo[r] = "not_ready_for_service"
       \/ Marks(t, r) /\ u.todo[r] \in {t.todo[r], Svc!DetermineStatus(r)}
  /\ Lists(u, r) => \/ Lists(t, r) \/ Plans(t, r)
                    \/ \E d \in BOOLEAN : Queued(Ready(r, d)) /\ (r \in Planner => d)

\* ... and how its assignments are made.
PlanMoves(r, h) ==
  LET t == handler[h]
      u == handler'[h]
      taken == /\ r \in Planner /\ Queued(Ready(r, FALSE))
               /\ events_queue'[Ready(r, FALSE)] = events_queue[Ready(r, FALSE)] - 1
  IN /\ Inserts(u, r) => taken
     /\ Plans(u, r) => Plans(t, r) \/ Inserts(t, r) \/ taken

\* All it does about request r.
TaskMoves(r, h) ==
  handler'[h] = handler[h] \/ (ServiceMoves(r, h) /\ PipelineMoves(r, h) /\ PlanMoves(r, h))

\* All a step does about request r.
About(r, h) ==
  /\ StatusMoves(r, h) /\ FlagMoves(r, h) /\ EventsMove(r) /\ CallsMove(r, h)
  /\ TaskMoves(r, h)

\* All requests.
Advance(h) ==
  /\ Others(h) /\ answered \subseteq answered' /\ done \subseteq done'
  /\ \A r \in Req : About(r, h)

----------------------------------------------------------------------------
(* What a step does about the assignments *)

\* Somebody knows assignment a: the tables, the agent or the queue.
Known(a) ==
  \/ assignments[a] # "absent" \/ agent[a] # "none" \/ sent[a] > 0
  \/ \E e \in AsgNews(a) : Queued(e)

\* A computation that handles assignments of request r.
Assigns(t, r) ==
  \/ t.pc \in Asm!AssignmentPc /\ Owner[t.row] = r
  \/ t.pc \in {"dispatchPlan", "reorderPlan"} /\ t.row = r

\* The assignments of request r are there.
Ordered(r) ==
  \/ \E a \in Asg : Owner[a] = r /\ Known(a)
  \/ \E h \in Handler : Assigns(handler[h], r)

\* An agent reported that assignment a succeeded.
Reported(t, a) == t.pc = "saveReportWhere" /\ t.row = a /\ t.val = "succeeded"

\* Assignment a succeeded, or is about to.
Succeeded(a) ==
  \/ assignments[a] \in {"succeeded", "completed"}
  \/ Queued(AssignmentEvent(a, "succeeded"))
  \/ \E h \in Handler : Reported(handler[h], a)

\* The request whose assignments this step inserts.
InsertsAll(r, h) ==
  Inserts(handler[h], r) /\ \A a \in Asg : Owner[a] = r => assignments'[a] # "absent"

\* Assignments turn up with their plan, succeed by a report, and stay.
AssignmentsAdvance(h) ==
  /\ \A r \in Req : Ordered(r)' => Ordered(r) \/ InsertsAll(r, h)
  /\ \A a \in Asg : /\ Succeeded(a)' => Succeeded(a) \/ a \in done'
                    /\ assignments[a] # "absent" => assignments'[a] # "absent"

\* The computation that takes the step.
AssignmentTurns(h) ==
  /\ \A r \in Req : Assigns(handler'[h], r) => Ordered(r) \/ InsertsAll(r, h)
  /\ \A a \in Asg : Reported(handler'[h], a) => Succeeded(a) \/ a \in done'

----------------------------------------------------------------------------
(* The kinds of steps *)

\* A computation that does nothing about requests, ...
LEMMA DullTask ==
  ASSUME NEW h \in Handler, handler'[h].pc \notin RolePc, NEW r \in Req
  PROVE  TaskMoves(r, h)
BY DEF TaskMoves, ServiceMoves, PipelineMoves, PlanMoves, RolePc,
       Dispatches, Serves, Frees, Lists, Marks, Inserts, Plans, PlanPc

\* ... about assignments, or which stays where it is.
LEMMA DullAssignments ==
  ASSUME NEW h \in Handler,
         handler'[h].pc \notin Asm!AssignmentPc \cup {"dispatchPlan", "reorderPlan"} \/ handler'[h] = handler[h]
  PROVE  AssignmentTurns(h)
<1>1. CASE handler'[h] = handler[h]
  BY <1>1 DEF AssignmentTurns, Ordered, Succeeded
<1>2. CASE handler'[h].pc \notin Asm!AssignmentPc \cup {"dispatchPlan", "reorderPlan"}
  BY <1>2 DEF AssignmentTurns, Assigns, Reported, Asm!AssignmentPc
<1> QED
  BY <1>1, <1>2

\* The types.
LEMMA StepTyped ==
  ASSUME Typed, NEW h \in Handler, NEW t \in AnyTask, TaskOK(t), Becomes(h, t),
         mission' \in MissionStatus, service_requests' \in [Req -> RequestRow],
         assignments' \in [Asg -> AssignmentStatus \cup {"absent"}],
         events_queue' \in [Event -> Nat], calls' \in [Req -> Nat],
         sent' \in [Asg -> Nat], agent' \in [Asg -> Asm!AgentState], done' \subseteq Asg
  PROVE  Typed'
<1>1. Others(h) /\ handler'[h] = t /\ handler' \in [Handler -> AnyTask]
  BY OneMoves
<1>2. \A g \in Handler : TaskOK(handler'[g])
  BY <1>1 DEF Others, Typed
<1>3. TypeOK'
  BY <1>1 DEF TypeOK, AnyTask, Pc
<1> QED
  BY <1>2, <1>3 DEF Typed

\* A step that leaves the rows of the requests alone and no news of them.
LEMMA RequestsUntouched ==
  ASSUME Typed, NEW h \in Handler, Others(h), UNCHANGED service_requests, events_queue' \in [Event -> Nat],
         \A r \in Req : RowSame(r), answered \subseteq answered', done \subseteq done',
         \A r \in Req : CallsMove(r, h) /\ TaskMoves(r, h)
  PROVE  Advance(h)
<1> SUFFICES ASSUME NEW r \in Req
             PROVE  About(r, h)
  BY DEF Advance
<1>1. StatusMoves(r, h) /\ FlagMoves(r, h)
  BY DEF StatusMoves, FlagMoves, Flag
<1>2. EventsMove(r)
  <2>1. \A e \in News(r) : ~(events_queue'[e] > events_queue[e])
    <3> SUFFICES ASSUME NEW e \in News(r)
                 PROVE  ~(events_queue'[e] > events_queue[e])
      OBVIOUS
    <3>1. e \in Event /\ events_queue'[e] <= events_queue[e]
      BY NewsFacts DEF RowSame
    <3>2. events_queue[e] \in Nat /\ events_queue'[e] \in Nat
      BY <3>1 DEF Typed, TypeOK
    <3> QED
      BY <3>1, <3>2
  <2> QED
    BY <2>1 DEF EventsMove, News
<1> QED
  BY <1>1, <1>2 DEF About

\* A step that writes rows.
LEMMA RequestsTouched ==
  ASSUME Typed, NEW h \in Handler, Others(h), events_queue' \in [Event -> Nat], NEW rows, NEW new,
         \A r \in Req : RowWritten(r, rows, new), answered \subseteq answered', done \subseteq done',
         \A r \in rows : StatusMoves(r, h) /\ FlagMoves(r, h),
         \A r \in rows : new[r].status = "ready" => Status(r) # "ready" \/ new[r].assignment_dispatched,
         \A r \in rows : new[r].assignment_dispatched \in BOOLEAN,
         \A r \in Req : CallsMove(r, h) /\ TaskMoves(r, h)
  PROVE  Advance(h)
<1> SUFFICES ASSUME NEW r \in Req
             PROVE  About(r, h)
  BY DEF Advance
<1>1. StatusMoves(r, h) /\ FlagMoves(r, h)
  <2>1. CASE r \in rows
    BY <2>1
  <2>2. CASE r \notin rows
    BY <2>2 DEF RowWritten, StatusMoves, FlagMoves, Flag
  <2> QED
    BY <2>1, <2>2
<1>2. \A e \in News(r) : events_queue'[e] > events_queue[e] =>
        /\ r \in rows /\ service_requests'[r] = new[r]
        /\ events_queue'[e] = events_queue[e] + 1
        /\ new[r].status \in {"ready", "ready_for_service"}
        /\ new[r].status = "ready" => e = Ready(r, new[r].assignment_dispatched)
        /\ new[r].status = "ready_for_service" => e \in Asked(r)
  <2> SUFFICES ASSUME NEW e \in News(r), events_queue'[e] > events_queue[e]
               PROVE  r \in rows
    BY DEF RowWritten
  <2>1. events_queue[e] \in Nat /\ events_queue'[e] \in Nat
    BY NewsFacts DEF Typed, TypeOK
  <2> QED
    BY <2>1 DEF RowWritten
<1>3. EventsMove(r)
  <2>1. \A d \in BOOLEAN : Ready(r, d) \in News(r) /\ Ready(r, d) \notin Asked(r) /\ Ready(r, d).assignment_dispatched = d
    BY NewsFacts DEF Ready, RequestEvent
  <2>2. \A e \in Asked(r) : e \in News(r) /\ \A d : e # Ready(r, d)
    BY DEF News, Asked, Ready, RequestEvent, InsertionEvent
  <2>3. ASSUME NEW e \in Asked(r), events_queue'[e] > events_queue[e]
        PROVE  service_requests'[r].status = "ready_for_service"
    BY <1>2, <2>2, <2>3
  <2>4. ASSUME NEW d \in BOOLEAN, events_queue'[Ready(r, d)] > events_queue[Ready(r, d)]
        PROVE  /\ events_queue'[Ready(r, d)] = events_queue[Ready(r, d)] + 1
               /\ service_requests'[r].status = "ready"
               /\ d = service_requests'[r].assignment_dispatched
               /\ Status(r) # "ready" \/ d
    <3>1. /\ r \in rows /\ service_requests'[r] = new[r]
          /\ events_queue'[Ready(r, d)] = events_queue[Ready(r, d)] + 1
          /\ new[r].status = "ready" /\ Ready(r, d) = Ready(r, new[r].assignment_dispatched)
      BY <1>2, <2>1, <2>4
    <3>2. new[r].assignment_dispatched = d
      BY <2>1, <3>1
    <3> QED
      BY <3>1, <3>2
  <2> QED
    BY <2>3, <2>4 DEF EventsMove
<1> QED
  BY <1>1, <1>3 DEF About

\* Nobody gets to know an assignment.
LEMMA AssignmentsSame ==
  ASSUME Typed, NEW h \in Handler, Others(h), UNCHANGED assignments, events_queue' \in [Event -> Nat], AsgQuiet,
         \A a \in Asg : agent'[a] # "none" \/ sent'[a] > 0 =>
           agent[a] # "none" \/ sent[a] > 0 \/ Ordered(Owner[a]),
         AssignmentTurns(h)
  PROVE  AssignmentsAdvance(h)
<1>1. \A a \in Asg : \A e \in AsgNews(a) : Queued(e)' => Queued(e)
  <2> SUFFICES ASSUME NEW a \in Asg, NEW e \in AsgNews(a), events_queue'[e] > 0
               PROVE  Queued(e)
    BY DEF Queued
  <2>1. e \in Event /\ events_queue'[e] <= events_queue[e]
    BY AsgFacts DEF AsgQuiet
  <2>2. events_queue[e] \in Nat /\ events_queue'[e] \in Nat
    BY <2>1 DEF Typed, TypeOK
  <2> QED
    BY <2>1, <2>2 DEF Queued
<1>2. ASSUME NEW r \in Req, Ordered(r)'
      PROVE  Ordered(r) \/ InsertsAll(r, h)
  <2>1. CASE \E a \in Asg : Owner[a] = r /\ Known(a)'
    <3>1. PICK a \in Asg : Owner[a] = r /\ Known(a)'
      BY <2>1
    <3>2. Known(a) \/ Ordered(r)
      BY <1>1, <3>1 DEF Known
    <3> QED
      BY <3>1, <3>2 DEF Ordered
  <2>2. CASE \E g \in Handler : Assigns(handler'[g], r)
    <3>1. PICK g \in Handler : Assigns(handler'[g], r)
      BY <2>2
    <3>2. CASE g = h
      BY <3>1, <3>2 DEF AssignmentTurns
    <3>3. CASE g # h
      BY <3>1, <3>3 DEF Ordered, Others
    <3> QED
      BY <3>2, <3>3
  <2> QED
    BY <1>2, <2>1, <2>2 DEF Ordered
<1>3. ASSUME NEW a \in Asg, Succeeded(a)'
      PROVE  Succeeded(a) \/ a \in done'
  <2>1. AssignmentEvent(a, "succeeded") \in AsgNews(a)
    BY DEF AsgNews, HandledAssignment
  <2>2. CASE \E g \in Handler : Reported(handler'[g], a)
    <3>1. PICK g \in Handler : Reported(handler'[g], a)
      BY <2>2
    <3>2. CASE g = h
      BY <3>1, <3>2 DEF AssignmentTurns
    <3>3. CASE g # h
      BY <3>1, <3>3 DEF Succeeded, Others
    <3> QED
      BY <3>2, <3>3
  <2>3. CASE ~\E g \in Handler : Reported(handler'[g], a)
    BY <1>1, <1>3, <2>1, <2>3 DEF Succeeded
  <2> QED
    BY <2>2, <2>3
<1> QED
  BY <1>2, <1>3 DEF AssignmentsAdvance

\* A statement on the assignments: types and what it leaves alone.
LEMMA AssignmentsTyped ==
  ASSUME Typed, NEW rows, NEW s \in AssignmentStatus, NEW taken, \A e \in taken : Queued(e),
         SetAssignments(rows, s, taken), UNCHANGED service_requests
  PROVE  /\ assignments' \in [Asg -> AssignmentStatus \cup {"absent"}]
         /\ events_queue' \in [Event -> Nat]
         /\ \A r \in Req : RowSame(r)
<1> DEFINE left == {AssignmentEvent(a, s) : a \in {b \in rows : assignments[b] # s}}
<1>1. TakeAndLeave(taken, left) /\ assignments' = [a \in Asg |-> IF a \in rows THEN s ELSE assignments[a]]
  BY DEF SetAssignments
<1>2. \A e \in left : e.channel = "assignments_status_update"
  BY DEF AssignmentEvent
<1> HIDE DEF left
<1>3. ASSUME NEW r \in Req, NEW e \in News(r)
      PROVE  events_queue'[e] <= events_queue[e]
  <2>1. e \in Event /\ e \notin left
    BY <1>2, NewsFacts
  <2> QED
    BY <1>1, <2>1, Count
<1>4. \A r \in Req : RowSame(r)
  BY <1>3 DEF RowSame
<1>5. assignments' \in [Asg -> AssignmentStatus \cup {"absent"}]
  BY <1>1 DEF Typed, TypeOK
<1> QED
  BY <1>1, <1>4, <1>5, QueueTyped

\* One that is about assignments that are there.
LEMMA AssignmentsWritten ==
  ASSUME Typed, NEW h \in Handler, Others(h), NEW rows, NEW s \in AssignmentStatus, NEW taken,
         \A e \in taken : Queued(e), SetAssignments(rows, s, taken), UNCHANGED <<sent, agent>>,
         \A a \in Asg : a \in rows => Ordered(Owner[a]),
         s \in {"succeeded", "completed"} => \A a \in Asg : a \in rows => Succeeded(a),
         AssignmentTurns(h)
  PROVE  AssignmentsAdvance(h)
<1> DEFINE left == {AssignmentEvent(a, s) : a \in {b \in rows : assignments[b] # s}}
<1>1. TakeAndLeave(taken, left) /\ assignments' = [a \in Asg |-> IF a \in rows THEN s ELSE assignments[a]]
  BY DEF SetAssignments
<1>2. \A a \in Asg : \A e \in AsgNews(a) : e \in left => a \in rows /\ e = AssignmentEvent(a, s)
  <2> SUFFICES ASSUME NEW a \in Asg, NEW b \in rows, AssignmentEvent(b, s) \in AsgNews(a)
               PROVE  a = b
    OBVIOUS
  <2> QED
    BY AsgFacts
<1> HIDE DEF left
<1>3. ASSUME NEW a \in Asg, NEW e \in AsgNews(a), Queued(e)'
      PROVE  Queued(e) \/ (a \in rows /\ e = AssignmentEvent(a, s))
  <2>1. e \in Event /\ events_queue'[e] > 0
    BY <1>3 DEF Queued
  <2>2. CASE e \in left
    BY <1>2, <2>2
  <2>3. CASE e \notin left
    <3>1. events_queue[e] \in Nat /\ events_queue'[e] \in Nat /\ events_queue'[e] <= events_queue[e]
      BY <1>1, <2>1, <2>3, Count
    <3> QED
      BY <2>1, <3>1 DEF Queued
  <2> QED
    BY <2>2, <2>3
<1>4. "absent" \notin AssignmentStatus
  BY DEF AssignmentStatus
<1>5. ASSUME NEW r \in Req, Ordered(r)'
      PROVE  Ordered(r) \/ InsertsAll(r, h)
  <2>1. CASE \E a \in Asg : Owner[a] = r /\ Known(a)'
    <3>1. PICK a \in Asg : Owner[a] = r /\ Known(a)'
      BY <2>1
    <3>2. CASE a \in rows
      BY <3>1, <3>2
    <3>3. CASE a \notin rows
      <4>1. Known(a)
        BY <1>1, <1>3, <3>1, <3>3 DEF Known
      <4> QED
        BY <3>1, <4>1 DEF Ordered
    <3> QED
      BY <3>2, <3>3
  <2>2. CASE \E g \in Handler : Assigns(handler'[g], r)
    <3>1. PICK g \in Handler : Assigns(handler'[g], r)
      BY <2>2
    <3>2. CASE g = h
      BY <3>1, <3>2 DEF AssignmentTurns
    <3>3. CASE g # h
      BY <3>1, <3>3 DEF Ordered, Others
    <3> QED
      BY <3>2, <3>3
  <2> QED
    BY <1>5, <2>1, <2>2 DEF Ordered
<1>6. ASSUME NEW a \in Asg, Succeeded(a)'
      PROVE  Succeeded(a) \/ a \in done'
  <2>1. AssignmentEvent(a, "succeeded") \in AsgNews(a)
        /\ (AssignmentEvent(a, "succeeded") = AssignmentEvent(a, s) => s = "succeeded")
    BY DEF AsgNews, HandledAssignment, AssignmentEvent
  <2>2. CASE \E g \in Handler : Reported(handler'[g], a)
    <3>1. PICK g \in Handler : Reported(handler'[g], a)
      BY <2>2
    <3>2. CASE g = h
      BY <3>1, <3>2 DEF AssignmentTurns
    <3>3. CASE g # h
      BY <3>1, <3>3 DEF Succeeded, Others
    <3> QED
      BY <3>2, <3>3
  <2>3. CASE Queued(AssignmentEvent(a, "succeeded"))'
    <3>1. Queued(AssignmentEvent(a, "succeeded")) \/ (a \in rows /\ s = "succeeded")
      BY <1>3, <2>1, <2>3
    <3> QED
      BY <3>1 DEF Succeeded
  <2>4. CASE assignments'[a] \in {"succeeded", "completed"}
    BY <1>1, <2>4 DEF Succeeded
  <2> QED
    BY <1>6, <2>2, <2>3, <2>4 DEF Succeeded
<1>7. \A a \in Asg : assignments[a] # "absent" => assignments'[a] # "absent"
  BY <1>1, <1>4
<1> QED
  BY <1>5, <1>6, <1>7 DEF AssignmentsAdvance

----------------------------------------------------------------------------
(* A step, whatever it is about *)

\* What every step comes down to.
Step(h) == Typed' /\ Advance(h) /\ AssignmentsAdvance(h)

\* A step that writes neither requests nor assignments.
LEMMA TaskStep ==
  ASSUME Typed, NEW h \in Handler, NEW t \in AnyTask, TaskOK(t), Becomes(h, t),
         Quiet, events_queue' \in [Event -> Nat], mission' \in MissionStatus,
         UNCHANGED <<service_requests, assignments, field>>,
         answered \subseteq answered', calls' \in [Req -> Nat],
         \A r \in Req : CallsMove(r, h) /\ TaskMoves(r, h), AssignmentTurns(h)
  PROVE  Step(h)
<1>1. Others(h)
  BY OneMoves
<1>2. (\A r \in Req : RowSame(r)) /\ AsgQuiet
  BY RowsSame
<1>3. /\ service_requests' \in [Req -> RequestRow]
      /\ assignments' \in [Asg -> AssignmentStatus \cup {"absent"}]
      /\ sent' = sent /\ agent' = agent /\ done' = done
      /\ sent' \in [Asg -> Nat] /\ agent' \in [Asg -> Asm!AgentState] /\ done' \subseteq Asg
  BY DEF field, Typed, TypeOK
<1>4. Typed'
  BY <1>3, StepTyped
<1>5. Advance(h)
  BY <1>1, <1>2, <1>3, RequestsUntouched
<1>6. AssignmentsAdvance(h)
  BY <1>1, <1>2, <1>3, AssignmentsSame
<1> QED
  BY <1>4, <1>5, <1>6 DEF Step

\* A computation about the mission or about assignments, which writes neither.
LEMMA FieldStep ==
  ASSUME Typed, NEW h \in Handler, NEW t \in AnyTask, TaskOK(t), Becomes(h, t),
         Quiet, events_queue' \in [Event -> Nat], mission' \in MissionStatus,
         UNCHANGED <<service_requests, assignments, world>>, t.pc \notin RolePc,
         sent' \in [Asg -> Nat], agent' \in [Asg -> Asm!AgentState], done' \subseteq Asg,
         done \subseteq done',
         \A a \in Asg : agent'[a] # "none" \/ sent'[a] > 0 =>
           agent[a] # "none" \/ sent[a] > 0 \/ Ordered(Owner[a]),
         AssignmentTurns(h)
  PROVE  Step(h)
<1>1. Others(h) /\ handler'[h] = t
  BY OneMoves
<1>2. (\A r \in Req : RowSame(r)) /\ AsgQuiet
  BY RowsSame
<1>3. /\ service_requests' \in [Req -> RequestRow]
      /\ assignments' \in [Asg -> AssignmentStatus \cup {"absent"}]
      /\ calls' \in [Req -> Nat] /\ calls' = calls /\ answered' = answered
  BY DEF world, Typed, TypeOK
<1>4. Typed'
  BY <1>3, StepTyped
<1>5. \A r \in Req : CallsMove(r, h) /\ TaskMoves(r, h)
  BY <1>1, <1>3, DullTask DEF CallsMove
<1>6. Advance(h)
  BY <1>1, <1>2, <1>3, <1>5, RequestsUntouched
<1>7. AssignmentsAdvance(h)
  BY <1>1, <1>2, AssignmentsSame
<1> QED
  BY <1>4, <1>6, <1>7 DEF Step

\* A step that writes requests.
LEMMA RequestStep ==
  ASSUME Typed, NEW h \in Handler, NEW t \in AnyTask, TaskOK(t), Becomes(h, t),
         NEW rows \in SUBSET Req, NEW new, NEW taken, \A e \in taken : Queued(e),
         WriteRequests(rows, new, taken), \A r \in rows : new[r] \in RequestRow,
         UNCHANGED <<mission, assignments, world, field>>,
         \A r \in rows : StatusMoves(r, h) /\ FlagMoves(r, h),
         \A r \in rows : new[r].status = "ready" => Status(r) # "ready" \/ new[r].assignment_dispatched,
         \A r \in Req : TaskMoves(r, h), AssignmentTurns(h)
  PROVE  Step(h)
<1>1. Others(h) /\ handler'[h] = t
  BY OneMoves
<1>2. /\ \A r \in Req : RowWritten(r, rows, new)
      /\ service_requests' \in [Req -> RequestRow] /\ events_queue' \in [Event -> Nat]
      /\ AsgQuiet
  BY RowsWritten
<1>3. /\ assignments' \in [Asg -> AssignmentStatus \cup {"absent"}]
      /\ mission' \in MissionStatus
      /\ calls' \in [Req -> Nat] /\ calls' = calls /\ answered' = answered
      /\ sent' = sent /\ agent' = agent /\ done' = done
      /\ sent' \in [Asg -> Nat] /\ agent' \in [Asg -> Asm!AgentState] /\ done' \subseteq Asg
  BY DEF world, field, Typed, TypeOK
<1>4. Typed'
  BY <1>2, <1>3, StepTyped
<1>5. \A r \in rows : new[r].assignment_dispatched \in BOOLEAN
  BY DEF RequestRow
<1>6. \A r \in Req : CallsMove(r, h)
  BY <1>3 DEF CallsMove
<1>7. Advance(h)
  BY <1>1, <1>2, <1>3, <1>5, <1>6, RequestsTouched
<1>8. AssignmentsAdvance(h)
  BY <1>1, <1>2, <1>3, AssignmentsSame
<1> QED
  BY <1>4, <1>7, <1>8 DEF Step

\* A step that writes assignments.
LEMMA OrderStep ==
  ASSUME Typed, NEW h \in Handler, NEW t \in AnyTask, TaskOK(t), Becomes(h, t),
         NEW rows, NEW s \in AssignmentStatus, NEW taken, \A e \in taken : Queued(e),
         SetAssignments(rows, s, taken), UNCHANGED <<mission, service_requests, world, field>>,
         \A a \in Asg : a \in rows => Ordered(Owner[a]),
         s \in {"succeeded", "completed"} => \A a \in Asg : a \in rows => Succeeded(a),
         \A r \in Req : TaskMoves(r, h), AssignmentTurns(h)
  PROVE  Step(h)
<1>1. Others(h) /\ handler'[h] = t
  BY OneMoves
<1>2. /\ assignments' \in [Asg -> AssignmentStatus \cup {"absent"}]
      /\ events_queue' \in [Event -> Nat]
      /\ \A r \in Req : RowSame(r)
  BY AssignmentsTyped
<1>3. /\ service_requests' \in [Req -> RequestRow]
      /\ mission' \in MissionStatus
      /\ calls' \in [Req -> Nat] /\ calls' = calls /\ answered' = answered
      /\ sent' = sent /\ agent' = agent /\ done' = done
      /\ sent' \in [Asg -> Nat] /\ agent' \in [Asg -> Asm!AgentState] /\ done' \subseteq Asg
  BY DEF world, field, Typed, TypeOK
<1>4. Typed'
  BY <1>2, <1>3, StepTyped
<1>5. \A r \in Req : CallsMove(r, h)
  BY <1>3 DEF CallsMove
<1>6. Advance(h)
  BY <1>1, <1>2, <1>3, <1>5, RequestsUntouched
<1>7. AssignmentsAdvance(h)
  BY <1>1, <1>3, AssignmentsWritten
<1> QED
  BY <1>4, <1>6, <1>7 DEF Step

----------------------------------------------------------------------------
(* Tasks *)

\* A statement and its row make a task.
LEMMA AtTask ==
  ASSUME NEW pc \in Pc, NEW row \in Row \cup {NoRow}, NEW val \in Mark \cup {"error"} \cup DispatchModes
  PROVE  /\ At(pc, row, val) \in AnyTask
         /\ At(pc, row, val).pc = pc /\ At(pc, row, val).row = row /\ At(pc, row, val).val = val
         /\ \A x \in Row : At(pc, row, val).todo[x] = "-"
BY DEF At, AnyTask, NoTodo, Mark

\* The statements that hold nothing but a row of theirs.
PlainPc == Pc \ {"markPending", "saveResponse", "endMission", "saveReport", "saveReportWhere"}

\* They make a task that fits.
LEMMA PlainTask ==
  ASSUME NEW pc \in PlainPc, NEW row \in Row \cup {NoRow}, NEW val \in Mark \cup {"error"} \cup DispatchModes,
         pc \in Svc!RequestPc => row \in Req, pc \in Asm!AssignmentPc => row \in Asg, pc \in PlanPc => row \in Planner
  PROVE  At(pc, row, val) \in AnyTask /\ TaskOK(At(pc, row, val))
<1>1. pc \in Pc
  BY DEF PlainPc
<1>2. /\ At(pc, row, val) \in AnyTask
      /\ At(pc, row, val).pc = pc /\ At(pc, row, val).row = row
      /\ \A x \in Row : At(pc, row, val).todo[x] = "-"
  BY <1>1, AtTask
<1> QED
  BY <1>2 DEF TaskOK, PlainPc, Row

\* Rows with another status, or with another answer.
LEMMA StatusRow ==
  ASSUME Typed, NEW s \in ServiceStatus, NEW r \in Req
  PROVE  /\ WithStatus(s)[r] \in RequestRow /\ WithStatus(s)[r].status = s
         /\ WithStatus(s)[r].assignment_dispatched = Flag(r)
<1>1. service_requests[r] \in RequestRow
  BY DEF Typed, TypeOK
<1>2. WithStatus(s)[r] = [service_requests[r] EXCEPT !.status = s]
  BY DEF WithStatus
<1>3. PICK row : row = service_requests[r]
  OBVIOUS
<1>4. /\ [row EXCEPT !.status = s] \in RequestRow /\ [row EXCEPT !.status = s].status = s
      /\ [row EXCEPT !.status = s].assignment_dispatched = row.assignment_dispatched
  BY <1>1, <1>3 DEF RequestRow
<1> QED
  BY <1>2, <1>3, <1>4 DEF Flag

\* The row a response is saved in.
LEMMA AnswerRow ==
  ASSUME Typed, NEW s \in ServiceStatus, NEW processed \in BOOLEAN, NEW skip \in SUBSET Req, NEW r \in Req
  PROVE  /\ Svc!WithAnswer(s, processed, skip)[r] \in RequestRow
         /\ Svc!WithAnswer(s, processed, skip)[r].status = s
         /\ Svc!WithAnswer(s, processed, skip)[r].assignment_dispatched = Flag(r)
<1>1. service_requests[r] \in RequestRow
  BY DEF Typed, TypeOK
<1>2. Flag(r) \in BOOLEAN
  BY <1>1 DEF RequestRow, Flag
<1>3. Svc!WithAnswer(s, processed, skip)[r]
        = [status |-> s, processed |-> processed, excluded |-> skip, assignment_dispatched |-> Flag(r)]
  BY DEF Svc!WithAnswer, Flag
<1> QED
  BY <1>2, <1>3 DEF RequestRow

\* A computation without work.
LEMMA IdleTask ==
  Idle \in AnyTask /\ TaskOK(Idle) /\ Idle.pc = "idle"
BY DEF Idle, AnyTask, Pc, NoTodo, Mark, TaskOK, Svc!RequestPc, Asm!AssignmentPc, PlanPc

\* The statements of the three parts are apart.
LEMMA ApartPc ==
  /\ \A pc \in {"idle"} \cup WorkProcessPc : pc \notin RolePc /\ pc \notin Asm!AssignmentPc
                                             /\ pc \notin Svc!RequestPc /\ pc \notin PlanPc
  /\ \A pc \in Asm!AssignmentPc : pc \notin RolePc /\ pc \notin Svc!RequestPc /\ pc \notin PlanPc
  /\ \A pc \in Svc!ServicePc : pc \notin Asm!AssignmentPc /\ pc \notin PlanPc
  /\ \A pc \in PlanPc : pc \notin Asm!AssignmentPc /\ pc \notin Svc!RequestPc
BY DEF WorkProcessPc, RolePc, Asm!AssignmentPc, Svc!RequestPc, PlanPc, Svc!ServicePc

----------------------------------------------------------------------------
(* The end of the mission *)

\* A handler of the end that writes the mission, or nothing.
LEMMA EndTask ==
  ASSUME Typed, NEW h \in Handler, NEW pc \in {"idle"} \cup WorkProcessPc, NEW val \in Mark,
         pc = "endMission" => val \in {"canceled", "succeeded"},
         Becomes(h, At(pc, NoRow, val)),
         Quiet, events_queue' \in [Event -> Nat], mission' \in MissionStatus,
         UNCHANGED <<service_requests, assignments, world, field>>
  PROVE  Step(h)
<1> DEFINE t == At(pc, NoRow, val)
<1>1. /\ t \in AnyTask
      /\ t.pc = pc /\ t.val = val
  BY AtTask DEF Pc
<1>2. TaskOK(t)
  BY <1>1, ApartPc DEF TaskOK, WorkProcessPc
<1>3. t.pc \notin RolePc /\ t.pc \notin Asm!AssignmentPc \cup {"dispatchPlan", "reorderPlan"}
  BY <1>1, ApartPc DEF WorkProcessPc, PlanPc
<1> HIDE DEF t
<1>4. handler'[h] = t /\ Becomes(h, t)
  BY <1>1, OneMoves DEF t
<1>5. /\ sent' \in [Asg -> Nat] /\ agent' \in [Asg -> Asm!AgentState] /\ done' \subseteq Asg /\ done \subseteq done'
      /\ sent' = sent /\ agent' = agent
  BY DEF field, Typed, TypeOK
<1>6. AssignmentTurns(h)
  BY <1>3, <1>4, DullAssignments
<1> QED
  BY <1>1, <1>2, <1>3, <1>4, <1>5, <1>6, FieldStep

\* It is a task that no list belongs to.
LEMMA IdleIsAt == Idle = At("idle", NoRow, "-") /\ "-" \in Mark
BY DEF Idle, At, Mark

\* The handlers of the mission's own row.
LEMMA WorkProcessSteps ==
  ASSUME Typed, NEW h \in Handler, WorkProcessHandler(h), UNCHANGED <<world, field>>
  PROVE  Step(h)
<1>0. TypeOK /\ handler[h] \in AnyTask /\ TaskOK(handler[h])
  BY TypedTask
<1>m. MissionStatus \subseteq Mark
  BY DEF Mark
<1>1. CASE HandleCanceling(h)
  <2>1. \A e \in {MissionEvent("canceling")} : Queued(e)
    BY <1>1 DEF HandleCanceling, Starts
  <2>2. Quiet /\ events_queue' \in [Event -> Nat] /\ mission' \in MissionStatus
    BY <1>1, <2>1, QuietMission DEF HandleCanceling, MissionStatus
  <2>3. "cancelRequests" \in WorkProcessPc /\ "canceling" \in Mark
    BY <1>m DEF WorkProcessPc, MissionStatus
  <2> QED
    BY <1>1, <2>2, <2>3, EndTask DEF HandleCanceling
<1>2. CASE HandleFailure(h)
  <2>1. PICK s \in {"assignment_failed", "planning_failed"} :
          /\ Queued(MissionEvent(s)) /\ SetMissionWhere({s}, "failed", {MissionEvent(s)})
          /\ Becomes(h, At("cancelRequests", NoRow, s))
          /\ UNCHANGED <<service_requests, assignments, released>>
    BY <1>2 DEF HandleFailure, Starts
  <2>2. \A e \in {MissionEvent(s)} : Queued(e)
    BY <2>1
  <2>3. Quiet /\ events_queue' \in [Event -> Nat] /\ mission' \in MissionStatus
    BY <2>1, <2>2, QuietMission DEF MissionStatus
  <2>4. "cancelRequests" \in WorkProcessPc /\ s \in Mark
    BY <1>m DEF WorkProcessPc, MissionStatus
  <2> QED
    BY <2>1, <2>3, <2>4, EndTask
<1>3. CASE HandleCompleted(h)
  <2>1. \A e \in {MissionEvent("assignments_completed")} : Queued(e)
    BY <1>3 DEF HandleCompleted, Starts
  <2>2. Quiet /\ events_queue' \in [Event -> Nat]
    BY <1>3, <2>1, QuietQueue DEF HandleCompleted
  <2>3. PICK val \in {"canceled", "succeeded"} : Becomes(h, At("endMission", NoRow, val))
    BY <1>3 DEF HandleCompleted
  <2>4. "endMission" \in WorkProcessPc /\ val \in Mark
    BY <1>m DEF WorkProcessPc, MissionStatus
  <2> QED
    BY <1>0, <1>3, <2>2, <2>3, <2>4, EndTask DEF HandleCompleted, TypeOK
<1>4. CASE EndMission(h)
  <2>1. PICK val \in {"canceled", "succeeded"} : val = handler[h].val
    BY <1>0, <1>4 DEF EndMission, IsAt, TaskOK
  <2>2. SetMission(val, {}) /\ Becomes(h, At("onWorkProcessEnd", NoRow, val)) /\ UNCHANGED <<service_requests, assignments>>
    BY <1>4, <2>1 DEF EndMission
  <2>3. Quiet /\ events_queue' \in [Event -> Nat] /\ mission' \in MissionStatus
    BY <2>2, QuietMission DEF MissionStatus
  <2>4. "onWorkProcessEnd" \in WorkProcessPc /\ val \in Mark
    BY <1>m DEF WorkProcessPc, MissionStatus
  <2> QED
    BY <2>2, <2>3, <2>4, EndTask
<1>5. CASE OnWorkProcessEnd(h)
  <2>1. Becomes(h, At("idle", NoRow, "-")) /\ UNCHANGED <<mission, service_requests, assignments, events_queue>>
    BY <1>5, IdleIsAt DEF OnWorkProcessEnd
  <2>2. Quiet /\ events_queue' \in [Event -> Nat] /\ mission' \in MissionStatus
    BY <1>0, <2>1, QuietSame DEF TypeOK
  <2> QED
    BY <2>1, <2>2, IdleIsAt, EndTask
<1>6. CASE CancelRequests(h) \/ CancelWaitingAssignments(h) \/ CancelRunningAssignments(h)
  <2>1. PICK pc \in {"cancelWaitingAssignments", "cancelRunningAssignments", "onWorkProcessEnd"} :
          Becomes(h, At(pc, NoRow, handler[h].val)) /\ UNCHANGED mission
    BY <1>6 DEF CancelRequests, CancelWaitingAssignments, CancelRunningAssignments
  <2>2. PICK t : t = At(pc, NoRow, handler[h].val)
    OBVIOUS
  <2>3. pc \in PlainPc /\ pc \in WorkProcessPc
    BY DEF PlainPc, Pc, WorkProcessPc
  <2>4. t \in AnyTask /\ TaskOK(t) /\ t.pc = pc
    <3>1. PICK v \in Mark \cup {"error"} \cup DispatchModes : v = handler[h].val
      BY <1>0 DEF AnyTask
    <3>2. At(pc, NoRow, v) \in AnyTask /\ TaskOK(At(pc, NoRow, v))
      BY <2>3, ApartPc, PlainTask
    <3> QED
      BY <2>2, <3>1, <3>2 DEF At
  <2>5. Becomes(h, t) /\ handler'[h] = t
    BY <2>1, <2>2, <2>4, OneMoves
  <2>6. handler'[h].pc \notin RolePc \cup Asm!AssignmentPc \cup {"dispatchPlan", "reorderPlan"}
    BY <2>3, <2>4, <2>5, ApartPc DEF WorkProcessPc
  <2>7. (\A r \in Req : TaskMoves(r, h)) /\ AssignmentTurns(h)
    BY <2>6, DullTask, DullAssignments
  <2>8. CASE CancelRequests(h)
    <3>1. PICK rows, new : rows = RequestsIn(CancelableRequest) /\ new = WithStatus("canceled")
      OBVIOUS
    <3>2. WriteRequests(rows, new, {}) /\ UNCHANGED <<mission, assignments>> /\ rows \in SUBSET Req
      BY <2>8, <3>1 DEF CancelRequests, RequestsIn
    <3>3. \A r \in Req : /\ new[r] \in RequestRow /\ new[r].status = "canceled"
                         /\ new[r].assignment_dispatched = Flag(r)
      BY <3>1, StatusRow DEF ServiceStatus
    <3>4. \A r \in rows : service_requests'[r] = new[r]
      BY <3>2 DEF WriteRequests
    <3>5. \A r \in rows : StatusMoves(r, h) /\ FlagMoves(r, h)
      BY <3>2, <3>3, <3>4 DEF StatusMoves, FlagMoves
    <3> QED
      BY <2>4, <2>5, <2>7, <3>2, <3>3, <3>5, RequestStep
  <2>9. CASE CancelWaitingAssignments(h) \/ CancelRunningAssignments(h)
    <3>1. PICK s \in {"canceled", "canceling"}, rows \in {AssignmentsIn(BeforeDispatch), AssignmentsIn(AfterDispatch)} :
            SetAssignments(rows, s, {}) /\ UNCHANGED service_requests
      <4>1. CASE CancelWaitingAssignments(h)
        BY <4>1 DEF CancelWaitingAssignments
      <4>2. CASE CancelRunningAssignments(h)
        BY <4>2 DEF CancelRunningAssignments
      <4> QED
        BY <2>9, <4>1, <4>2
    <3>2. s \in AssignmentStatus
      BY DEF AssignmentStatus
    <3>3. \A a \in Asg : a \in rows => assignments[a] # "absent"
      BY <3>1 DEF AssignmentsIn, BeforeDispatch, AfterDispatch
    <3>4. \A a \in Asg : a \in rows => Ordered(Owner[a])
      BY <3>3 DEF Ordered, Known
    <3> QED
      BY <2>1, <2>4, <2>5, <2>7, <3>1, <3>2, <3>4, OrderStep
  <2> QED
    BY <1>6, <2>8, <2>9
<1> QED
  BY <1>1, <1>2, <1>3, <1>4, <1>5, <1>6 DEF WorkProcessHandler

\* The user cancels.
LEMMA UserCancelsSteps ==
  ASSUME Typed, NEW h \in Handler, UserCancels, UNCHANGED <<world, field>>
  PROVE  Step(h)
<1>0. handler[h] \in AnyTask /\ TaskOK(handler[h])
  BY TypedTask
<1>1. SetMission("canceling", {}) /\ UNCHANGED <<service_requests, assignments, handler>>
  BY DEF UserCancels
<1>2. Becomes(h, handler[h])
  BY <1>1 DEF Becomes, Typed, TypeOK
<1>3. Quiet /\ events_queue' \in [Event -> Nat] /\ mission' \in MissionStatus
  BY <1>1, QuietMission DEF MissionStatus
<1>4. (\A r \in Req : TaskMoves(r, h)) /\ AssignmentTurns(h)
  BY <1>1, DullAssignments DEF TaskMoves
<1>5. answered' = answered /\ calls' = calls /\ calls' \in [Req -> Nat] /\ \A r \in Req : CallsMove(r, h)
  BY DEF world, Typed, CallsMove
<1> QED
  BY <1>0, <1>1, <1>2, <1>3, <1>4, <1>5, TaskStep

----------------------------------------------------------------------------
(* The assignments *)

\* A computation that goes on about an assignment that is there.
LEMMA AssignmentTurn ==
  ASSUME NEW h \in Handler, handler'[h].pc \in {"idle"} \cup Asm!AssignmentPc,
         handler'[h].pc \in Asm!AssignmentPc => Ordered(Owner[handler'[h].row]),
         handler'[h].pc = "saveReportWhere" /\ handler'[h].val = "succeeded" => handler'[h].row \in done'
  PROVE  AssignmentTurns(h) /\ handler'[h].pc \notin RolePc /\ \A r \in Req : TaskMoves(r, h)
<1>1. handler'[h].pc \notin RolePc /\ handler'[h].pc \notin {"dispatchPlan", "reorderPlan"}
  BY ApartPc DEF PlanPc
<1>2. \A r \in Req : Assigns(handler'[h], r) => Ordered(r)
  BY <1>1 DEF Assigns, Asm!AssignmentPc
<1>3. \A a \in Asg : Reported(handler'[h], a) => a \in done'
  BY DEF Reported
<1> QED
  BY <1>1, <1>2, <1>3, DullTask DEF AssignmentTurns

\* It writes assignments that are there, ...
LEMMA RowsStep ==
  ASSUME Typed, NEW h \in Handler, NEW t \in AnyTask, TaskOK(t), Becomes(h, t),
         t.pc \in {"idle"} \cup Asm!AssignmentPc, t.pc # "saveReportWhere",
         t.pc \in Asm!AssignmentPc => Ordered(Owner[t.row]),
         NEW rows \in SUBSET Asg, NEW s \in AssignmentStatus, NEW taken, \A e \in taken : Queued(e),
         SetAssignments(rows, s, taken), \A a \in rows : Ordered(Owner[a]),
         s \in {"succeeded", "completed"} => \A a \in rows : Succeeded(a),
         UNCHANGED <<mission, service_requests, world, field>>
  PROVE  Step(h)
<1>1. handler'[h] = t
  BY OneMoves
<1>2. AssignmentTurns(h) /\ \A r \in Req : TaskMoves(r, h)
  BY <1>1, AssignmentTurn
<1> QED
  BY <1>2, OrderStep

\* ... or none.
LEMMA NoRowsStep ==
  ASSUME Typed, NEW h \in Handler, NEW t \in AnyTask, TaskOK(t), Becomes(h, t),
         t.pc \in {"idle"} \cup Asm!AssignmentPc,
         t.pc \in Asm!AssignmentPc => Ordered(Owner[t.row]),
         t.pc = "saveReportWhere" /\ t.val = "succeeded" => t.row \in done',
         Quiet, events_queue' \in [Event -> Nat], mission' \in MissionStatus,
         UNCHANGED <<service_requests, assignments, world>>,
         sent' \in [Asg -> Nat], agent' \in [Asg -> Asm!AgentState], done' \subseteq Asg,
         done \subseteq done',
         \A a \in Asg : agent'[a] # "none" \/ sent'[a] > 0 =>
           agent[a] # "none" \/ sent[a] > 0 \/ Ordered(Owner[a])
  PROVE  Step(h)
<1>1. handler'[h] = t
  BY OneMoves
<1>2. AssignmentTurns(h) /\ t.pc \notin RolePc
  BY <1>1, AssignmentTurn
<1> QED
  BY <1>2, FieldStep

\* Where such a computation goes.
LEMMA NextTask ==
  ASSUME NEW pc \in Asm!AssignmentPc \ {"saveReport", "saveReportWhere"}, NEW a \in Asg
  PROVE  /\ At(pc, a, "-") \in AnyTask /\ TaskOK(At(pc, a, "-"))
         /\ At(pc, a, "-").pc = pc /\ At(pc, a, "-").row = a
<1>1. pc \in PlainPc
  BY DEF PlainPc, Pc, Asm!AssignmentPc
<1>2. "-" \in Mark /\ a \in Row
  BY DEF Mark, Row
<1> QED
  BY <1>1, <1>2, ApartPc, PlainTask DEF At

\* A step that no agent takes part in.
LEMMA FieldSame ==
  ASSUME Typed, UNCHANGED field
  PROVE  /\ sent' \in [Asg -> Nat] /\ agent' \in [Asg -> Asm!AgentState] /\ done' \subseteq Asg
         /\ done \subseteq done' /\ sent' = sent /\ agent' = agent
BY DEF Typed, TypeOK, field

\* The computation in flight, and the assignment it is about.
LEMMA AssignmentOf ==
  ASSUME Typed, NEW h \in Handler, handler[h].pc \in Asm!AssignmentPc
  PROVE  handler[h].row \in Asg /\ Ordered(Owner[handler[h].row])
<1>1. handler[h].row \in Asg
  BY TypedTask DEF TaskOK
<1>2. Owner[handler[h].row] \in Req
  BY <1>1, PipelineAssumption
<1> QED
  BY <1>1, <1>2 DEF Ordered, Assigns

\* An assignment is ordered, and its report is saved.
LEMMA OrderingSteps ==
  ASSUME Typed, Asm!AssignmentAssumption, NEW h \in Handler, Asm!Ordering(h), UNCHANGED world
  PROVE  Step(h)
<1>0. TypeOK /\ handler[h] \in AnyTask /\ TaskOK(handler[h])
  BY TypedTask
<1>pc. handler[h].pc \in Asm!AssignmentPc
  BY SameTasks DEF Asm!Ordering, Asm!SendOrder, Asm!OrderFails, Asm!SaveOrderFailure, Asm!MarkExecuting,
                   Asm!SaveReport, Asm!SaveReportWhere, Asm!MarkCanceled, Asm!AssignmentPc
<1>a. PICK a \in Asg : a = handler[h].row
  BY <1>pc, AssignmentOf
<1>o. Ordered(Owner[a])
  BY <1>pc, <1>a, AssignmentOf
<1>1. CASE Asm!SendOrder(h)
  <2>1. /\ Becomes(h, At("markExecuting", a, "-")) /\ UNCHANGED <<mission, service_requests, assignments, events_queue, done>>
        /\ sent' = [sent EXCEPT ![a] = @ + 1] /\ agent' = [agent EXCEPT ![a] = "working"]
    BY <1>1, <1>a, SameTasks, SameTerms DEF Asm!SendOrder
  <2>2. Quiet /\ events_queue' \in [Event -> Nat] /\ mission' \in MissionStatus
    BY <1>0, <2>1, QuietSame DEF TypeOK
  <2>3. sent' \in [Asg -> Nat] /\ agent' \in [Asg -> Asm!AgentState] /\ done' \subseteq Asg /\ done \subseteq done'
    BY <1>0, <2>1 DEF TypeOK, Asm!AgentState
  <2>4. \A b \in Asg : agent'[b] # "none" \/ sent'[b] > 0 => agent[b] # "none" \/ sent[b] > 0 \/ Ordered(Owner[b])
    BY <1>0, <1>o, <2>1 DEF TypeOK
  <2>5. "markExecuting" \in Asm!AssignmentPc
    BY DEF Asm!AssignmentPc
  <2> QED
    BY <1>o, <2>1, <2>2, <2>3, <2>4, <2>5, NextTask, NoRowsStep
<1>2. CASE Asm!OrderFails(h)
  <2>1. /\ Becomes(h, At("orderFailed", a, "-"))
        /\ UNCHANGED <<mission, service_requests, assignments, events_queue, field>>
    BY <1>2, <1>a, SameTasks, SameTerms DEF Asm!OrderFails, Asm!field, field
  <2>2. Quiet /\ events_queue' \in [Event -> Nat] /\ mission' \in MissionStatus
    BY <1>0, <2>1, QuietSame DEF TypeOK
  <2>3. "orderFailed" \in Asm!AssignmentPc
    BY DEF Asm!AssignmentPc
  <2> QED
    BY <1>o, <2>1, <2>2, <2>3, NextTask, NoRowsStep, FieldSame
<1>3. CASE Asm!SaveOrderFailure(h)
  <2>1. /\ Becomes(h, At("markExecuting", a, "-")) /\ SetAssignments({a}, "failed", {})
        /\ UNCHANGED <<mission, service_requests, field>>
    BY <1>3, <1>a, SameTasks, SameTerms, SameAssignments DEF Asm!SaveOrderFailure, Asm!field, field
  <2>2. "markExecuting" \in Asm!AssignmentPc /\ "failed" \in AssignmentStatus
    BY DEF Asm!AssignmentPc, AssignmentStatus
  <2> QED
    BY <1>o, <2>1, <2>2, NextTask, RowsStep
<1>4. CASE Asm!MarkExecuting(h) \/ Asm!SaveReport(h) \/ Asm!SaveReportWhere(h) \/ Asm!MarkCanceled(h)
  <2>v. /\ handler[h].pc \in {"saveReport", "saveReportWhere"} => handler[h].val \in AssignmentStatus \ {"completed"}
        /\ {"executing", "canceled"} \subseteq AssignmentStatus \ {"completed"}
    BY <1>0 DEF AssignmentStatus, TaskOK, Asm!AssignmentAssumption
  <2>1. PICK rows \in SUBSET {a}, s \in AssignmentStatus \ {"completed"} :
          /\ Becomes(h, Idle) /\ SetAssignments(rows, s, {})
          /\ UNCHANGED <<mission, service_requests, field>>
          /\ \/ s \in {"executing", "canceled"}
             \/ handler[h].pc = "saveReport" /\ s = handler[h].val
             \/ handler[h].pc = "saveReportWhere" /\ s = handler[h].val
    <3>1. CASE Asm!MarkExecuting(h) \/ Asm!MarkCanceled(h)
      <4>1. PICK s \in {"executing", "canceled"} :
              Becomes(h, Idle) /\ SetAssignments({a}, s, {}) /\ UNCHANGED <<mission, service_requests, field>>
        <5>1. CASE Asm!MarkExecuting(h)
          BY <5>1, <1>a, SameTasks, SameTerms, SameAssignments DEF Asm!MarkExecuting, Asm!field, field
        <5>2. CASE Asm!MarkCanceled(h)
          BY <5>2, <1>a, SameTasks, SameTerms, SameAssignments DEF Asm!MarkCanceled, Asm!field, field
        <5> QED
          BY <3>1, <5>1, <5>2
      <4> QED
        BY <2>v, <4>1
    <3>2. CASE Asm!SaveReport(h)
      BY <2>v, <3>2, <1>a, SameTasks, SameTerms, SameAssignments DEF Asm!SaveReport, Asm!field, field
    <3>3. CASE Asm!SaveReportWhere(h)
      <4>1. PICK rows : rows = {x \in {a} : mission \in {"executing", "dispatched", "calculating", "canceling", "failed"}}
        OBVIOUS
      <4>2. Becomes(h, Idle) /\ SetAssignments(rows, handler[h].val, {}) /\ UNCHANGED <<mission, service_requests, field>>
        BY <3>3, <4>1, <1>a, SameTasks, SameTerms, SameAssignments DEF Asm!SaveReportWhere, Asm!field, field
      <4>3. handler[h].pc = "saveReportWhere" /\ rows \in SUBSET {a}
        BY <3>3, <4>1, SameTasks DEF Asm!SaveReportWhere
      <4> QED
        BY <2>v, <4>2, <4>3
    <3> QED
      BY <1>4, <3>1, <3>2, <3>3
  <2>3. s = "succeeded" => Succeeded(a)
    BY <1>0, <1>a, <2>1 DEF TaskOK, Succeeded, Reported
  <2> QED
    BY <1>o, <2>1, <2>3, IdleTask, RowsStep DEF Asm!AssignmentPc
<1> QED
  BY <1>1, <1>2, <1>3, <1>4 DEF Asm!Ordering

\* The groups of statuses.
LEMMA SameSets ==
  /\ Asm!UncompleteMission = UncompleteMission
  /\ Asm!RunningMission = RunningMission /\ Svc!RunningMission = RunningMission
  /\ Asm!AfterDispatch = AfterDispatch
  /\ \A s \in {"assignments_completed", "assignment_failed", "planning_failed", "calculating", "executing"} :
       s \in MissionStatus
BY Zenon DEF Asm!UncompleteMission, UncompleteMission, Asm!RunningMission, Svc!RunningMission, RunningMission,
   Asm!AfterDispatch, AfterDispatch, MissionStatus

\* One entry of a list is dealt with.
Without(t, x) == [t EXCEPT !.todo[x] = "-"]

\* The list is one entry shorter.
LEMMA EntryDone ==
  ASSUME NEW t \in AnyTask, NEW x \in Row
  PROVE  /\ Without(t, x) \in AnyTask
         /\ Without(t, x).pc = t.pc /\ Without(t, x).row = t.row /\ Without(t, x).val = t.val
         /\ Without(t, x).todo[x] = "-" /\ \A y \in Row : y # x => Without(t, x).todo[y] = t.todo[y]
BY DEF AnyTask, Mark, Without

\* A list of the marks of some rows.
MarkTask(pc, row, rows, mark) ==
  [At(pc, row, "-") EXCEPT !.todo = [x \in Row |-> IF x \in rows THEN mark[x] ELSE "-"]]

\* What the next assignments are marked with.
LEMMA NextAssignments ==
  ASSUME Asm!AssignmentAssumption, NEW a \in Asg, NEW next \in SUBSET NextAsg[a], NEW mark,
         \A b \in Asg : mark[b] \in {"to_dispatch", "wait_dependencies"}, NEW t,
         t = MarkTask("activate", a, next, mark)
  PROVE  t \in AnyTask /\ TaskOK(t) /\ t.pc = "activate" /\ t.row = a
<1>1. next \subseteq Asg /\ \A b \in next : Owner[b] = Owner[a]
  BY PlansApart DEF Asm!AssignmentAssumption
<1>2. "activate" \in Pc /\ a \in Row /\ "activate" \in Asm!AssignmentPc
  BY DEF Pc, Asm!AssignmentPc, Row
<1>3. {"to_dispatch", "wait_dependencies", "-"} \subseteq Mark
  BY DEF Mark, AssignmentStatus
<1>4. PICK todo : todo = [x \in Row |-> IF x \in next THEN mark[x] ELSE "-"]
  OBVIOUS
<1>5. todo \in [Row -> Mark]
  BY <1>1, <1>3, <1>4
<1>6. t = [pc |-> "activate", row |-> a, val |-> "-", todo |-> todo]
  BY <1>4 DEF At, MarkTask
<1>7. t \in AnyTask
  BY <1>2, <1>3, <1>5, <1>6 DEF AnyTask
<1>8. \A b \in Asg : /\ todo[b] \in {"-", "to_dispatch", "wait_dependencies"}
                     /\ todo[b] # "-" => Owner[b] = Owner[a]
  BY <1>1, <1>4 DEF Row
<1>9. t.pc = "activate" /\ t.row = a /\ t.todo = todo
  BY <1>6
<1>10. TaskOK(t)
  BY <1>2, <1>8, <1>9, ApartPc DEF TaskOK, PlanPc
<1> QED
  BY <1>7, <1>9, <1>10

\* The assignments after one that ended, and the end of the mission.
LEMMA WrappingUpSteps ==
  ASSUME Typed, Asm!AssignmentAssumption, NEW h \in Handler, Asm!WrappingUp(h), UNCHANGED world
  PROVE  Step(h)
<1>0. TypeOK /\ handler[h] \in AnyTask /\ TaskOK(handler[h])
  BY TypedTask
<1>pc. handler[h].pc \in Asm!AssignmentPc
  BY SameTasks DEF Asm!WrappingUp, Asm!CheckServices, Asm!CheckAssignments, Asm!CompleteMission, Asm!FailMission,
                   Asm!ListNextAssignments, Asm!Unblock, Asm!ActivateAssignment, Asm!AssignmentPc
<1>a. PICK a \in Asg : a = handler[h].row
  BY <1>pc, AssignmentOf
<1>o. Ordered(Owner[a])
  BY <1>pc, <1>a, AssignmentOf
<1>1. CASE Asm!CheckServices(h) \/ Asm!CheckAssignments(h)
  <2>1. PICK pc \in {"checkAssignments", "listNextAssignments", "completeMission"} :
          /\ Becomes(h, At(pc, a, "-"))
          /\ UNCHANGED <<mission, service_requests, assignments, events_queue, field>>
    <3>1. CASE Asm!CheckServices(h)
      BY <3>1, <1>a, SameTasks, SameTerms DEF Asm!CheckServices, Asm!field, field
    <3>2. CASE Asm!CheckAssignments(h)
      BY <3>2, <1>a, SameTasks, SameTerms DEF Asm!CheckAssignments, Asm!field, field
    <3> QED
      BY <1>1, <3>1, <3>2
  <2>2. Quiet /\ events_queue' \in [Event -> Nat] /\ mission' \in MissionStatus
    BY <1>0, <2>1, QuietSame DEF TypeOK
  <2>3. pc \in Asm!AssignmentPc
    BY DEF Asm!AssignmentPc
  <2> QED
    BY <1>o, <2>1, <2>2, <2>3, NextTask, NoRowsStep, FieldSame
<1>2. CASE Asm!CompleteMission(h)
  <2>1. /\ SetMissionWhere(UncompleteMission, "assignments_completed", {})
        /\ Becomes(h, At("listNextAssignments", a, "-"))
        /\ UNCHANGED <<service_requests, assignments, field>>
    BY <1>2, <1>a, SameTasks, SameTerms, SameMission, SameSets DEF Asm!CompleteMission, Asm!field, field
  <2>2. Quiet /\ events_queue' \in [Event -> Nat] /\ mission' \in MissionStatus
    BY <2>1, SameSets, QuietMission
  <2>3. "listNextAssignments" \in Asm!AssignmentPc
    BY DEF Asm!AssignmentPc
  <2> QED
    BY <1>o, <2>1, <2>2, <2>3, NextTask, NoRowsStep, FieldSame
<1>3. CASE Asm!FailMission(h)
  <2>1. /\ SetMissionWhere(RunningMission, "assignment_failed", {}) /\ Becomes(h, Idle)
        /\ UNCHANGED <<service_requests, assignments, field>>
    BY <1>3, SameTasks, SameTerms, SameMission, SameSets DEF Asm!FailMission, Asm!field, field
  <2>2. Quiet /\ events_queue' \in [Event -> Nat] /\ mission' \in MissionStatus
    BY <2>1, SameSets, QuietMission
  <2> QED
    BY <2>1, <2>2, IdleTask, NoRowsStep, FieldSame DEF Asm!AssignmentPc
<1>4. CASE Asm!ListNextAssignments(h)
  <2>1. PICK next, mark : /\ next = {b \in NextAsg[a] : assignments[b] # "canceled"}
                          /\ mark = [b \in Asg |-> IF DependsAsg[b] = {} THEN "to_dispatch" ELSE "wait_dependencies"]
    OBVIOUS
  <2>2. next \in SUBSET NextAsg[a] /\ next \subseteq Asg
    BY <2>1 DEF Asm!AssignmentAssumption
  <2>3. PICK t : t = MarkTask("activate", a, next, mark)
    OBVIOUS
  <2>4. /\ Becomes(h, IF next = {} THEN Idle ELSE t)
        /\ UNCHANGED <<mission, service_requests, assignments, events_queue, field>>
    <3>1. [x \in Row |-> IF x \in next THEN (IF DependsAsg[x] = {} THEN "to_dispatch" ELSE "wait_dependencies") ELSE "-"]
            = [x \in Row |-> IF x \in next THEN mark[x] ELSE "-"]
      BY <2>1, <2>2
    <3>2. /\ Becomes(h, IF next = {} THEN Idle
                          ELSE [At("activate", a, "-") EXCEPT
                                  !.todo = [x \in Row |-> IF x \in next THEN (IF DependsAsg[x] = {} THEN "to_dispatch"
                                                                             ELSE "wait_dependencies") ELSE "-"]])
          /\ UNCHANGED <<mission, service_requests, assignments, events_queue, field>>
      BY <1>4, <1>a, <2>1, SameTasks, SameTerms DEF Asm!ListNextAssignments, Asm!field, field
    <3> QED
      BY <2>3, <3>1, <3>2 DEF MarkTask
  <2>5. Quiet /\ events_queue' \in [Event -> Nat] /\ mission' \in MissionStatus
    BY <1>0, <2>4, QuietSame DEF TypeOK
  <2>6. \A b \in Asg : mark[b] \in {"to_dispatch", "wait_dependencies"}
    BY <2>1
  <2>7. t \in AnyTask /\ TaskOK(t) /\ t.pc = "activate" /\ t.row = a
    BY <2>2, <2>3, <2>6, NextAssignments
  <2>8. CASE next = {}
    BY <2>4, <2>5, <2>8, IdleTask, NoRowsStep, FieldSame DEF Asm!AssignmentPc
  <2>9. CASE next # {}
    BY <1>o, <2>4, <2>5, <2>7, <2>9, NoRowsStep, FieldSame DEF Asm!AssignmentPc
  <2> QED
    BY <2>8, <2>9
<1>5. CASE Asm!Unblock(h)
  <2>1. PICK rows : rows = {b \in {a} : assignments[b] = "wait_dependencies"}
    OBVIOUS
  <2>2. /\ SetAssignments(rows, "to_dispatch", {}) /\ Becomes(h, Idle) /\ UNCHANGED <<mission, service_requests, field>>
    BY <1>5, <1>a, <2>1, SameTasks, SameTerms, SameAssignments DEF Asm!Unblock, Asm!field, field
  <2>3. rows \in SUBSET Asg /\ \A b \in rows : b = a
    BY <2>1
  <2>4. "to_dispatch" \in AssignmentStatus
    BY DEF AssignmentStatus
  <2> QED
    BY <1>o, <2>2, <2>3, <2>4, IdleTask, RowsStep DEF Asm!AssignmentPc
<1>6. CASE \E b \in Asg : Asm!ActivateAssignment(h, b)
  <2>1. PICK b \in Asg : Asm!ActivateAssignment(h, b)
    BY <1>6
  <2>2. PICK s : s = handler[h].todo[b]
    OBVIOUS
  <2>3. /\ handler[h].pc = "activate" /\ s # "-" /\ SetAssignments({b}, s, {})
        /\ UNCHANGED <<mission, service_requests, field>>
    BY <2>1, <2>2, SameTasks, SameAssignments DEF Asm!ActivateAssignment, Asm!field, field
  <2>4. PICK t \in {Idle, Without(handler[h], b)} : Becomes(h, t)
    BY <2>1, SameTasks, SameTerms DEF Asm!ActivateAssignment, Asm!DoneWith, Without
  <2>5. s \in {"to_dispatch", "wait_dependencies"} /\ Owner[b] = Owner[a]
    BY <1>0, <1>a, <2>2, <2>3 DEF TaskOK
  <2>6. s \in AssignmentStatus /\ s \notin {"succeeded", "completed"}
    BY <2>5 DEF AssignmentStatus
  <2>7. /\ t \in AnyTask /\ TaskOK(t) /\ t.pc \in {"idle", "activate"}
        /\ t.pc = "activate" => t.row = a
    <3>1. CASE t = Idle
      BY <3>1, IdleTask
    <3>2. CASE t # Idle
      <4>1. b \in Row
        BY DEF Row
      <4>2. /\ t \in AnyTask /\ t.pc = "activate" /\ t.row = a
            /\ t.todo[b] = "-" /\ \A y \in Row : y # b => t.todo[y] = handler[h].todo[y]
        BY <1>0, <1>a, <2>3, <2>4, <3>2, <4>1, EntryDone
      <4>3. \A c \in Asg : /\ t.todo[c] \in {"-", "to_dispatch", "wait_dependencies"}
                           /\ t.todo[c] # "-" => Owner[c] = Owner[a]
        BY <1>0, <1>a, <2>3, <4>2 DEF TaskOK, Row
      <4>4. TaskOK(t)
        BY <1>pc, <2>3, <4>2, <4>3, ApartPc DEF TaskOK, PlanPc
      <4> QED
        BY <4>2, <4>4
    <3> QED
      BY <3>1, <3>2
  <2> QED
    BY <1>o, <2>3, <2>4, <2>5, <2>6, <2>7, RowsStep DEF Asm!AssignmentPc
<1> QED
  BY <1>1, <1>2, <1>3, <1>4, <1>5, <1>6 DEF Asm!WrappingUp

\* An event of an assignment that is there.
LEMMA EventOrdered ==
  ASSUME NEW a \in Asg, NEW s \in HandledAssignment, Queued(AssignmentEvent(a, s))
  PROVE  Ordered(Owner[a])
BY PipelineAssumption DEF Ordered, Known, AsgNews

\* The handlers of an assignment's events.
LEMMA HandleAssignmentSteps ==
  ASSUME Typed, Asm!AssignmentAssumption, NEW h \in Handler, Asm!Handle(h), UNCHANGED world
  PROVE  Step(h)
<1>0. TypeOK
  BY TypedTask
<1>1. PICK a \in Asg : \/ Asm!HandleToDispatch(h, a) \/ Asm!HandleSucceeded(h, a) \/ Asm!HandleCanceled(h, a)
                       \/ Asm!HandleAssignmentCanceling(h, a) \/ Asm!HandleAssignmentFailure(h, a)
  BY DEF Asm!Handle
<1>2. CASE Asm!HandleSucceeded(h, a)
  <2>1. PICK e : e = AssignmentEvent(a, "succeeded")
    OBVIOUS
  <2>2. /\ Queued(e) /\ SetAssignments({a}, "completed", {e})
        /\ Becomes(h, At("checkServices", a, "-")) /\ UNCHANGED <<mission, service_requests, field>>
    BY <1>2, <2>1, SameTasks, SameTerms, SameAssignments DEF Asm!HandleSucceeded, Asm!field, field
  <2>3. Ordered(Owner[a])
    BY <2>1, <2>2, EventOrdered DEF HandledAssignment
  <2>4. Succeeded(a)
    BY <2>1, <2>2 DEF Succeeded
  <2>5. "checkServices" \in Asm!AssignmentPc /\ "completed" \in AssignmentStatus
    BY DEF Asm!AssignmentPc, AssignmentStatus
  <2> QED
    BY <2>2, <2>3, <2>4, <2>5, NextTask, RowsStep
<1>3. CASE Asm!HandleToDispatch(h, a) \/ Asm!HandleCanceled(h, a) \/ Asm!HandleAssignmentFailure(h, a)
  <2>1. PICK s \in HandledAssignment, pc \in {"order", "checkServices", "failMission"} :
          /\ Queued(AssignmentEvent(a, s)) /\ TakeAndLeave({AssignmentEvent(a, s)}, {})
          /\ Becomes(h, At(pc, a, "-"))
          /\ UNCHANGED <<mission, service_requests, assignments, field>>
    <3>1. CASE Asm!HandleToDispatch(h, a)
      BY <3>1, SameTasks, SameTerms, SameQueue DEF Asm!HandleToDispatch, Asm!field, field, HandledAssignment
    <3>2. CASE Asm!HandleCanceled(h, a)
      BY <3>2, SameTasks, SameTerms, SameQueue DEF Asm!HandleCanceled, Asm!field, field, HandledAssignment
    <3>3. CASE Asm!HandleAssignmentFailure(h, a)
      <4>1. PICK s \in {"failed", "aborted", "rejected"} :
              /\ Queued(AssignmentEvent(a, s)) /\ TakeAndLeave({AssignmentEvent(a, s)}, {})
              /\ Becomes(h, At(IF a \in Continues THEN "checkServices" ELSE "failMission", a, "-"))
              /\ UNCHANGED <<mission, service_requests, assignments, field>>
        BY <3>3, SameTasks, SameTerms, SameQueue DEF Asm!HandleAssignmentFailure, Asm!field, field
      <4> QED
        BY <4>1 DEF HandledAssignment
    <3> QED
      BY <1>3, <3>1, <3>2, <3>3
  <2>2. \A e \in {AssignmentEvent(a, s)} : Queued(e)
    BY <2>1
  <2>3. Quiet /\ events_queue' \in [Event -> Nat]
    BY <2>1, <2>2, QuietQueue
  <2>4. Ordered(Owner[a]) /\ mission' \in MissionStatus
    BY <1>0, <2>1, EventOrdered DEF TypeOK
  <2>5. pc \in Asm!AssignmentPc
    BY DEF Asm!AssignmentPc
  <2> QED
    BY <2>1, <2>3, <2>4, <2>5, NextTask, NoRowsStep, FieldSame
<1>4. CASE Asm!HandleAssignmentCanceling(h, a)
  <2>1. PICK e : e = AssignmentEvent(a, "canceling")
    OBVIOUS
  <2>2. /\ Queued(e) /\ TakeAndLeave({e}, {}) /\ Becomes(h, At("markCanceled", a, "-"))
        /\ agent' = [agent EXCEPT ![a] = IF @ = "working" THEN "stopping" ELSE @]
        /\ UNCHANGED <<mission, service_requests, assignments, sent, done>>
    BY <1>4, <2>1, SameTasks, SameTerms, SameQueue DEF Asm!HandleAssignmentCanceling
  <2>3. Ordered(Owner[a]) /\ mission' \in MissionStatus
    BY <1>0, <2>1, <2>2, EventOrdered DEF TypeOK, HandledAssignment
  <2>4. \A f \in {e} : Queued(f)
    BY <2>2
  <2>5. Quiet /\ events_queue' \in [Event -> Nat]
    BY <2>2, <2>4, QuietQueue
  <2>6. sent' \in [Asg -> Nat] /\ agent' \in [Asg -> Asm!AgentState] /\ done' \subseteq Asg /\ done \subseteq done'
    BY <1>0, <2>2 DEF TypeOK, Asm!AgentState
  <2>7. \A b \in Asg : agent'[b] # "none" \/ sent'[b] > 0 => agent[b] # "none" \/ sent[b] > 0 \/ Ordered(Owner[b])
    BY <1>0, <2>2 DEF TypeOK
  <2>8. "markCanceled" \in Asm!AssignmentPc
    BY DEF Asm!AssignmentPc
  <2> QED
    BY <2>2, <2>3, <2>5, <2>6, <2>7, <2>8, NextTask, NoRowsStep
<1> QED
  BY <1>1, <1>2, <1>3, <1>4

\* The watcher and the agents.
LEMMA FieldSteps ==
  ASSUME Typed, Asm!AssignmentAssumption, NEW h \in Handler,
         Asm!Watch(h) \/ \E a \in Asg : Asm!AgentReports(h, a), UNCHANGED world
  PROVE  Step(h)
<1>0. TypeOK
  BY TypedTask
<1>1. CASE Asm!Watch(h)
  <2>1. PICK b \in Asg : Asm!FindUnblocked(h, b)
    BY <1>1 DEF Asm!Watch
  <2>2. /\ assignments[b] = "wait_dependencies" /\ Becomes(h, At("unblock", b, "-"))
        /\ UNCHANGED <<mission, service_requests, assignments, events_queue, field>>
    BY <2>1, SameTasks, SameTerms DEF Asm!FindUnblocked, Asm!field, field
  <2>3. Quiet /\ events_queue' \in [Event -> Nat] /\ mission' \in MissionStatus
    BY <1>0, <2>2, QuietSame DEF TypeOK
  <2>4. Ordered(Owner[b])
    BY <2>2 DEF Ordered, Known
  <2>5. "unblock" \in Asm!AssignmentPc
    BY DEF Asm!AssignmentPc
  <2> QED
    BY <2>2, <2>3, <2>4, <2>5, NextTask, NoRowsStep, FieldSame
<1>2. CASE \E a \in Asg : Asm!AgentReports(h, a)
  <2>1. PICK a \in Asg : Asm!AgentReports(h, a)
    BY <1>2
  <2>2. PICK s \in Reports :
          /\ agent[a] \in {"working", "stopping"}
          /\ agent' = [agent EXCEPT ![a] = IF s \in AfterDispatch THEN @ ELSE "over"]
          /\ done' = IF s = "succeeded" THEN done \cup {a} ELSE done
          /\ \/ Becomes(h, Idle)
             \/ s \in {"canceled", "aborted", "failed"} /\ Becomes(h, At("saveReport", a, s))
             \/ Becomes(h, At("saveReportWhere", a, s))
          /\ UNCHANGED <<mission, service_requests, assignments, events_queue, sent>>
    BY <2>1, SameTasks, SameTerms, SameSets DEF Asm!AgentReports
  <2>3. Quiet /\ events_queue' \in [Event -> Nat] /\ mission' \in MissionStatus
    BY <1>0, <2>2, QuietSame DEF TypeOK
  <2>4. Ordered(Owner[a])
    BY <2>2 DEF Ordered, Known
  <2>5. sent' \in [Asg -> Nat] /\ agent' \in [Asg -> Asm!AgentState] /\ done' \subseteq Asg /\ done \subseteq done'
    BY <1>0, <2>2 DEF TypeOK, Asm!AgentState
  <2>6. \A b \in Asg : agent'[b] # "none" \/ sent'[b] > 0 => agent[b] # "none" \/ sent[b] > 0 \/ Ordered(Owner[b])
    BY <1>0, <2>2, <2>4 DEF TypeOK
  <2>7. s \in Mark
    BY DEF Asm!AssignmentAssumption, Mark, AssignmentStatus
  <2>8. CASE Becomes(h, Idle)
    BY <2>2, <2>3, <2>5, <2>6, <2>8, IdleTask, NoRowsStep DEF Asm!AssignmentPc
  <2>9. CASE ~Becomes(h, Idle)
    <3>1. PICK pc \in {"saveReport", "saveReportWhere"} :
            /\ Becomes(h, At(pc, a, s))
            /\ pc = "saveReport" => s \in {"canceled", "aborted", "failed"}
      BY <2>2, <2>9
    <3>2. PICK t : t = At(pc, a, s)
      OBVIOUS
    <3>3. pc \in Pc /\ pc \in Asm!AssignmentPc /\ a \in Row
      BY DEF Pc, Asm!AssignmentPc, Row
    <3>4. t \in AnyTask /\ t.pc = pc /\ t.row = a /\ t.val = s
      BY <2>7, <3>2, <3>3, AtTask
    <3>5. TaskOK(t)
      BY <3>1, <3>3, <3>4, ApartPc DEF TaskOK, PlanPc, Svc!RequestPc
    <3>6. t.pc = "saveReportWhere" /\ t.val = "succeeded" => t.row \in done'
      BY <2>2, <3>4
    <3> QED
      BY <2>2, <2>3, <2>4, <2>5, <2>6, <3>1, <3>2, <3>3, <3>4, <3>5, <3>6, NoRowsStep
  <2> QED
    BY <2>8, <2>9
<1> QED
  BY <1>1, <1>2

\* All of them.
LEMMA AssignmentSteps ==
  ASSUME Typed, Asm!AssignmentAssumption, NEW h \in Handler, AssignmentStep(h)
  PROVE  Step(h)
BY OrderingSteps, WrappingUpSteps, HandleAssignmentSteps, FieldSteps DEF AssignmentStep, Asm!Continue

----------------------------------------------------------------------------
(* The plans *)

\* A computation that goes on with a plan.
LEMMA PlanTurn ==
  ASSUME NEW h \in Handler, handler[h].pc \in PlanPc, handler'[h].row = handler[h].row,
         handler'[h].pc \in PlanPc \ {"insertAssignments"}, NEW r \in Req
  PROVE  TaskMoves(r, h)
BY DEF TaskMoves, ServiceMoves, PipelineMoves, PlanMoves, Dispatches, Serves, Frees, Lists, Marks, Inserts, Plans, PlanPc

\* The list of a plan.
PlanTask(t, pc, r, mode, todo) == t = [At(pc, r, mode) EXCEPT !.todo = todo]

\* It is a task that fits.
LEMMA PlanTyped ==
  ASSUME NEW t, NEW pc \in {"dispatchPlan", "reorderPlan", "flagDispatched"}, NEW r \in Planner,
         NEW mode \in Mark \cup {"error"} \cup DispatchModes, NEW todo \in [Row -> Mark], PlanTask(t, pc, r, mode, todo),
         pc # "flagDispatched" =>
           \A a \in Asg : /\ todo[a] \in {"-", "to_dispatch", "not_ready_to_dispatch"}
                          /\ todo[a] # "-" => Owner[a] = r
  PROVE  t \in AnyTask /\ TaskOK(t) /\ t.pc = pc /\ t.row = r
<1>1. t = [pc |-> pc, row |-> r, val |-> mode, todo |-> todo]
  BY DEF PlanTask, At
<1>2. pc \in Pc /\ r \in Row /\ pc \in PlanPc
  BY PipelineAssumption DEF Pc, PlanPc, Row
<1>3. t.pc = pc /\ t.row = r /\ t.todo = todo
  BY <1>1
<1>4. t \in AnyTask
  BY <1>1, <1>2 DEF AnyTask
<1>5. TaskOK(t)
  BY <1>2, <1>3, ApartPc DEF TaskOK
<1> QED
  BY <1>3, <1>4, <1>5

\* What the stages of a plan write.
LEMMA Stages ==
  ASSUME NEW r \in Planner, NEW mode
  PROVE  /\ \A todo \in {FirstWrites(r, mode), LaterWrites(r, mode)} :
              /\ todo \in [Row -> Mark]
              /\ \A a \in Asg : /\ todo[a] \in {"-", "to_dispatch", "not_ready_to_dispatch"}
                                /\ todo[a] # "-" => Owner[a] = r
         /\ Flags(r) \in [Row -> Mark]
<1>1. {"to_dispatch", "not_ready_to_dispatch", "-", "executing"} \subseteq Mark /\ \A a \in Asg : a \in Row
  BY DEF Mark, AssignmentStatus, Row
<1>2. PICK rows : /\ rows = (IF mode = "assignment_order_array" THEN {a \in Plan(r) : DependsAsg[a] = {}} ELSE Plan(r))
  OBVIOUS
<1>3. FirstWrites(r, mode) = [x \in Row |-> IF x \in rows THEN "to_dispatch" ELSE "-"]
  BY <1>2 DEF FirstWrites, Writes
<1>4. PICK again : again = {a \in Plan(r) : mode = "dispatch_order_array" /\ (NextAsg[a] # {} \/ DependsAsg[a] = {})}
  OBVIOUS
<1>5. LaterWrites(r, mode) = [x \in Row |-> IF x \in again THEN (IF DependsAsg[x] = {} THEN "to_dispatch" ELSE "not_ready_to_dispatch") ELSE "-"]
  BY <1>4 DEF LaterWrites, Writes
<1>6. Flags(r) = [x \in Row |-> IF x \in Plan(r) THEN "executing" ELSE "-"]
  BY DEF Flags, Writes
<1>7. \A a : a \in rows \/ a \in again => Owner[a] = r
  BY <1>2, <1>4 DEF Plan
<1>8. FirstWrites(r, mode) \in [Row -> Mark] /\ LaterWrites(r, mode) \in [Row -> Mark] /\ Flags(r) \in [Row -> Mark]
  BY <1>1, <1>3, <1>5, <1>6
<1>9. \A a \in Asg : /\ FirstWrites(r, mode)[a] \in {"-", "to_dispatch", "not_ready_to_dispatch"}
                     /\ FirstWrites(r, mode)[a] # "-" => Owner[a] = r
                     /\ LaterWrites(r, mode)[a] \in {"-", "to_dispatch", "not_ready_to_dispatch"}
                     /\ LaterWrites(r, mode)[a] # "-" => Owner[a] = r
  BY <1>1, <1>3, <1>5, <1>7
<1> QED
  BY <1>8, <1>9

\* Inserting the rows.
LEMMA InsertSteps ==
  ASSUME Typed, NEW h \in Handler, InsertAssignments(h)
  PROVE  Step(h)
<1>0. TypeOK /\ handler[h] \in AnyTask /\ TaskOK(handler[h])
  BY TypedTask
<1>r. PICK r \in Planner : r = handler[h].row /\ handler[h].pc = "insertAssignments"
  BY <1>0 DEF InsertAssignments, IsAt, TaskOK, PlanPc
<1>q. r \in Req /\ r \in Row /\ "-" \in Mark
  BY PipelineAssumption DEF Row, Mark
<1>1. /\ assignments' = [a \in Asg |-> IF a \in Plan(r) THEN "not_ready_to_dispatch" ELSE assignments[a]]
      /\ UNCHANGED <<mission, service_requests, events_queue, world, field>>
  BY <1>r DEF InsertAssignments
<1>2. PICK t : /\ Becomes(h, t) /\ t \in AnyTask /\ TaskOK(t) /\ t.row = r
               /\ t.pc = "planDone" \/ t.pc = "dispatchPlan"
  <2>1. PICK mode \in DispatchModes :
          Becomes(h, IF Plan(r) = {} THEN At("planDone", r, "-")
                     ELSE [At("dispatchPlan", r, mode) EXCEPT !.todo = FirstWrites(r, mode)])
    BY <1>r DEF InsertAssignments
  <2>2. CASE Plan(r) = {}
    <3>1. "planDone" \in PlainPc /\ "planDone" \in PlanPc
      BY DEF PlainPc, Pc, PlanPc
    <3>2. At("planDone", r, "-") \in AnyTask /\ TaskOK(At("planDone", r, "-"))
      BY <1>q, <3>1, ApartPc, PlainTask
    <3> QED
      BY <2>1, <2>2, <3>2 DEF At
  <2>3. CASE Plan(r) # {}
    <3>1. PICK t : t = [At("dispatchPlan", r, mode) EXCEPT !.todo = FirstWrites(r, mode)]
      OBVIOUS
    <3>2. PICK todo : todo = FirstWrites(r, mode)
      OBVIOUS
    <3>3. PlanTask(t, "dispatchPlan", r, mode, todo)
      BY <3>1, <3>2 DEF PlanTask
    <3>4. /\ todo \in [Row -> Mark]
          /\ \A a \in Asg : /\ todo[a] \in {"-", "to_dispatch", "not_ready_to_dispatch"}
                            /\ todo[a] # "-" => Owner[a] = r
      BY <3>2, Stages
    <3>5. PICK m \in Mark \cup {"error"} \cup DispatchModes : m = mode
      OBVIOUS
    <3>6. PlanTask(t, "dispatchPlan", r, m, todo)
      BY <3>3, <3>5
    <3>7. t \in AnyTask /\ TaskOK(t) /\ t.pc = "dispatchPlan" /\ t.row = r
      BY <3>4, <3>6, PlanTyped
    <3> QED
      BY <2>1, <2>3, <3>1, <3>7
  <2> QED
    BY <2>2, <2>3
<1>3. Others(h) /\ handler'[h] = t
  BY <1>2, OneMoves
<1>4. Quiet /\ events_queue' \in [Event -> Nat] /\ mission' \in MissionStatus /\ service_requests' \in [Req -> RequestRow]
  BY <1>0, <1>1, QuietSame DEF TypeOK
<1>5. (\A x \in Req : RowSame(x)) /\ AsgQuiet
  BY <1>1, <1>4, RowsSame
<1>6. /\ assignments' \in [Asg -> AssignmentStatus \cup {"absent"}]
      /\ calls' \in [Req -> Nat] /\ calls' = calls /\ answered' = answered
      /\ sent' = sent /\ agent' = agent /\ done' = done /\ events_queue' = events_queue
      /\ sent' \in [Asg -> Nat] /\ agent' \in [Asg -> Asm!AgentState] /\ done' \subseteq Asg
  <2>1. assignments' \in [Asg -> AssignmentStatus \cup {"absent"}]
    BY <1>0, <1>1 DEF TypeOK, AssignmentStatus
  <2> QED
    BY <1>1, <2>1 DEF Typed, TypeOK, world, field
<1>7. Typed'
  BY <1>2, <1>4, <1>6, StepTyped
<1>8. \A x \in Req : CallsMove(x, h) /\ TaskMoves(x, h)
  <2>1. t.pc \in PlanPc \ {"insertAssignments"} /\ handler[h].pc \in PlanPc
    BY <1>2, <1>r DEF PlanPc
  <2> QED
    BY <1>2, <1>3, <1>6, <1>r, <2>1, PlanTurn DEF CallsMove
<1>9. Advance(h)
  BY <1>1, <1>3, <1>4, <1>5, <1>6, <1>8, RequestsUntouched
<1>10. AssignmentsAdvance(h)
  <2>1. InsertsAll(r, h)
    BY <1>1, <1>r DEF InsertsAll, Inserts, Plan
  <2>2. ASSUME NEW x \in Req, Ordered(x)'
        PROVE  Ordered(x) \/ x = r
    <3>1. CASE \E a \in Asg : Owner[a] = x /\ Known(a)'
      <4>1. PICK a \in Asg : Owner[a] = x /\ Known(a)'
        BY <3>1
      <4>2. Known(a) \/ a \in Plan(r)
        BY <1>1, <1>6, <4>1 DEF Known, Queued
      <4> QED
        BY <4>1, <4>2 DEF Ordered, Plan
    <3>2. CASE \E g \in Handler : Assigns(handler'[g], x)
      <4>1. PICK g \in Handler : Assigns(handler'[g], x)
        BY <3>2
      <4>2. g = h => x = r
        BY <1>2, <1>3, <4>1, ApartPc DEF Assigns, PlanPc
      <4>3. g # h => Ordered(x)
        BY <1>3, <4>1 DEF Others, Ordered
      <4> QED
        BY <4>2, <4>3
    <3> QED
      BY <2>2, <3>1, <3>2 DEF Ordered
  <2>3. ASSUME NEW a \in Asg, Succeeded(a)'
        PROVE  Succeeded(a)
    <3>1. \A g \in Handler : Reported(handler'[g], a) => Reported(handler[g], a)
      BY <1>2, <1>3 DEF Others, Reported
    <3>2. assignments'[a] \in {"succeeded", "completed"} => assignments[a] \in {"succeeded", "completed"}
      BY <1>1
    <3> QED
      BY <1>6, <2>3, <3>1, <3>2 DEF Succeeded, Queued
  <2>4. \A a \in Asg : assignments[a] # "absent" => assignments'[a] # "absent"
    BY <1>1
  <2> QED
    BY <2>1, <2>2, <2>3, <2>4 DEF AssignmentsAdvance
<1> QED
  BY <1>7, <1>9, <1>10 DEF Step

\* Writing their statuses.
LEMMA WritePlanSteps ==
  ASSUME Typed, NEW h \in Handler, NEW a \in Asg, WriteAssignment(h, a)
  PROVE  Step(h)
<1>0. TypeOK /\ handler[h] \in AnyTask /\ TaskOK(handler[h])
  BY TypedTask
<1>1. PICK pc \in {"dispatchPlan", "reorderPlan"} :
        /\ handler[h].pc = pc /\ handler[h].todo[a] # "-"
        /\ SetAssignments({a}, handler[h].todo[a], {})
        /\ DoneWith(h, a, AfterStage(pc, handler[h].row, handler[h].val))
        /\ UNCHANGED <<mission, service_requests, world, field>>
  BY DEF WriteAssignment, IsAt
<1>r. PICK r \in Planner : r = handler[h].row
  BY <1>0, <1>1 DEF TaskOK, PlanPc
<1>v. PICK mode \in Mark \cup {"error"} \cup DispatchModes : mode = handler[h].val
  BY <1>0 DEF AnyTask
<1>s. PICK s \in {"to_dispatch", "not_ready_to_dispatch"} : s = handler[h].todo[a] /\ Owner[a] = r
  BY <1>0, <1>1, <1>r DEF TaskOK
<1>2. PICK t \in {AfterStage(pc, r, mode), Without(handler[h], a)} : Becomes(h, t)
  BY <1>1, <1>r, <1>v DEF DoneWith, Without
<1>3. t \in AnyTask /\ TaskOK(t) /\ t.row = r /\ t.pc \in {"dispatchPlan", "reorderPlan", "flagDispatched"}
  <2>1. CASE t = Without(handler[h], a)
    <3>1. a \in Row
      BY DEF Row
    <3>2. /\ t \in AnyTask /\ t.pc = pc /\ t.row = r
          /\ t.todo[a] = "-" /\ \A y \in Row : y # a => t.todo[y] = handler[h].todo[y]
      BY <1>0, <1>1, <1>r, <2>1, <3>1, EntryDone
    <3>3. \A b \in Asg : /\ t.todo[b] \in {"-", "to_dispatch", "not_ready_to_dispatch"}
                         /\ t.todo[b] # "-" => Owner[b] = r
      BY <1>0, <1>1, <1>r, <3>2 DEF TaskOK, Row
    <3>4. pc \in PlanPc
      BY DEF PlanPc
    <3>5. TaskOK(t)
      BY <3>2, <3>3, <3>4, ApartPc DEF TaskOK
    <3> QED
      BY <3>2, <3>5
  <2>2. CASE t = AfterStage(pc, r, mode)
    <3>1. \/ PlanTask(t, "reorderPlan", r, mode, LaterWrites(r, mode))
          \/ PlanTask(t, "flagDispatched", r, "-", Flags(r))
      BY <2>2 DEF AfterStage, PlanTask
    <3>2. PICK later, flags : later = LaterWrites(r, mode) /\ flags = Flags(r)
      OBVIOUS
    <3>3. /\ later \in [Row -> Mark] /\ flags \in [Row -> Mark]
          /\ \A b \in Asg : /\ later[b] \in {"-", "to_dispatch", "not_ready_to_dispatch"}
                            /\ later[b] # "-" => Owner[b] = r
      BY <3>2, Stages
    <3>4. "-" \in Mark
      BY DEF Mark
    <3>5. CASE PlanTask(t, "reorderPlan", r, mode, later)
      BY <3>3, <3>5, PlanTyped
    <3>6. CASE PlanTask(t, "flagDispatched", r, "-", flags)
      BY <3>3, <3>4, <3>6, PlanTyped
    <3> QED
      BY <3>1, <3>2, <3>5, <3>6
  <2> QED
    BY <1>2, <2>1, <2>2
<1>4. handler'[h] = t
  BY <1>2, <1>3, OneMoves
<1>5. Ordered(r)
  BY <1>1, <1>r DEF Ordered, Assigns
<1>6. \A x \in Req : TaskMoves(x, h)
  <2>1. t.pc \in PlanPc \ {"insertAssignments"} /\ handler[h].pc \in PlanPc
    BY <1>1, <1>3 DEF PlanPc
  <2> QED
    BY <1>3, <1>4, <1>r, <2>1, PlanTurn
<1>7. AssignmentTurns(h)
  BY <1>3, <1>4, <1>5, ApartPc DEF AssignmentTurns, Assigns, Reported, PlanPc
<1>8. s \in AssignmentStatus /\ s \notin {"succeeded", "completed"}
  BY DEF AssignmentStatus
<1> QED
  BY <1>1, <1>2, <1>3, <1>5, <1>6, <1>7, <1>8, <1>s, OrderStep

\* Going on after the plan.
LEMMA AfterReadyTask ==
  ASSUME NEW r \in Req
  PROVE  LET t == Svc!AfterReady(r) IN
         /\ t \in AnyTask /\ TaskOK(t) /\ t.pc \in {"idle", "wrapUp", "listNext"}
         /\ t.pc = "listNext" => t.row = r
<1>1. Svc!AfterReady(r) \in {At("listNext", r, "-"), At("wrapUp", r, "-"), Idle}
  BY SameTerms, Zenon DEF Svc!AfterReady
<1>2. /\ "listNext" \in PlainPc /\ "wrapUp" \in PlainPc /\ r \in Row /\ "-" \in Mark
      /\ "listNext" \in Svc!ServicePc /\ "wrapUp" \in Svc!ServicePc
  BY DEF PlainPc, Pc, Row, Mark, Svc!ServicePc
<1>3. \A pc \in {"listNext", "wrapUp"} :
        /\ At(pc, r, "-") \in AnyTask /\ TaskOK(At(pc, r, "-")) /\ At(pc, r, "-").pc = pc /\ At(pc, r, "-").row = r
  BY <1>2, ApartPc, PlainTask DEF At
<1> QED
  BY <1>1, <1>3, IdleTask

\* The plan is inserted, dispatched and flagged.
LEMMA PlanningSteps ==
  ASSUME Typed, NEW h \in Handler, Planning(h)
  PROVE  Step(h)
<1>0. TypeOK /\ handler[h] \in AnyTask /\ TaskOK(handler[h])
  BY TypedTask
<1>pc. handler[h].pc \in PlanPc
  BY DEF Planning, InsertAssignments, FlagDispatched, MarkMissionExecuting, PlanDone, WriteAssignment, IsAt, PlanPc
<1>r. PICK r \in Planner : r = handler[h].row
  BY <1>0, <1>pc DEF TaskOK
<1>q. r \in Req /\ r \in Row /\ "-" \in Mark
  BY PipelineAssumption DEF Row, Mark
<1>1. CASE InsertAssignments(h)
  BY <1>1, InsertSteps
<1>2. CASE \E a \in Asg : WriteAssignment(h, a)
  BY <1>2, WritePlanSteps
<1>3. CASE FlagDispatched(h)
  <2>1. PICK new, t :
          /\ new = [q \in Req |-> [service_requests[q] EXCEPT !.assignment_dispatched = TRUE]]
          /\ t = [handler[h] EXCEPT !.pc = "markMissionExecuting"]
    OBVIOUS
  <2>2. /\ handler[h].pc = "flagDispatched" /\ WriteRequests({r}, new, {}) /\ Becomes(h, t)
        /\ UNCHANGED <<mission, assignments, world, field>>
    BY <1>3, <1>r, <2>1 DEF FlagDispatched, IsAt
  <2>3. "markMissionExecuting" \in PlanPc /\ "markMissionExecuting" \in Pc
    BY DEF PlanPc, Pc
  <2>4. t \in AnyTask /\ t.pc = "markMissionExecuting" /\ t.row = r
    BY <1>0, <1>r, <2>1, <2>3 DEF AnyTask
  <2>5. TaskOK(t)
    BY <2>3, <2>4, ApartPc DEF TaskOK
  <2>6. handler'[h] = t
    BY <2>2, <2>4, OneMoves
  <2>7. \A x \in Req : TaskMoves(x, h)
    BY <1>pc, <1>r, <2>3, <2>4, <2>6, PlanTurn
  <2>8. AssignmentTurns(h)
    BY <2>3, <2>4, <2>6, ApartPc, DullAssignments
  <2>9. PICK row \in RequestRow : row = service_requests[r]
    BY <1>0, <1>q DEF TypeOK
  <2>10. new[r] = [row EXCEPT !.assignment_dispatched = TRUE]
    BY <1>q, <2>1, <2>9
  <2>11. new[r] \in RequestRow /\ new[r].status = row.status /\ new[r].assignment_dispatched = TRUE
    BY <2>9, <2>10 DEF RequestRow
  <2>12. service_requests'[r] = new[r]
    BY <1>q, <2>2 DEF WriteRequests
  <2>13. StatusMoves(r, h)
    BY <2>9, <2>11, <2>12 DEF StatusMoves
  <2>14. FlagMoves(r, h)
    BY <1>r, <2>2, <2>11, <2>12 DEF FlagMoves, Plans, PlanPc
  <2> QED
    BY <1>q, <2>2, <2>4, <2>5, <2>7, <2>8, <2>11, <2>13, <2>14, RequestStep
<1>4. CASE MarkMissionExecuting(h)
  <2>1. PICK a : a = CHOOSE x \in Todo(h) : TRUE
    OBVIOUS
  <2>2. PICK t : t = [handler[h] EXCEPT !.pc = "flagDispatched", !.todo[a] = "-"]
    OBVIOUS
  <2>3. /\ SetMissionWhere({"dispatched", "calculating", "preparing resources"}, "executing", {})
        /\ Becomes(h, IF Todo(h) = {a} THEN At("planDone", r, "-") ELSE t)
        /\ UNCHANGED <<service_requests, assignments, world, field>>
    BY <1>4, <1>r, <2>1, <2>2, Zenon DEF MarkMissionExecuting
  <2>4. \A e \in {} : Queued(e)
    OBVIOUS
  <2>0. PICK allowed : allowed = {"dispatched", "calculating", "preparing resources"}
    OBVIOUS
  <2>s. SetMissionWhere(allowed, "executing", {})
    BY <2>0, <2>3, Zenon
  <2>5. Quiet /\ events_queue' \in [Event -> Nat] /\ mission' \in MissionStatus
    <3> HIDE <2>0, <2>3
    <3>1. "executing" \in MissionStatus
      BY SameSets
    <3> QED
      BY <2>s, <2>4, <3>1, QuietMission
  <2>6. PICK u : Becomes(h, u) /\ u \in AnyTask /\ TaskOK(u) /\ u.row = r /\ u.pc \in {"planDone", "flagDispatched"}
    <3>1. "planDone" \in PlainPc /\ "planDone" \in PlanPc /\ "flagDispatched" \in PlanPc /\ "flagDispatched" \in Pc
      BY DEF PlainPc, Pc, PlanPc
    <3>2. At("planDone", r, "-") \in AnyTask /\ TaskOK(At("planDone", r, "-")) /\ At("planDone", r, "-").row = r
          /\ At("planDone", r, "-").pc = "planDone"
      BY <1>q, <3>1, ApartPc, PlainTask DEF At
    <3>3. t \in AnyTask /\ t.pc = "flagDispatched" /\ t.row = r
      BY <1>0, <1>q, <1>r, <2>2, <3>1 DEF AnyTask
    <3>4. TaskOK(t)
      BY <3>1, <3>3, ApartPc DEF TaskOK
    <3> QED
      BY <2>3, <3>2, <3>3, <3>4
  <2>7. handler'[h] = u
    BY <2>6, OneMoves
  <2>8. u.pc \in PlanPc \ {"insertAssignments"}
    BY <2>6 DEF PlanPc
  <2>9. \A x \in Req : TaskMoves(x, h)
    BY <1>pc, <1>r, <2>6, <2>7, <2>8, PlanTurn
  <2>10. AssignmentTurns(h)
    BY <2>6, <2>7, <2>8, ApartPc, DullAssignments
  <2>11. answered' = answered /\ calls' \in [Req -> Nat] /\ \A x \in Req : CallsMove(x, h)
    BY <2>3 DEF world, Typed, CallsMove
  <2> QED
    BY <2>3, <2>5, <2>6, <2>9, <2>10, <2>11, TaskStep
<1>5. CASE PlanDone(h)
  <2>1. PICK t : t = Svc!AfterReady(r)
    OBVIOUS
  <2>2. /\ handler[h].pc = "planDone" /\ Becomes(h, t)
        /\ UNCHANGED <<mission, service_requests, assignments, events_queue, world, field>>
    BY <1>5, <1>r, <2>1 DEF PlanDone, IsAt
  <2>3. /\ t \in AnyTask /\ TaskOK(t) /\ t.pc \in {"idle", "wrapUp", "listNext"}
        /\ t.pc = "listNext" => t.row = r
    BY <1>q, <2>1, AfterReadyTask
  <2>4. handler'[h] = t
    BY <2>2, <2>3, OneMoves
  <2>5. Quiet /\ events_queue' \in [Event -> Nat] /\ mission' \in MissionStatus
    BY <1>0, <2>2, QuietSame DEF TypeOK
  <2>6. ASSUME NEW x \in Req
        PROVE  TaskMoves(x, h)
    <3>1. Plans(handler[h], r)
      BY <1>r, <2>2 DEF Plans, PlanPc
    <3> QED
      BY <2>3, <2>4, <3>1 DEF TaskMoves, ServiceMoves, PipelineMoves, PlanMoves,
        Dispatches, Serves, Frees, Lists, Marks, Inserts, Plans, PlanPc
  <2>7. AssignmentTurns(h)
    BY <2>3, <2>4, DullAssignments DEF Asm!AssignmentPc
  <2>8. answered' = answered /\ calls' \in [Req -> Nat] /\ \A x \in Req : CallsMove(x, h)
    BY <2>2 DEF world, Typed, CallsMove
  <2> QED
    BY <2>2, <2>3, <2>5, <2>6, <2>7, <2>8, TaskStep
<1> QED
  BY <1>1, <1>2, <1>3, <1>4, <1>5 DEF Planning

\* A planner's result is to be applied.
LEMMA HandlePlanSteps ==
  ASSUME Typed, NEW h \in Handler, NEW r \in Req, HandlePlan(h, r)
  PROVE  Step(h)
<1>0. TypeOK
  BY TypedTask
<1>1. PICK e : e = Ready(r, FALSE)
  OBVIOUS
<1>2. PICK pc \in {"insertAssignments", "planDone"} :
        /\ r \in Planner /\ Queued(e) /\ TakeAndLeave({e}, {}) /\ Becomes(h, At(pc, r, "-"))
        /\ UNCHANGED <<mission, service_requests, assignments, world, field>>
  BY <1>1 DEF HandlePlan, Starts, Ready
<1>3. pc \in PlainPc /\ pc \in PlanPc /\ r \in Row /\ "-" \in Mark
  BY DEF PlainPc, Pc, PlanPc, Row, Mark
<1>4. PICK t : t = At(pc, r, "-") /\ t \in AnyTask /\ TaskOK(t) /\ t.pc = pc /\ t.row = r
  <2>1. At(pc, r, "-") \in AnyTask /\ TaskOK(At(pc, r, "-"))
    BY <1>2, <1>3, ApartPc, PlainTask
  <2> QED
    BY <2>1 DEF At
<1>5. Becomes(h, t) /\ handler'[h] = t
  BY <1>2, <1>4, OneMoves
<1>6. \A f \in {e} : Queued(f)
  BY <1>2
<1>7. Quiet /\ events_queue' \in [Event -> Nat] /\ mission' \in MissionStatus
  BY <1>0, <1>2, <1>6, QuietQueue DEF TypeOK
<1>8. e \in Event /\ events_queue'[e] = events_queue[e] - 1
  <2>1. e \in Event
    BY <1>1, NewsFacts
  <2> QED
    BY <1>2, <1>6, <2>1, Count
<1>9. \A x \in Req : TaskMoves(x, h)
  BY <1>1, <1>2, <1>4, <1>5, <1>8 DEF TaskMoves, ServiceMoves, PipelineMoves, PlanMoves,
        Dispatches, Serves, Frees, Lists, Marks, Inserts, Plans, PlanPc
<1>10. AssignmentTurns(h)
  BY <1>3, <1>4, <1>5, ApartPc, DullAssignments
<1>11. answered' = answered /\ calls' \in [Req -> Nat] /\ \A x \in Req : CallsMove(x, h)
  BY <1>2 DEF world, Typed, CallsMove
<1> QED
  BY <1>2, <1>4, <1>5, <1>7, <1>9, <1>10, <1>11, TaskStep

----------------------------------------------------------------------------
(* The services *)

\* A computation of the pipeline of requests.
LEMMA ServiceTask ==
  ASSUME NEW pc \in Svc!ServicePc, NEW row \in Req, NEW val \in Mark \cup {"error"},
         pc \in {"markPending", "saveResponse"} => val \in {"ready", "pending", "failed", "canceled"},
         NEW t, t = At(pc, row, val)
  PROVE  /\ t \in AnyTask /\ TaskOK(t) /\ t.pc = pc /\ t.row = row /\ t.val = val
         /\ \A x \in Req : t.todo[x] = "-"
<1>1. pc \in Pc /\ row \in Row
  BY DEF Pc, Row
<1>2. /\ t \in AnyTask /\ t.pc = pc /\ t.row = row /\ t.val = val
      /\ \A x \in Row : t.todo[x] = "-"
  BY <1>1, AtTask
<1>3. \A q \in Req : t.todo[q] = "-"
  BY <1>2 DEF Row
<1>4. pc \notin Asm!AssignmentPc /\ pc \notin PlanPc /\ pc # "endMission"
  BY ApartPc DEF Svc!ServicePc
<1>5. TaskOK(t)
  BY <1>2, <1>3, <1>4 DEF TaskOK, Asm!AssignmentPc, PlanPc
<1> QED
  BY <1>2, <1>3, <1>5

\* Whose next statement is not about assignments.
LEMMA ServiceTurns ==
  ASSUME NEW h \in Handler, handler'[h].pc \in Svc!ServicePc \cup {"idle"}
  PROVE  AssignmentTurns(h)
<1>1. handler'[h].pc \notin Asm!AssignmentPc \cup {"dispatchPlan", "reorderPlan"}
  BY DEF Svc!ServicePc, Asm!AssignmentPc
<1> QED
  BY <1>1, DullAssignments

\* A statement on one request.
LEMMA ServiceWrite ==
  ASSUME Typed, NEW h \in Handler, NEW t \in AnyTask, TaskOK(t), Becomes(h, t),
         t.pc \in Svc!ServicePc \cup {"idle"} \/ t = handler[h],
         NEW q \in Req, NEW rows \in SUBSET {q}, NEW s, NEW new,
         \A r \in Req : new[r] \in RequestRow /\ new[r].status = s,
         new[q].assignment_dispatched = Flag(q) \/ (~new[q].assignment_dispatched /\ Marks(handler[h], q)),
         NEW taken, \A e \in taken : Queued(e), WriteRequests(rows, new, taken),
         UNCHANGED <<mission, assignments, world, field>>,
         q \in rows /\ service_requests'[q].status = s => StatusMoves(q, h),
         q \in rows /\ s = "ready" => Status(q) # "ready",
         \A r \in Req : TaskMoves(r, h)
  PROVE  Step(h)
<1>1. handler'[h] = t
  BY OneMoves
<1>2. AssignmentTurns(h)
  BY <1>1, ServiceTurns, DullAssignments
<1>3. \A r \in rows : r = q /\ service_requests'[r] = new[r]
  BY DEF WriteRequests
<1>4. \A r \in rows : StatusMoves(r, h)
  BY <1>3
<1>5. \A r \in rows : FlagMoves(r, h)
  BY <1>3 DEF FlagMoves
<1>6. \A r \in rows : new[r].status = "ready" => Status(r) # "ready" \/ new[r].assignment_dispatched
  BY <1>3
<1>7. rows \in SUBSET Req /\ \A r \in rows : new[r] \in RequestRow
  BY <1>3
<1> QED
  BY <1>2, <1>4, <1>5, <1>6, <1>7, RequestStep

\* One that ends the computation.
EndsWith(h, q, rows, s, new) ==
  /\ Becomes(h, Idle) /\ rows \in SUBSET {q}
  /\ \A r \in Req : new[r] \in RequestRow /\ new[r].status = s /\ new[r].assignment_dispatched = Flag(r)
  /\ WriteRequests(rows, new, {})
  /\ UNCHANGED <<mission, assignments, world, field>>
  /\ q \in rows /\ service_requests'[q].status = s => StatusMoves(q, h)
  /\ q \in rows /\ s = "ready" => Status(q) # "ready"

LEMMA ServiceEnds ==
  ASSUME Typed, NEW h \in Handler, NEW q \in Req, NEW rows, NEW s, NEW new, EndsWith(h, q, rows, s, new)
  PROVE  Step(h)
<1>0. Becomes(h, Idle) /\ rows \in SUBSET {q}
  BY DEF EndsWith
<1>1. handler'[h] = Idle /\ Idle \in AnyTask /\ TaskOK(Idle) /\ Idle.pc = "idle"
  BY <1>0, IdleTask, OneMoves
<1>2. \A r \in Req : TaskMoves(r, h)
  BY <1>1, DullTask DEF RolePc, PlanPc
<1>3. PICK taken : taken = {}
  OBVIOUS
<1>4. (\A e \in taken : Queued(e)) /\ WriteRequests(rows, new, taken)
  BY <1>3 DEF EndsWith
<1>5. PICK t \in AnyTask : t = Idle /\ TaskOK(t) /\ Becomes(h, t) /\ t.pc = "idle"
  BY <1>0, <1>1
<1>6. t.pc \in Svc!ServicePc \cup {"idle"} /\ TaskOK(t) /\ Becomes(h, t)
  BY <1>5
<1>7. /\ \A r \in Req : new[r] \in RequestRow /\ new[r].status = s
      /\ new[q].assignment_dispatched = Flag(q)
      /\ UNCHANGED <<mission, assignments, world, field>>
      /\ q \in rows /\ service_requests'[q].status = s => StatusMoves(q, h)
      /\ q \in rows /\ s = "ready" => Status(q) # "ready"
  BY DEF EndsWith
<1> HIDE <1>1, <1>3, <1>5
<1> QED
  BY <1>0, <1>2, <1>4, <1>6, <1>7, ServiceWrite

\* One on the mission, or none.
LEMMA ServiceTurn ==
  ASSUME Typed, NEW h \in Handler, NEW t \in AnyTask, TaskOK(t), Becomes(h, t),
         t.pc \in Svc!ServicePc \cup {"idle"} \/ t = handler[h],
         Quiet, events_queue' \in [Event -> Nat], mission' \in MissionStatus,
         UNCHANGED <<service_requests, assignments, calls, field>>, answered \subseteq answered',
         \A r \in Req : TaskMoves(r, h)
  PROVE  Step(h)
<1>1. handler'[h] = t
  BY OneMoves
<1>2. AssignmentTurns(h)
  BY <1>1, ServiceTurns, DullAssignments
<1>3. calls' \in [Req -> Nat] /\ \A r \in Req : CallsMove(r, h)
  BY DEF Typed, CallsMove
<1> QED
  BY <1>2, <1>3, TaskStep

\* Dispatching a request.
LEMMA DispatchingSteps ==
  ASSUME Typed, NEW h \in Handler, Svc!Dispatching(h), UNCHANGED field
  PROVE  Step(h)
<1>0. TypeOK /\ handler[h] \in AnyTask /\ TaskOK(handler[h])
  BY TypedTask
<1>q. PICK q \in Req : q = handler[h].row
  BY <1>0, SameTasks DEF Svc!Dispatching, Svc!ClaimRequest, Svc!DropRequest, Svc!SelectRequest, Svc!SendRequest,
     Svc!SendFails, Svc!SaveSendFailure, Svc!MarkPending, Svc!SaveResponse, TaskOK, Svc!RequestPc
<1>m. "-" \in Mark \cup {"error"} /\ {"ready", "pending", "failed", "canceled", "dispatching_service"} \subseteq ServiceStatus
      /\ ServiceStatus \subseteq Mark \cup {"error"}
  BY DEF Mark, ServiceStatus
<1>1. CASE Svc!ClaimRequest(h)
  <2>1. PICK t, rows, new, taken :
          /\ t = At("select", q, "-") /\ new = WithStatus("dispatching_service") /\ taken = {}
          /\ rows = {x \in {q} : service_requests[x].status \in {"ready_for_service"}}
    OBVIOUS
  <2>2. /\ handler[h].pc = "claim" /\ Becomes(h, t) /\ WriteRequests(rows, new, taken)
        /\ UNCHANGED <<mission, assignments, world, field>>
    BY <1>q, <1>1, <2>1, SameTasks, SameTerms, SameRequests DEF Svc!ClaimRequest, Svc!SetRequestWhere, world, Svc!world
  <2>3. t \in AnyTask /\ TaskOK(t) /\ t.pc = "select" /\ t.row = q
    BY <1>m, <2>1, ServiceTask DEF Svc!ServicePc
  <2>4. \A r \in Req : new[r] \in RequestRow /\ new[r].status = "dispatching_service" /\ new[r].assignment_dispatched = Flag(r)
    BY <1>m, <2>1, StatusRow
  <2>5. q \in rows /\ service_requests'[q].status = "dispatching_service" => StatusMoves(q, h)
    BY <2>1 DEF StatusMoves
  <2>6. handler'[h] = t
    BY <2>2, <2>3, OneMoves
  <2>7. \A r \in Req : TaskMoves(r, h)
    BY <1>q, <2>2, <2>3, <2>6 DEF TaskMoves, ServiceMoves, PipelineMoves, PlanMoves,
        Dispatches, Serves, Frees, Lists, Marks, Inserts, Plans, PlanPc
  <2>8. rows \in SUBSET {q} /\ (\A e \in taken : Queued(e)) /\ t.pc \in Svc!ServicePc
        /\ new[q].assignment_dispatched = Flag(q)
    BY <2>1, <2>3, <2>4 DEF Svc!ServicePc
  <2>9. Becomes(h, t) /\ WriteRequests(rows, new, taken) /\ UNCHANGED <<mission, assignments, world, field>>
    BY <2>2
  <2>10. t \in AnyTask /\ TaskOK(t)
    BY <2>3
  <2> QED
    BY <2>4, <2>5, <2>7, <2>8, <2>9, <2>10, ServiceWrite
<1>2. CASE Svc!DropRequest(h) \/ Svc!SaveSendFailure(h)
  <2>1. PICK rows, new, s :
          /\ s \in {"canceled", "failed"}
          /\ UNCHANGED <<mission, assignments, world>> /\ Becomes(h, Idle)
          /\ WriteRequests(rows, new, {}) /\ rows \in SUBSET {q}
          /\ \A r \in Req : new[r] \in RequestRow /\ new[r].status = s /\ new[r].assignment_dispatched = Flag(r)
    <3>1. CASE Svc!DropRequest(h)
      <4>1. PICK new : new = WithStatus("canceled")
        OBVIOUS
      <4>2. WriteRequests({q}, new, {}) /\ Becomes(h, Idle) /\ UNCHANGED <<mission, assignments, world>>
        BY <1>q, <3>1, <4>1, SameTasks, SameTerms, SameRequests DEF Svc!DropRequest, world, Svc!world
      <4>3. \A r \in Req : new[r] \in RequestRow /\ new[r].status = "canceled" /\ new[r].assignment_dispatched = Flag(r)
        BY <1>m, <4>1, StatusRow
      <4> QED
        BY <4>2, <4>3
    <3>2. CASE Svc!SaveSendFailure(h)
      <4>1. PICK rows, new, p, none :
                             /\ p \in BOOLEAN /\ none \in SUBSET Req
                             /\ p = TRUE /\ none = {} /\ new = Svc!WithAnswer("failed", p, none)
                             /\ rows = {x \in {q} : service_requests[x].status \in Svc!Answerable}
        <5>1. TRUE \in BOOLEAN /\ {} \in SUBSET Req
          OBVIOUS
        <5> QED
          BY <5>1
      <4>2. WriteRequests(rows, new, {}) /\ Becomes(h, Idle) /\ UNCHANGED <<mission, assignments, world>>
        BY <1>q, <3>2, <4>1, SameTasks, SameTerms, SameRequests DEF Svc!SaveSendFailure, world, Svc!world
      <4>3. \A r \in Req : new[r] \in RequestRow /\ new[r].status = "failed" /\ new[r].assignment_dispatched = Flag(r)
        <5>1. new = Svc!WithAnswer("failed", p, none) /\ p \in BOOLEAN /\ none \in SUBSET Req
          BY <4>1
        <5>2. "failed" \in ServiceStatus
          BY <1>m
        <5> QED
          BY <5>1, <5>2, AnswerRow
      <4>4. rows \in SUBSET {q}
        BY <4>1
      <4> QED
        BY <4>2, <4>3, <4>4
    <3> QED
      BY <1>2, <3>1, <3>2
  <2>2. service_requests'[q].status = s => StatusMoves(q, h)
    BY <2>1 DEF StatusMoves
  <2>3. EndsWith(h, q, rows, s, new)
    BY <2>1, <2>2 DEF EndsWith, field
  <2> QED
    BY <2>3, ServiceEnds
<1>3. CASE Svc!SelectRequest(h) \/ Svc!SendFails(h)
  <2>1. PICK t : /\ handler[h].pc \in {"select", "send"} /\ UNCHANGED <<mission, service_requests, assignments, events_queue, calls, answered>>
        /\ Becomes(h, t)
        /\ \/ t = At("send", q, "-") /\ handler[h].pc = "select" /\ Status(q) = "dispatching_service"
           \/ t = Idle \/ t = At("sendFailed", q, "-")
    BY <1>q, <1>3, SameTasks, SameTerms DEF Svc!SelectRequest, Svc!SendFails, Svc!world, Status
  <2>2. /\ t \in AnyTask /\ TaskOK(t)
        /\ \/ t.pc = "send" /\ t.row = q /\ handler[h].pc = "select" /\ Status(q) = "dispatching_service"
           \/ t.pc = "idle" \/ t.pc = "sendFailed"
    BY <1>m, <2>1, ServiceTask, IdleTask DEF Svc!ServicePc
  <2>3. handler'[h] = t
    BY <2>1, <2>2, OneMoves
  <2>4. \A r \in Req : TaskMoves(r, h)
    BY <1>q, <2>2, <2>3 DEF TaskMoves, ServiceMoves, PipelineMoves, PlanMoves,
        Dispatches, Serves, Frees, Lists, Marks, Inserts, Plans, PlanPc
  <2>5. Quiet /\ events_queue' \in [Event -> Nat] /\ mission' \in MissionStatus
    BY <1>0, <2>1, QuietSame DEF TypeOK
  <2>6. t.pc \in Svc!ServicePc \cup {"idle"}
    BY <2>2 DEF Svc!ServicePc
  <2> QED
    BY <2>1, <2>2, <2>4, <2>5, <2>6, ServiceTurn
<1>4. CASE Svc!SendRequest(h)
  <2>1. PICK reply, t :
          /\ reply \in Replies \ {"error", "time-out"}
          /\ handler[h].pc = "send" /\ UNCHANGED <<mission, service_requests, assignments, events_queue>>
          /\ Becomes(h, t) /\ t = At("markPending", q, reply)
          /\ answered' = IF reply = "ready" THEN answered \cup {q} ELSE answered
          /\ calls' = [calls EXCEPT ![q] = @ + 1]
    BY <1>q, <1>4, SameTasks, SameTerms DEF Svc!SendRequest
  <2>2. reply \in {"ready", "pending", "failed", "canceled"}
    BY <2>1, PartsAssumption DEF Svc!ServiceAssumption
  <2>3. t \in AnyTask /\ TaskOK(t) /\ t.pc = "markPending" /\ t.row = q /\ t.val = reply
    BY <1>m, <2>1, <2>2, ServiceTask DEF Svc!ServicePc
  <2>4. handler'[h] = t
    BY <2>1, <2>3, OneMoves
  <2>5. calls' \in [Req -> Nat] /\ \A r \in Req : CallsMove(r, h)
    BY <1>q, <2>1 DEF Typed, CallsMove
  <2>6. answered \subseteq answered' /\ (reply = "ready" => q \in answered')
    BY <2>1
  <2>7. \A r \in Req : TaskMoves(r, h)
    BY <1>q, <2>1, <2>3, <2>4, <2>6 DEF TaskMoves, ServiceMoves, PipelineMoves, PlanMoves,
        Dispatches, Serves, Frees, Lists, Marks, Inserts, Plans, PlanPc
  <2>8. Quiet /\ events_queue' \in [Event -> Nat] /\ mission' \in MissionStatus
    BY <1>0, <2>1, QuietSame DEF TypeOK
  <2>9. AssignmentTurns(h)
    BY <2>3, <2>4, ServiceTurns DEF Svc!ServicePc
  <2> QED
    BY <2>1, <2>3, <2>5, <2>6, <2>7, <2>8, <2>9, TaskStep DEF field
<1>5. CASE Svc!MarkPending(h)
  <2>0. handler[h].pc = "markPending" /\ handler[h].val \in {"ready", "pending", "failed", "canceled"}
    BY <1>0, <1>5, SameTasks DEF Svc!MarkPending, TaskOK
  <2>1. PICK val, t, rows, new, taken :
          /\ val \in {handler[h].val, "canceled"}
          /\ t = At("saveResponse", q, val) /\ new = WithStatus("pending") /\ taken = {}
          /\ rows = {x \in {q} : service_requests[x].status \in {"dispatching_service"}}
          /\ Becomes(h, t) /\ WriteRequests(rows, new, taken)
          /\ UNCHANGED <<mission, assignments, world, field>>
    <3>1. PICK v \in {handler[h].val, "canceled"} :
            /\ Svc!Becomes(h, Svc!At("saveResponse", q, v))
            /\ Svc!SetRequestWhere(q, {"dispatching_service"}, "pending", {})
            /\ UNCHANGED <<mission, assignments, calls, answered>>
      BY <1>q, <1>5 DEF Svc!MarkPending, Svc!world
    <3>2. Becomes(h, At("saveResponse", q, v))
      BY <3>1, SameTasks, SameTerms
    <3>3. WriteRequests({x \in {q} : service_requests[x].status \in {"dispatching_service"}},
                        WithStatus("pending"), {})
      BY <3>1, SameTerms, SameRequests DEF Svc!SetRequestWhere
    <3> QED
      BY <3>1, <3>2, <3>3 DEF world
  <2>2. val \in {"ready", "pending", "failed", "canceled"} /\ val \in Mark \cup {"error"}
    BY <1>m, <2>0, <2>1
  <2>3. t \in AnyTask /\ TaskOK(t) /\ t.pc = "saveResponse" /\ t.row = q /\ t.val = val
    BY <2>1, <2>2, ServiceTask DEF Svc!ServicePc
  <2>4. \A r \in Req : new[r] \in RequestRow /\ new[r].status = "pending" /\ new[r].assignment_dispatched = Flag(r)
    BY <1>m, <2>1, StatusRow
  <2>5. q \in rows /\ service_requests'[q].status = "pending" => StatusMoves(q, h)
    BY <2>1 DEF StatusMoves
  <2>6. handler'[h] = t
    BY <2>1, <2>3, OneMoves
  <2>7. \A r \in Req : TaskMoves(r, h)
    BY <1>q, <2>0, <2>1, <2>3, <2>6 DEF TaskMoves, ServiceMoves, PipelineMoves, PlanMoves,
        Dispatches, Serves, Frees, Lists, Marks, Inserts, Plans, PlanPc
  <2>8. rows \in SUBSET {q} /\ (\A e \in taken : Queued(e)) /\ t.pc \in Svc!ServicePc
        /\ new[q].assignment_dispatched = Flag(q)
    BY <2>1, <2>3, <2>4 DEF Svc!ServicePc
  <2>9. Becomes(h, t) /\ WriteRequests(rows, new, taken) /\ UNCHANGED <<mission, assignments, world, field>>
    BY <2>1
  <2>10. t \in AnyTask /\ TaskOK(t)
    BY <2>3
  <2> QED
    BY <2>4, <2>5, <2>7, <2>8, <2>9, <2>10, ServiceWrite
<1>6. CASE Svc!SaveResponse(h)
  <2>0. handler[h].pc = "saveResponse" /\ handler[h].val \in {"ready", "pending", "failed", "canceled"}
    BY <1>0, <1>6, SameTasks DEF Svc!SaveResponse, TaskOK
  <2>1. PICK s, rows, new :
          /\ s = handler[h].val
          /\ \E skip \in SUBSET Req, p \in BOOLEAN : new = Svc!WithAnswer(s, p, skip)
          /\ rows = {x \in {q} : service_requests[x].status \in Svc!Answerable}
          /\ Becomes(h, Idle) /\ WriteRequests(rows, new, {})
          /\ UNCHANGED <<mission, assignments, world, field>>
    <3>1. Svc!Dependents(q) \subseteq Req
      BY DEF Svc!Dependents
    <3>2. PICK skip \in SUBSET Req :
            /\ Svc!WriteRequests({x \in {q} : service_requests[x].status \in Svc!Answerable},
                                 Svc!WithAnswer(handler[h].val, handler[h].val # "pending", skip), {})
            /\ Svc!Becomes(h, Svc!Idle) /\ UNCHANGED <<mission, assignments, calls, answered>>
      BY <1>q, <1>6, <3>1 DEF Svc!SaveResponse, Svc!world
    <3>3. Becomes(h, Idle) /\ WriteRequests({x \in {q} : service_requests[x].status \in Svc!Answerable},
                                           Svc!WithAnswer(handler[h].val, handler[h].val # "pending", skip), {})
      BY <3>2, SameTasks, SameTerms, SameRequests
    <3> QED
      BY <3>2, <3>3 DEF world
  <2>2. s \in ServiceStatus
    BY <1>m, <2>0, <2>1
  <2>3. \A r \in Req : new[r] \in RequestRow /\ new[r].status = s /\ new[r].assignment_dispatched = Flag(r)
    BY <2>1, <2>2, AnswerRow
  <2>4. rows \in SUBSET {q} /\ (q \in rows => Status(q) \in Svc!Answerable)
    BY <2>1 DEF Status
  <2>5. q \in rows /\ service_requests'[q].status = s => StatusMoves(q, h)
    BY <1>q, <2>0, <2>1, <2>4 DEF StatusMoves, Status
  <2>6. q \in rows /\ s = "ready" => Status(q) # "ready"
    BY <2>4 DEF Svc!Answerable
  <2>7. Becomes(h, Idle) /\ WriteRequests(rows, new, {}) /\ UNCHANGED <<mission, assignments, world, field>>
    BY <2>1
  <2>8. rows \in SUBSET {q}
    BY <2>4
  <2>9. EndsWith(h, q, rows, s, new)
    BY <2>3, <2>5, <2>6, <2>7, <2>8 DEF EndsWith
  <2> QED
    BY <2>9, ServiceEnds
<1> QED
  BY <1>1, <1>2, <1>3, <1>4, <1>5, <1>6 DEF Svc!Dispatching

\* A computation ends with a statement on the mission.
LEMMA MissionTurn ==
  ASSUME Typed, NEW h \in Handler, NEW allowed, NEW s \in MissionStatus, NEW taken, \A e \in taken : Queued(e),
         SetMissionWhere(allowed, s, taken),
         UNCHANGED <<service_requests, assignments, world, field>>,
         Becomes(h, Idle) \/ UNCHANGED handler
  PROVE  Step(h)
<1>0. handler[h] \in AnyTask /\ TaskOK(handler[h]) /\ handler \in [Handler -> AnyTask]
  BY TypedTask DEF Typed, TypeOK, AnyTask, Pc
<1>1. PICK t : /\ t \in AnyTask /\ TaskOK(t) /\ Becomes(h, t)
               /\ t.pc \in Svc!ServicePc \cup {"idle"} \/ t = handler[h]
  BY <1>0, IdleTask DEF Becomes
<1>2. Quiet /\ events_queue' \in [Event -> Nat] /\ mission' \in MissionStatus
  BY QuietMission
<1>3. handler'[h] = t
  BY <1>1, OneMoves
<1>4. \A r \in Req : TaskMoves(r, h)
  <2>1. t.pc \notin RolePc \/ t = handler[h]
    <3>1. CASE Becomes(h, Idle)
      <4>1. handler'[h] = Idle
        BY <3>1, IdleTask, OneMoves
      <4> QED
        BY <1>3, <4>1, IdleTask DEF RolePc, PlanPc
    <3>2. CASE UNCHANGED handler
      BY <1>3, <3>2
    <3> QED
      BY <3>1, <3>2
  <2> QED
    BY <1>3, <2>1, DullTask DEF TaskMoves
<1>5. UNCHANGED <<service_requests, assignments, calls, field>> /\ answered \subseteq answered'
  BY DEF world
<1> QED
  BY <1>1, <1>2, <1>4, <1>5, ServiceTurn

\* The end of requests and of computations.
LEMMA EndingSteps ==
  ASSUME Typed, NEW h \in Handler, Svc!MarkCalculating(h) \/ Svc!Ending(h), UNCHANGED field
  PROVE  Step(h)
<1>0. TypeOK /\ handler[h] \in AnyTask /\ TaskOK(handler[h])
  BY TypedTask
<1>m. {"failed", "canceled", "time-out"} \subseteq ServiceStatus
  BY DEF ServiceStatus
<1>1. CASE Svc!MarkCalculating(h) \/ Svc!FailPlanning(h) \/ Svc!WrapUp(h)
  <2>1. PICK allowed, s : /\ s \in {"calculating", "planning_failed", "assignments_completed"}
                          /\ SetMissionWhere(allowed, s, {}) /\ Becomes(h, Idle)
                          /\ UNCHANGED <<service_requests, assignments, world>>
    <3>1. CASE Svc!MarkCalculating(h)
      BY <3>1, SameMission, SameTasks, SameTerms, Zenon DEF Svc!MarkCalculating, world, Svc!world
    <3>2. CASE Svc!FailPlanning(h)
      BY <3>2, SameMission, SameTasks, SameTerms DEF Svc!FailPlanning, world, Svc!world
    <3>3. CASE Svc!WrapUp(h)
      BY <3>3, SameMission, SameTasks, SameTerms DEF Svc!WrapUp, Svc!ServicesLeft, world, Svc!world
    <3> QED
      BY <1>1, <3>1, <3>2, <3>3
  <2>2. s \in MissionStatus
    BY <2>1, SameSets
  <2>3. PICK taken : taken = {} /\ SetMissionWhere(allowed, s, taken)
    BY <2>1
  <2>4. \A e \in taken : Queued(e)
    BY <2>3
  <2>5. SetMissionWhere(allowed, s, taken)
    BY <2>3
  <2> QED
    BY <2>1, <2>2, <2>4, <2>5, MissionTurn
<1>2. CASE Svc!SaveTimeout(h) \/ Svc!SaveUnreachable(h) \/ Svc!ConfirmCancel(h)
  <2>1. PICK q \in Req : q = handler[h].row
    BY <1>0, <1>2, SameTasks DEF Svc!SaveTimeout, Svc!SaveUnreachable, Svc!ConfirmCancel, TaskOK, Svc!RequestPc
  <2>2. PICK rows, new, s, p, none :
          /\ s \in {"time-out", "failed", "canceled"} /\ p \in BOOLEAN /\ none \in SUBSET Req
          /\ new = Svc!WithAnswer(s, p, none) /\ rows \in SUBSET {q}
          /\ s = "time-out" /\ q \in rows => Status(q) = "pending"
          /\ WriteRequests(rows, new, {}) /\ Becomes(h, Idle) /\ UNCHANGED <<mission, assignments, world>>
    <3>0. TRUE \in BOOLEAN /\ FALSE \in BOOLEAN /\ {} \in SUBSET Req
      OBVIOUS
    <3>1. CASE Svc!SaveTimeout(h)
      <4>1. PICK rows, new : /\ new = Svc!WithAnswer("time-out", FALSE, {})
                             /\ rows = {x \in {q} : service_requests[x].status = "pending"}
        OBVIOUS
      <4>2. WriteRequests(rows, new, {}) /\ Becomes(h, Idle) /\ UNCHANGED <<mission, assignments, world>>
        BY <2>1, <3>1, <4>1, SameTasks, SameTerms, SameRequests DEF Svc!SaveTimeout, world, Svc!world
      <4>3. rows \in SUBSET {q} /\ (q \in rows => Status(q) = "pending")
        BY <4>1 DEF Status
      <4>4. new = Svc!WithAnswer("time-out", FALSE, {})
        BY <4>1
      <4> QED
        BY <3>0, <4>2, <4>3, <4>4
    <3>2. CASE Svc!SaveUnreachable(h)
      <4>1. PICK new : new = Svc!WithAnswer("failed", TRUE, {})
        OBVIOUS
      <4>2. WriteRequests({q}, new, {}) /\ Becomes(h, Idle) /\ UNCHANGED <<mission, assignments, world>>
        BY <2>1, <3>2, <4>1, SameTasks, SameTerms, SameRequests DEF Svc!SaveUnreachable, world, Svc!world
      <4> QED
        BY <3>0, <4>1, <4>2
    <3>3. CASE Svc!ConfirmCancel(h)
      <4>1. PICK rows, new : /\ new = Svc!WithAnswer("canceled", TRUE, {})
                             /\ rows = {x \in {q} : /\ service_requests[x].status = "canceled"
                                                    /\ ~service_requests[x].processed}
        OBVIOUS
      <4>2. WriteRequests(rows, new, {}) /\ Becomes(h, Idle) /\ UNCHANGED <<mission, assignments, world>>
        BY <2>1, <3>3, <4>1, SameTasks, SameTerms, SameRequests DEF Svc!ConfirmCancel, world, Svc!world
      <4>3. rows \in SUBSET {q}
        BY <4>1
      <4>4. new = Svc!WithAnswer("canceled", TRUE, {})
        BY <4>1
      <4> QED
        BY <3>0, <4>2, <4>3, <4>4
    <3> QED
      BY <1>2, <3>1, <3>2, <3>3
  <2>3. s \in ServiceStatus
    BY <1>m, <2>2
  <2>4. \A r \in Req : new[r] \in RequestRow /\ new[r].status = s /\ new[r].assignment_dispatched = Flag(r)
    BY <2>2, <2>3, AnswerRow
  <2>5. q \in rows /\ service_requests'[q].status = s => StatusMoves(q, h)
    BY <2>2 DEF StatusMoves, Status
  <2>6. rows \in SUBSET {q} /\ s # "ready" /\ Becomes(h, Idle) /\ WriteRequests(rows, new, {})
        /\ UNCHANGED <<mission, assignments, world, field>>
    BY <2>2
  <2> HIDE <2>2
  <2>7. EndsWith(h, q, rows, s, new)
    BY <2>4, <2>5, <2>6 DEF EndsWith
  <2> QED
    BY <2>7, ServiceEnds
<1> QED
  BY <1>1, <1>2 DEF Svc!Ending

\* A tick of the watchers.
LEMMA WatchSteps ==
  ASSUME Typed, NEW h \in Handler, Svc!Watch(h), UNCHANGED field
  PROVE  Step(h)
<1>0. TypeOK /\ handler[h] \in AnyTask /\ TaskOK(handler[h])
  BY TypedTask
<1>m. "-" \in Mark \cup {"error"} /\ {"ready", "pending", "failed", "canceled", "time-out", "error"} \subseteq Mark \cup {"error"}
  BY DEF Mark, ServiceStatus
<1>1. PICK q \in Req : Svc!PollService(h, q) \/ Svc!FindReleasable(h, q) \/ Svc!CancelService(h, q)
  BY DEF Svc!Watch
<1>2. PICK pc, val, t :
        /\ t = At(pc, q, val) /\ Becomes(h, t) /\ handler[h].pc = "idle"
        /\ UNCHANGED <<mission, service_requests, assignments, events_queue, calls>>
        /\ pc \in {"timedOut", "unreachable", "saveResponse", "release", "confirmCancel", "cancelFailed"}
        /\ val \in Mark \cup {"error"}
        /\ pc = "saveResponse" => /\ val \in {"ready", "pending", "failed", "canceled"}
                                  /\ Status(q) = "pending" /\ (val = "ready" => q \in answered')
        /\ pc = "release" => Status(q) = "wait_dependencies" /\ Svc!DetermineStatus(q) = "ready_for_service"
        /\ answered \subseteq answered'
  <2>1. CASE Svc!PollService(h, q)
    <3>1. PICK reply \in Replies \ {"pending"} :
            /\ Becomes(h, At(CASE reply = "time-out" -> "timedOut"
                               [] reply = "error" -> "unreachable"
                               [] OTHER -> "saveResponse", q, reply))
            /\ answered' = IF reply = "ready" THEN answered \cup {q} ELSE answered
            /\ handler[h].pc = "idle" /\ Status(q) = "pending"
            /\ UNCHANGED <<mission, service_requests, assignments, events_queue, calls>>
      BY <2>1, SameTasks, SameTerms DEF Svc!PollService, Status
    <3>2. reply \in {"ready", "failed", "canceled", "time-out", "error"}
      BY <3>1, PartsAssumption DEF Svc!ServiceAssumption
    <3> QED
      BY <1>m, <3>1, <3>2
  <2>2. CASE Svc!FindReleasable(h, q)
    BY <1>m, <2>2, SameTasks, SameTerms DEF Svc!FindReleasable, Svc!world, Status
  <2>3. CASE Svc!CancelService(h, q)
    BY <1>m, <2>3, SameTasks, SameTerms DEF Svc!CancelService, Svc!world
  <2> QED
    BY <1>1, <2>1, <2>2, <2>3
<1>3. pc \in Svc!ServicePc /\ pc # "markPending"
  BY <1>2 DEF Svc!ServicePc
<1>4. /\ t \in AnyTask /\ TaskOK(t) /\ t.pc = pc /\ t.row = q /\ t.val = val
      /\ \A x \in Req : t.todo[x] = "-"
  BY <1>2, <1>3, ServiceTask
<1>5. handler'[h] = t
  BY <1>2, <1>4, OneMoves
<1>6. \A r \in Req : TaskMoves(r, h)
  BY <1>2, <1>4, <1>5 DEF TaskMoves, ServiceMoves, PipelineMoves, PlanMoves,
        Dispatches, Serves, Frees, Lists, Marks, Inserts, Plans, PlanPc
<1>7. Quiet /\ events_queue' \in [Event -> Nat] /\ mission' \in MissionStatus
  BY <1>0, <1>2, QuietSame DEF TypeOK
<1> QED
  BY <1>2, <1>3, <1>4, <1>6, <1>7, ServiceTurn

\* The events of requests.
LEMMA HandleSteps ==
  ASSUME Typed, NEW h \in Handler, Svc!Handle(h), UNCHANGED field
  PROVE  Step(h)
<1>0. TypeOK
  BY TypedTask
<1>m. "-" \in Mark \cup {"error"} /\ {"canceled", "dispatching_service"} \subseteq ServiceStatus
  BY DEF Mark, ServiceStatus
<1>1. PICK q \in Req : \/ Svc!HandleInsertion(h, q) \/ Svc!HandleReadyForService(h, q)
                       \/ Svc!HandleReady(h, q) \/ Svc!HandleFailed(h, q) \/ Svc!HandleTimeout(h, q)
  BY DEF Svc!Handle
<1>2. CASE Svc!HandleInsertion(h, q)
  <2>1. PICK e, t, pc : /\ e = InsertionEvent(q) /\ t = At(pc, q, "-") /\ pc \in {"drop", "claim"}
                        /\ Queued(e) /\ TakeAndLeave({e}, {}) /\ Becomes(h, t)
                        /\ UNCHANGED <<mission, service_requests, assignments, world, field>>
    BY <1>2, SameTasks, SameTerms, SameQueue DEF Svc!HandleInsertion, world, Svc!world
  <2>2. t \in AnyTask /\ TaskOK(t) /\ t.pc = pc /\ t.row = q /\ t.pc \in Svc!ServicePc
    BY <1>m, <2>1, ServiceTask DEF Svc!ServicePc
  <2>3. handler'[h] = t
    BY <2>1, <2>2, OneMoves
  <2>4. Quiet /\ events_queue' \in [Event -> Nat] /\ mission' \in MissionStatus
    BY <1>0, <2>1, QuietQueue DEF TypeOK
  <2>5. e \in Asked(q)
    BY <2>1 DEF Asked
  <2>6. \A r \in Req : TaskMoves(r, h)
    BY <2>1, <2>2, <2>3, <2>5 DEF TaskMoves, ServiceMoves, PipelineMoves, PlanMoves,
        Dispatches, Serves, Frees, Lists, Marks, Inserts, Plans, PlanPc
  <2> QED
    BY <2>1, <2>2, <2>4, <2>6, ServiceTurn DEF world
<1>3. CASE Svc!HandleReadyForService(h, q)
  <2>1. PICK e, t, rows, new, taken :
          /\ t = At("select", q, "-") /\ new = WithStatus("dispatching_service") /\ taken = {e}
          /\ rows = {x \in {q} : service_requests[x].status \in {"ready_for_service"}}
          /\ Queued(e) /\ e \in Asked(q) /\ Becomes(h, t) /\ WriteRequests(rows, new, taken)
          /\ UNCHANGED <<mission, assignments, world, field>>
    BY <1>3, SameTasks, SameTerms, SameRequests DEF Svc!HandleReadyForService, Svc!SetRequestWhere, Asked, world, Svc!world
  <2>2. t \in AnyTask /\ TaskOK(t) /\ t.pc = "select" /\ t.row = q
    BY <1>m, <2>1, ServiceTask DEF Svc!ServicePc
  <2>3. \A r \in Req : new[r] \in RequestRow /\ new[r].status = "dispatching_service" /\ new[r].assignment_dispatched = Flag(r)
    BY <1>m, <2>1, StatusRow
  <2>4. q \in rows /\ service_requests'[q].status = "dispatching_service" => StatusMoves(q, h)
    BY <2>1 DEF StatusMoves
  <2>5. handler'[h] = t
    BY <2>1, <2>2, OneMoves
  <2>6. \A r \in Req : TaskMoves(r, h)
    BY <2>1, <2>2, <2>5 DEF TaskMoves, ServiceMoves, PipelineMoves, PlanMoves,
        Dispatches, Serves, Frees, Lists, Marks, Inserts, Plans, PlanPc
  <2>7. rows \in SUBSET {q} /\ (\A f \in taken : Queued(f)) /\ t.pc \in Svc!ServicePc
        /\ new[q].assignment_dispatched = Flag(q)
    BY <2>1, <2>2, <2>3 DEF Svc!ServicePc
  <2>8. Becomes(h, t) /\ WriteRequests(rows, new, taken) /\ UNCHANGED <<mission, assignments, world, field>>
    BY <2>1
  <2>9. t \in AnyTask /\ TaskOK(t)
    BY <2>2
  <2> QED
    BY <2>3, <2>4, <2>6, <2>7, <2>8, <2>9, ServiceWrite
<1>4. CASE Svc!HandleReady(h, q)
  <2>1. PICK d \in BOOLEAN : /\ q \in Planner => d
                             /\ Queued(Ready(q, d)) /\ handler[h].pc = "idle"
                             /\ TakeAndLeave({Ready(q, d)}, {})
                             /\ Becomes(h, Svc!AfterReady(q))
                             /\ UNCHANGED <<mission, service_requests, assignments, world, field>>
    BY <1>4, SameTasks, SameTerms, SameQueue DEF Svc!HandleReady, Ready, world, Svc!world
  <2>2. PICK t : t = Svc!AfterReady(q) /\ Becomes(h, t)
    BY <2>1
  <2>3. /\ t \in AnyTask /\ TaskOK(t) /\ t.pc \in {"idle", "wrapUp", "listNext"}
        /\ t.pc = "listNext" => t.row = q
    BY <2>2, AfterReadyTask
  <2>4. handler'[h] = t
    BY <2>2, <2>3, OneMoves
  <2>5. PICK e : e = Ready(q, d)
    OBVIOUS
  <2>6. Quiet /\ events_queue' \in [Event -> Nat] /\ mission' \in MissionStatus
    <3>1. (\A f \in {e} : Queued(f)) /\ TakeAndLeave({e}, {})
      BY <2>1, <2>5
    <3> QED
      BY <1>0, <2>1, <3>1, QuietQueue DEF TypeOK
  <2>7. ASSUME NEW r \in Req
        PROVE  TaskMoves(r, h)
    <3>1. Lists(t, r) => r = q
      BY <2>3 DEF Lists
    <3> QED
      BY <2>1, <2>3, <2>4, <3>1 DEF TaskMoves, ServiceMoves, PipelineMoves, PlanMoves,
        Dispatches, Serves, Frees, Marks, Inserts, Plans, PlanPc
  <2>8. t.pc \in Svc!ServicePc \cup {"idle"}
    BY <2>3 DEF Svc!ServicePc
  <2> QED
    BY <2>1, <2>2, <2>3, <2>6, <2>7, <2>8, ServiceTurn DEF world
<1>5. CASE Svc!HandleFailed(h, q)
  <2>1. PICK allowed, s, taken : /\ s = "planning_failed" /\ SetMissionWhere(allowed, s, taken)
                                 /\ \A e \in taken : Queued(e)
                                 /\ UNCHANGED <<service_requests, assignments, handler, world, field>>
    BY <1>5, SameTasks, SameMission DEF Svc!HandleFailed, world, Svc!world
  <2>2. s \in MissionStatus
    BY <2>1, SameSets
  <2> QED
    BY <2>1, <2>2, MissionTurn
<1>6. CASE Svc!HandleTimeout(h, q)
  <2>1. PICK e, t, rows, new, taken :
          /\ t = At("planningFailed", q, "-") /\ new = WithStatus("canceled") /\ taken = {e} /\ rows = {q}
          /\ Queued(e) /\ Becomes(h, t) /\ WriteRequests(rows, new, taken)
          /\ UNCHANGED <<mission, assignments, world, field>>
    BY <1>6, SameTasks, SameTerms, SameRequests DEF Svc!HandleTimeout, world, Svc!world
  <2>2. t \in AnyTask /\ TaskOK(t) /\ t.pc = "planningFailed" /\ t.row = q
    BY <1>m, <2>1, ServiceTask DEF Svc!ServicePc
  <2>3. \A r \in Req : new[r] \in RequestRow /\ new[r].status = "canceled" /\ new[r].assignment_dispatched = Flag(r)
    BY <1>m, <2>1, StatusRow
  <2>4. q \in rows /\ service_requests'[q].status = "canceled" => StatusMoves(q, h)
    BY DEF StatusMoves
  <2>5. handler'[h] = t
    BY <2>1, <2>2, OneMoves
  <2>6. \A r \in Req : TaskMoves(r, h)
    BY <2>2, <2>5, DullTask DEF RolePc, PlanPc
  <2>7. rows \in SUBSET {q} /\ (\A f \in taken : Queued(f)) /\ t.pc \in Svc!ServicePc
        /\ new[q].assignment_dispatched = Flag(q)
    BY <2>1, <2>2, <2>3 DEF Svc!ServicePc
  <2>8. Becomes(h, t) /\ WriteRequests(rows, new, taken) /\ UNCHANGED <<mission, assignments, world, field>>
    BY <2>1
  <2>9. t \in AnyTask /\ TaskOK(t)
    BY <2>2
  <2> QED
    BY <2>3, <2>4, <2>6, <2>7, <2>8, <2>9, ServiceWrite
<1> QED
  BY <1>1, <1>2, <1>3, <1>4, <1>5, <1>6

----------------------------------------------------------------------------
(* The next requests *)

\* What determineServiceRequestStatus answers.
LEMMA Determined ==
  ASSUME NEW r
  PROVE  Svc!DetermineStatus(r) \in {"skipped", "wait_dependencies", "ready_for_service"}
<1>1. PICK unfinished : unfinished = {a \in Asg : /\ Owner[a] \in DependsOn[r]
                                                  /\ assignments[a] \notin {"absent", "completed", "succeeded"}}
  OBVIOUS
<1> QED
  BY <1>1, Zenon DEF Svc!DetermineStatus

\* Another mark in a list.
Marked(t, x, v) == [t EXCEPT !.todo[x] = v]

\* It is the only one that changes.
LEMMA EntryMarked ==
  ASSUME NEW t \in AnyTask, NEW x \in Row, NEW v \in Mark
  PROVE  /\ Marked(t, x, v) \in AnyTask
         /\ Marked(t, x, v).pc = t.pc /\ Marked(t, x, v).row = t.row /\ Marked(t, x, v).val = t.val
         /\ Marked(t, x, v).todo[x] = v /\ \A y \in Row : y # x => Marked(t, x, v).todo[y] = t.todo[y]
<1>1. "-" \in Mark
  BY DEF Mark
<1> QED
  BY <1>1 DEF AnyTask, Marked

\* A list of the rows that wait for their turn.
WaitingTask(r, waiting) ==
  [At("updateNext", r, "-") EXCEPT !.todo = [x \in Row |-> IF x \in waiting THEN "not_ready_for_service" ELSE "-"]]

\* The list of the next requests, before it is gone through.
LEMMA WaitingList ==
  ASSUME NEW r \in Req, NEW waiting \in SUBSET NextReq[r], NEW t,
         t = WaitingTask(r, waiting)
  PROVE  /\ t \in AnyTask /\ TaskOK(t) /\ t.pc = "updateNext" /\ t.row = r
         /\ \A q \in Req : t.todo[q] = IF q \in waiting THEN "not_ready_for_service" ELSE "-"
<1>1. "updateNext" \in Pc /\ r \in Row /\ "updateNext" \in Svc!ServicePc
  BY DEF Pc, Row, Svc!ServicePc
<1>2. {"not_ready_for_service", "-"} \subseteq Mark
  BY DEF Mark, ServiceStatus
<1>3. PICK todo : todo = [x \in Row |-> IF x \in waiting THEN "not_ready_for_service" ELSE "-"]
  OBVIOUS
<1>4. todo \in [Row -> Mark] /\ \A q \in Req : todo[q] = IF q \in waiting THEN "not_ready_for_service" ELSE "-"
  BY <1>2, <1>3 DEF Row
<1>5. t = [pc |-> "updateNext", row |-> r, val |-> "-", todo |-> todo]
  BY <1>3 DEF At, WaitingTask
<1>6. t.pc = "updateNext" /\ t.row = r /\ t.todo = todo
  BY <1>5
<1>7. t \in AnyTask
  BY <1>1, <1>2, <1>4, <1>5 DEF AnyTask
<1>8. TaskOK(t)
  BY <1>1, <1>4, <1>6, ApartPc DEF TaskOK, PlanPc, Asm!AssignmentPc
<1> QED
  BY <1>4, <1>6, <1>7, <1>8

\* A computation that goes on with its list.
LEMMA ListTurn ==
  ASSUME NEW h \in Handler, handler[h].pc = "updateNext", handler'[h].pc = "updateNext",
         handler'[h].row = handler[h].row, NEW r \in Req,
         handler'[h].todo[r] \in {"-", handler[h].todo[r]} \/
           (Marks(handler[h], r) /\ handler'[h].todo[r] = Svc!DetermineStatus(r))
  PROVE  TaskMoves(r, h)
BY DEF TaskMoves, ServiceMoves, PipelineMoves, PlanMoves, Dispatches, Serves, Frees, Lists, Marks, Inserts, Plans, PlanPc

\* The next requests are listed, marked and released.
LEMMA ActivatingSteps ==
  ASSUME Typed, NEW h \in Handler, Svc!Activating(h), UNCHANGED field
  PROVE  Step(h)
<1>0. TypeOK /\ handler[h] \in AnyTask /\ TaskOK(handler[h])
  BY TypedTask
<1>m. {"skipped", "wait_dependencies", "ready_for_service"} \subseteq Mark
  BY DEF Mark, ServiceStatus
<1>1. CASE Svc!ListNext(h)
  <2>1. PICK q \in Req : q = handler[h].row /\ handler[h].pc = "listNext"
    BY <1>0, <1>1, SameTasks DEF Svc!ListNext, TaskOK, Svc!RequestPc
  <2>2. PICK waiting, list :
          /\ waiting = {x \in NextReq[q] : service_requests[x].status = "not_ready_for_service"}
          /\ list = [At("updateNext", q, "-") EXCEPT
                       !.todo = [x \in Row |-> IF x \in waiting THEN "not_ready_for_service" ELSE "-"]]
    OBVIOUS
  <2>3. PICK t \in {Idle, list} :
          Becomes(h, t) /\ UNCHANGED <<mission, service_requests, assignments, events_queue, calls, answered>>
    BY <1>1, <2>1, <2>2, SameTasks, SameTerms DEF Svc!ListNext, Svc!world
  <2>4. waiting \in SUBSET NextReq[q]
    BY <2>2
  <2>5. /\ list \in AnyTask /\ TaskOK(list) /\ list.pc = "updateNext" /\ list.row = q
        /\ \A x \in Req : list.todo[x] = IF x \in waiting THEN "not_ready_for_service" ELSE "-"
    <3>1. list = WaitingTask(q, waiting)
      BY <2>2 DEF WaitingTask
    <3> HIDE <2>2
    <3> QED
      BY <2>4, <3>1, WaitingList
  <2>6. /\ t \in AnyTask /\ TaskOK(t) /\ t.pc \in {"idle", "updateNext"}
        /\ t.pc = "updateNext" => t = list
    BY <2>3, <2>5, IdleTask
  <2>7. handler'[h] = t
    BY <2>3, <2>6, OneMoves
  <2>8. ASSUME NEW r \in Req
        PROVE  TaskMoves(r, h)
    <3>1. CASE t.pc = "idle"
      BY <2>7, <3>1, DullTask DEF RolePc, PlanPc
    <3>2. CASE t = list
      <4>1. Marks(t, r) => /\ r \in NextReq[q] /\ Status(r) = "not_ready_for_service"
                           /\ t.todo[r] = "not_ready_for_service"
        BY <2>2, <2>5, <3>2 DEF Marks, Status
      <4> QED
        BY <2>1, <2>5, <2>7, <3>2, <4>1 DEF TaskMoves, ServiceMoves, PipelineMoves, PlanMoves,
           Dispatches, Serves, Frees, Lists, Inserts, Plans, PlanPc
    <3> QED
      BY <2>6, <3>1, <3>2
  <2>9. Quiet /\ events_queue' \in [Event -> Nat] /\ mission' \in MissionStatus
    BY <1>0, <2>3, QuietSame DEF TypeOK
  <2>10. t.pc \in Svc!ServicePc \cup {"idle"}
    BY <2>6 DEF Svc!ServicePc
  <2> QED
    BY <2>3, <2>6, <2>8, <2>9, <2>10, ServiceTurn
<1>2. CASE Svc!ReleaseRequest(h)
  <2>1. PICK q \in Req : q = handler[h].row /\ handler[h].pc = "release"
    BY <1>0, <1>2, SameTasks DEF Svc!ReleaseRequest, TaskOK, Svc!RequestPc
  <2>2. PICK rows, new :
          /\ new = WithStatus("ready_for_service")
          /\ rows = {x \in {q} : service_requests[x].status \in {"wait_dependencies"}}
          /\ Becomes(h, Idle) /\ WriteRequests(rows, new, {})
          /\ UNCHANGED <<mission, assignments, world, field>>
    BY <1>2, <2>1, SameTasks, SameTerms, SameRequests DEF Svc!ReleaseRequest, Svc!SetRequestWhere, world, Svc!world
  <2>3. \A r \in Req : new[r] \in RequestRow /\ new[r].status = "ready_for_service" /\ new[r].assignment_dispatched = Flag(r)
    BY <2>2, StatusRow DEF ServiceStatus
  <2>4. q \in rows /\ service_requests'[q].status = "ready_for_service" => StatusMoves(q, h)
    BY <2>1, <2>2 DEF StatusMoves, Frees
  <2>5. rows \in SUBSET {q}
    BY <2>2
  <2>6. Becomes(h, Idle) /\ WriteRequests(rows, new, {}) /\ UNCHANGED <<mission, assignments, world, field>>
    BY <2>2
  <2>7. EndsWith(h, q, rows, "ready_for_service", new)
    BY <2>3, <2>4, <2>5, <2>6 DEF EndsWith
  <2> QED
    BY <2>7, ServiceEnds
<1>3. ASSUME NEW q \in Req, Svc!DetermineNext(h, q)
      PROVE  Step(h)
  <2>1. PICK v \in {"skipped", "wait_dependencies", "ready_for_service"} : v = Svc!DetermineStatus(q)
    BY Determined
  <2>2. PICK t : t = Marked(handler[h], q, v)
    OBVIOUS
  <2>3. /\ handler[h].pc = "updateNext" /\ handler[h].todo[q] = "not_ready_for_service" /\ Becomes(h, t)
        /\ UNCHANGED <<mission, service_requests, assignments, events_queue, calls, answered>>
    BY <1>3, <2>1, <2>2, SameTasks DEF Svc!DetermineNext, Svc!world, Marked
  <2>4. /\ t \in AnyTask /\ t.pc = "updateNext" /\ t.row = handler[h].row
        /\ t.todo[q] = v /\ \A y \in Row : y # q => t.todo[y] = handler[h].todo[y]
    BY <1>0, <1>m, <2>1, <2>2, <2>3, EntryMarked DEF Row
  <2>5. TaskOK(t)
    <3>1. \A x \in Req : /\ t.todo[x] \in {"-", "not_ready_for_service", "skipped", "wait_dependencies", "ready_for_service"}
                         /\ t.todo[x] # "-" => x \in NextReq[t.row]
      BY <1>0, <2>1, <2>3, <2>4 DEF TaskOK, Row
    <3>2. t.row \in Req
      BY <1>0, <2>3, <2>4 DEF TaskOK, Svc!RequestPc
    <3>3. "updateNext" \in Svc!ServicePc
      BY DEF Svc!ServicePc
    <3> QED
      BY <2>4, <3>1, <3>2, <3>3, ApartPc DEF TaskOK, PlanPc, Asm!AssignmentPc
  <2>6. handler'[h] = t
    BY <2>3, <2>4, OneMoves
  <2>7. ASSUME NEW r \in Req
        PROVE  TaskMoves(r, h)
    <3>1. r # q => handler'[h].todo[r] = handler[h].todo[r]
      BY <2>4, <2>6 DEF Row
    <3>2. r = q => Marks(handler[h], r) /\ handler'[h].todo[r] = Svc!DetermineStatus(r)
      BY <2>1, <2>3, <2>4, <2>6 DEF Marks
    <3> QED
      BY <2>3, <2>4, <2>6, <3>1, <3>2, ListTurn
  <2>8. Quiet /\ events_queue' \in [Event -> Nat] /\ mission' \in MissionStatus
    BY <1>0, <2>3, QuietSame DEF TypeOK
  <2>9. t.pc \in Svc!ServicePc \cup {"idle"}
    BY <2>4 DEF Svc!ServicePc
  <2> QED
    BY <2>3, <2>4, <2>5, <2>7, <2>8, <2>9, ServiceTurn
<1>4. ASSUME NEW q \in Req, Svc!WriteNext(h, q)
      PROVE  Step(h)
  <2>0. handler[h].pc = "updateNext" /\ handler[h].todo[q] \notin {"-", "not_ready_for_service"} /\ q \in Row
    BY <1>4, SameTasks DEF Svc!WriteNext, Row
  <2>1. PICK s \in {"skipped", "wait_dependencies", "ready_for_service"} : s = handler[h].todo[q] /\ Marks(handler[h], q)
    BY <1>0, <2>0 DEF TaskOK, Marks
  <2>2. PICK new, rows, taken, t :
          /\ new = [x \in Req |-> [Svc!NewRequest(x) EXCEPT !.status = s]] /\ rows = {q} /\ taken = {}
          /\ t \in {Idle, Without(handler[h], q)}
          /\ Becomes(h, t) /\ WriteRequests(rows, new, taken)
          /\ UNCHANGED <<mission, assignments, world, field>>
    BY <1>4, <2>1, SameTasks, SameTerms, SameRequests DEF Svc!WriteNext, Svc!DoneWith, Without, world, Svc!world
  <2>3. ASSUME NEW r \in Req
        PROVE  new[r] \in RequestRow /\ new[r].status = s /\ new[r].assignment_dispatched = FALSE
    <3>1. PICK old : old \in {"ready_for_service", "not_ready_for_service"} /\
            Svc!NewRequest(r) = [status |-> old, processed |-> FALSE, assignment_dispatched |-> FALSE, excluded |-> {}]
      BY DEF Svc!NewRequest
    <3>2. new[r] = [status |-> s, processed |-> FALSE, assignment_dispatched |-> FALSE, excluded |-> {}]
      <4>1. PICK row : row = Svc!NewRequest(r)
        OBVIOUS
      <4>2. new[r] = [row EXCEPT !.status = s]
        BY <2>2, <4>1
      <4>3. row = [status |-> old, processed |-> FALSE, assignment_dispatched |-> FALSE, excluded |-> {}]
        BY <3>1, <4>1
      <4> QED
        BY <4>2, <4>3
    <3>3. s \in ServiceStatus
      BY <2>1 DEF ServiceStatus
    <3> QED
      BY <3>2, <3>3 DEF RequestRow
  <2>4. Without(handler[h], q) \in AnyTask /\ TaskOK(Without(handler[h], q)) /\ Without(handler[h], q).pc = "updateNext"
        /\ Without(handler[h], q).row = handler[h].row
        /\ \A r \in Req : Without(handler[h], q).todo[r] \in {"-", handler[h].todo[r]}
    <3>1. PICK u : u = Without(handler[h], q)
      OBVIOUS
    <3>2. /\ u \in AnyTask /\ u.pc = "updateNext" /\ u.row = handler[h].row
          /\ u.todo[q] = "-" /\ \A y \in Row : y # q => u.todo[y] = handler[h].todo[y]
      BY <1>0, <2>0, <3>1, EntryDone
    <3>3. \A x \in Req : /\ u.todo[x] \in {"-", handler[h].todo[x]}
                         /\ u.todo[x] \in {"-", "not_ready_for_service", "skipped", "wait_dependencies", "ready_for_service"}
                         /\ u.todo[x] # "-" => x \in NextReq[u.row]
      BY <1>0, <2>0, <3>2 DEF TaskOK, Row
    <3>4. u.row \in Req
      BY <1>0, <2>0, <3>2 DEF TaskOK, Svc!RequestPc
    <3>5. "updateNext" \in Svc!ServicePc
      BY DEF Svc!ServicePc
    <3>6. TaskOK(u)
      BY <3>2, <3>3, <3>4, <3>5, ApartPc DEF TaskOK, PlanPc, Asm!AssignmentPc
    <3> QED
      BY <3>1, <3>2, <3>3, <3>6
  <2>5. t \in AnyTask /\ TaskOK(t) /\ t.pc \in {"idle", "updateNext"}
        /\ (t.pc = "updateNext" => t.row = handler[h].row /\ \A r \in Req : t.todo[r] \in {"-", handler[h].todo[r]})
    BY <2>2, <2>4, IdleTask
  <2>6. handler'[h] = t
    BY <2>2, <2>5, OneMoves
  <2>7. ASSUME NEW r \in Req
        PROVE  TaskMoves(r, h)
    <3>1. CASE t.pc = "idle"
      BY <2>6, <3>1, DullTask DEF RolePc, PlanPc
    <3>2. CASE t.pc = "updateNext"
      BY <2>0, <2>5, <2>6, <3>2, ListTurn
    <3> QED
      BY <2>5, <3>1, <3>2
  <2>8. service_requests'[q].status = s => StatusMoves(q, h)
    BY <2>1 DEF StatusMoves
  <2>9. /\ rows \in SUBSET {q} /\ (\A f \in taken : Queued(f)) /\ t.pc \in Svc!ServicePc \cup {"idle"}
        /\ ~new[q].assignment_dispatched /\ Marks(handler[h], q) /\ s # "ready"
    BY <2>1, <2>2, <2>3, <2>5 DEF Svc!ServicePc
  <2>10. Becomes(h, t) /\ WriteRequests(rows, new, taken) /\ UNCHANGED <<mission, assignments, world, field>>
    BY <2>2
  <2>11. t \in AnyTask /\ TaskOK(t) /\ \A r \in Req : new[r] \in RequestRow /\ new[r].status = s
    BY <2>3, <2>5
  <2> HIDE <2>1, <2>2
  <2> QED
    BY <2>7, <2>8, <2>9, <2>10, <2>11, ServiceWrite
<1> QED
  BY <1>1, <1>2, <1>3, <1>4 DEF Svc!Activating

\* The steps of the pipeline of requests.
LEMMA ServiceSteps ==
  ASSUME Typed, NEW h \in Handler, ServiceStep(h)
  PROVE  Step(h)
<1>1. UNCHANGED field /\ (Svc!Continue(h) \/ Svc!Handle(h) \/ Svc!Watch(h))
  BY DEF ServiceStep
<1> QED
  BY <1>1, EndingSteps, DispatchingSteps, ActivatingSteps, HandleSteps, WatchSteps DEF Svc!Continue

----------------------------------------------------------------------------
(* Every step *)

LEMMA NextSteps ==
  ASSUME Typed, Next
  PROVE  \E h \in Handler : Step(h)
<1>1. CASE UserCancels /\ UNCHANGED <<world, field>>
  <2>1. PICK h \in Handler : TRUE
    BY DEF Typed
  <2> QED
    BY <1>1, <2>1, UserCancelsSteps
<1>2. ASSUME NEW h \in Handler, ServiceStep(h)
      PROVE  Step(h)
  BY <1>2, ServiceSteps
<1>3. ASSUME NEW h \in Handler, AssignmentStep(h)
      PROVE  Step(h)
  BY <1>3, AssignmentSteps, PartsAssumption
<1>4. ASSUME NEW h \in Handler, WorkProcessHandler(h) /\ UNCHANGED <<world, field>>
      PROVE  Step(h)
  BY <1>4, WorkProcessSteps
<1>5. ASSUME NEW h \in Handler, Planning(h)
      PROVE  Step(h)
  BY <1>5, PlanningSteps
<1>6. ASSUME NEW h \in Handler, NEW r \in Req, HandlePlan(h, r)
      PROVE  Step(h)
  BY <1>6, HandlePlanSteps
<1> QED
  BY <1>1, <1>2, <1>3, <1>4, <1>5, <1>6 DEF Next

\* The first state.
LEMMA InitFacts ==
  ASSUME Init
  PROVE  /\ mission \in MissionStatus /\ calls = [r \in Req |-> 0] /\ answered = {}
         /\ service_requests \in [Req -> RequestRow]
         /\ \A r \in Req : Status(r) = IF DependsOn[r] = {} THEN "ready_for_service" ELSE "not_ready_for_service"
         /\ \A r \in Req : ~Flag(r)
         /\ assignments = [a \in Asg |-> "absent"]
         /\ sent = [a \in Asg |-> 0] /\ agent = [a \in Asg |-> "none"] /\ done = {}
         /\ events_queue \in [Event -> Nat]
         /\ \A e \in Event : Queued(e) => \E r \in Req : DependsOn[r] = {} /\ e = InsertionEvent(r)
         /\ Handler # {} /\ handler \in [Handler -> {At("calculating", NoRow, "-"), Idle}]
<1>0. mission \in MissionStatus
  BY Zenon DEF Init, Svc!Init, MissionStatus
<1>1. /\ calls = [r \in Req |-> 0] /\ answered = {}
      /\ service_requests = [r \in Req |-> Svc!NewRequest(r)]
      /\ assignments = [a \in Asg |-> "absent"]
      /\ sent = [a \in Asg |-> 0] /\ agent = [a \in Asg |-> "none"] /\ done = {}
  BY DEF Init, Svc!Init
<1>2. \A r \in Req : /\ Svc!NewRequest(r) \in RequestRow
                     /\ Svc!NewRequest(r).status = IF DependsOn[r] = {} THEN "ready_for_service" ELSE "not_ready_for_service"
                     /\ ~Svc!NewRequest(r).assignment_dispatched
  BY DEF Svc!NewRequest, RequestRow, ServiceStatus
<1>3. PICK first : first = {InsertionEvent(r) : r \in {q \in Req : DependsOn[q] = {}}}
  OBVIOUS
<1>4. events_queue = [e \in Event |-> IF e \in first THEN 1 ELSE 0]
  <2>1. {Svc!InsertionEvent(r) : r \in {q \in Req : DependsOn[q] = {}}} = first
    BY <1>3, SameTerms
  <2> QED
    BY <2>1, SameEvents DEF Init, Svc!Init
<1>5. events_queue \in [Event -> Nat] /\ \A e \in Event : Queued(e) => e \in first
  BY <1>4 DEF Queued
<1>6. Handler # {} /\ handler \in [Handler -> {At("calculating", NoRow, "-"), Idle}]
  BY SameTerms DEF Init, Svc!Init
<1> QED
  BY <1>0, <1>1, <1>2, <1>3, <1>5, <1>6 DEF Status, Flag

\* The computation that begins the mission.
LEMMA StartTask ==
  /\ At("calculating", NoRow, "-") \in AnyTask /\ TaskOK(At("calculating", NoRow, "-"))
  /\ At("calculating", NoRow, "-").pc = "calculating"
<1>1. "calculating" \in PlainPc /\ "calculating" \in Svc!ServicePc /\ "-" \in Mark /\ "calculating" \notin Svc!RequestPc
  BY DEF PlainPc, Pc, Svc!ServicePc, Mark, Svc!RequestPc
<1> QED
  BY <1>1, ApartPc, PlainTask DEF At

\* At the beginning the state is typed, and no row is worked on.
LEMMA InitTyped ==
  ASSUME Init
  PROVE  /\ Typed
         /\ \A h \in Handler : handler[h].pc \in {"calculating", "idle"}
<1>1. \A h \in Handler : handler[h] \in AnyTask /\ TaskOK(handler[h]) /\ handler[h].pc \in {"calculating", "idle"}
  BY InitFacts, StartTask, IdleTask
<1>2. handler \in [Handler -> AnyTask] /\ Handler # {}
  BY <1>1, InitFacts
<1>3. mission \in MissionStatus
  BY InitFacts
<1>4. /\ service_requests \in [Req -> RequestRow]
      /\ assignments \in [Asg -> AssignmentStatus \cup {"absent"}]
      /\ events_queue \in [Event -> Nat] /\ calls \in [Req -> Nat]
      /\ sent \in [Asg -> Nat] /\ agent \in [Asg -> Asm!AgentState] /\ done \subseteq Asg
  BY InitFacts DEF Asm!AgentState
<1>5. TypeOK
  BY <1>2, <1>3, <1>4 DEF TypeOK, AnyTask, Pc
<1> QED
  BY <1>1, <1>2, <1>4, <1>5 DEF Typed

\* It stays typed where nothing happens.
LEMMA StutterTyped ==
  ASSUME Typed, UNCHANGED vars
  PROVE  Typed'
BY DEF Typed, TypeOK, vars, wpVars, dbVars

----------------------------------------------------------------------------
(* The order of the services *)

\* The result of request r is in.
Heard(r) ==
  /\ Status(r) = "ready" => r \in answered
  /\ \A d \in BOOLEAN : Queued(Ready(r, d)) => r \in answered
  /\ \A h \in Handler : LET t == handler[h] IN
       /\ Serves(t, r) /\ t.val = "ready" => r \in answered
       /\ Inserts(t, r) \/ Plans(t, r) => r \in answered
  /\ Ordered(r) => r \in answered

\* What was heard stays heard, and nothing follows that was not.
LEMMA HeardKept ==
  ASSUME Typed, NEW h \in Handler, Step(h), NEW r \in Req, Heard(r)
  PROVE  Heard(r)'
<1>0. /\ Others(h) /\ answered \subseteq answered' /\ About(r, h) /\ Typed'
      /\ Ordered(r)' => Ordered(r) \/ InsertsAll(r, h)
  BY DEF Step, Advance, AssignmentsAdvance
<1>1. service_requests'[r].status = "ready" => r \in answered'
  <2>1. StatusMoves(r, h)
    BY <1>0 DEF About
  <2>2. CASE handler[h].pc = "saveResponse" /\ handler[h].row = r /\ handler[h].val = "ready"
    BY <1>0, <2>2 DEF Heard, Serves
  <2>3. CASE Status(r) = "ready"
    BY <1>0, <2>3 DEF Heard
  <2> QED
    BY <2>1, <2>2, <2>3 DEF StatusMoves, Status
<1>2. \A d \in BOOLEAN : Queued(Ready(r, d))' => r \in answered'
  <2> SUFFICES ASSUME NEW d \in BOOLEAN, Queued(Ready(r, d))', r \notin answered'
               PROVE  FALSE
    OBVIOUS
  <2>1. PICK e : e = Ready(r, d)
    OBVIOUS
  <2>2. e \in Event /\ events_queue[e] \in Nat /\ events_queue'[e] \in Nat /\ events_queue'[e] > 0
    BY <1>0, <2>1, NewsFacts DEF Queued, Typed, TypeOK
  <2>3. ~Queued(e)
    BY <1>0, <2>1 DEF Heard
  <2>4. events_queue'[e] > events_queue[e]
    BY <2>2, <2>3 DEF Queued
  <2>5. service_requests'[r].status = "ready"
    BY <1>0, <2>1, <2>4 DEF About, EventsMove
  <2> QED
    BY <1>1, <2>5
<1>3. ASSUME NEW g \in Handler
      PROVE  /\ Serves(handler'[g], r) /\ handler'[g].val = "ready" => r \in answered'
             /\ Inserts(handler'[g], r) \/ Plans(handler'[g], r) => r \in answered'
  <2>1. CASE handler'[g] = handler[g]
    BY <1>0, <2>1 DEF Heard
  <2>2. CASE g = h /\ handler'[g] # handler[g]
    <3>1. ServiceMoves(r, h) /\ PlanMoves(r, h)
      BY <1>0, <2>2 DEF About, TaskMoves
    <3>2. Serves(handler'[h], r) /\ handler'[h].val = "ready" => r \in answered'
      BY <1>0, <3>1 DEF ServiceMoves, Heard
    <3>3. Inserts(handler'[h], r) \/ Plans(handler'[h], r) => r \in answered'
      BY <1>0, <3>1 DEF PlanMoves, Heard
    <3> QED
      BY <2>2, <3>2, <3>3
  <2> QED
    BY <1>0, <2>1, <2>2 DEF Others
<1>4. Ordered(r)' => r \in answered'
  BY <1>0 DEF Heard, InsertsAll
<1> QED
  BY <1>1, <1>2, <1>3, <1>4 DEF Heard, Status

\* Request r was dispatched, or will be.
Holds(t, r) ==
  \/ t.pc = "send" /\ t.row = r
  \/ Serves(t, r) \/ Frees(t, r)
  \/ Marks(t, r) /\ t.todo[r] = "ready_for_service"

Runs(r) ==
  \/ Status(r) \in {"ready_for_service", "dispatching_service", "pending", "ready"}
  \/ calls[r] > 0
  \/ \E h \in Handler : Holds(handler[h], r)

\* The step that lets it run.
Permitted(r, h) ==
  /\ Svc!DetermineStatus(r) = "ready_for_service"
  /\ Marks(handler[h], r) \/ Status(r) = "wait_dependencies"

\* A request runs when the step finds its dependencies met, and not otherwise.
LEMMA RunsFrom ==
  ASSUME NEW h \in Handler, Advance(h), NEW r \in Req, Runs(r)'
  PROVE  Runs(r) \/ Permitted(r, h)
<1>0. Others(h) /\ About(r, h)
  BY DEF Advance
<1>1. CASE service_requests'[r].status \in {"ready_for_service", "dispatching_service", "pending", "ready"}
  <2>1. StatusMoves(r, h)
    BY <1>0 DEF About
  <2>2. CASE Serves(handler[h], r) \/ Frees(handler[h], r)
    BY <2>2 DEF Runs, Holds
  <2>3. CASE Marks(handler[h], r) /\ service_requests'[r].status = handler[h].todo[r]
              /\ service_requests'[r].status \in {"skipped", "wait_dependencies", "ready_for_service"}
    BY <1>1, <2>3 DEF Runs, Holds
  <2>4. CASE Status(r) \in {"ready_for_service", "dispatching_service", "pending", "ready"}
    BY <2>4 DEF Runs
  <2> QED
    BY <1>1, <2>1, <2>2, <2>3, <2>4 DEF StatusMoves, Status, Serves, Svc!Answerable
<1>2. CASE calls'[r] > 0
  <2>1. CallsMove(r, h)
    BY <1>0 DEF About
  <2> QED
    BY <1>2, <2>1 DEF CallsMove, Runs, Holds
<1>3. CASE \E g \in Handler : Holds(handler'[g], r)
  <2>1. PICK g \in Handler : Holds(handler'[g], r)
    BY <1>3
  <2>2. CASE handler'[g] = handler[g]
    BY <2>1, <2>2 DEF Runs
  <2>3. CASE g = h /\ handler'[h] # handler[h]
    <3>1. ServiceMoves(r, h) /\ PipelineMoves(r, h)
      BY <1>0, <2>3 DEF About, TaskMoves
    <3>2. PICK t, u : t = handler[h] /\ u = handler'[h]
      OBVIOUS
    <3>3. CASE u.pc = "send" /\ u.row = r
      BY <3>1, <3>2, <3>3 DEF ServiceMoves, Runs
    <3>4. CASE Serves(u, r)
      <4>1. Serves(t, r) \/ (t.pc = "send" /\ t.row = r) \/ Status(r) = "pending"
        BY <3>1, <3>2, <3>4 DEF ServiceMoves
      <4> QED
        BY <3>2, <4>1 DEF Runs, Holds
    <3>5. CASE Frees(u, r)
      BY <3>1, <3>2, <3>5 DEF PipelineMoves, Permitted
    <3>6. CASE Marks(u, r) /\ u.todo[r] = "ready_for_service"
      <4>1. Marks(t, r) /\ u.todo[r] \in {t.todo[r], Svc!DetermineStatus(r)}
        BY <3>1, <3>2, <3>6 DEF PipelineMoves
      <4> QED
        BY <3>2, <3>6, <4>1 DEF Runs, Holds, Permitted
    <3> QED
      BY <2>1, <2>3, <3>2, <3>3, <3>4, <3>5, <3>6 DEF Holds
  <2> QED
    BY <1>0, <2>2, <2>3 DEF Others
<1> QED
  BY <1>1, <1>2, <1>3 DEF Runs, Status

\* Dependencies that are met have been answered.
LEMMA MetAnswered ==
  ASSUME NEW r \in Req, Svc!DetermineStatus(r) = "ready_for_service"
  PROVE  \A d \in DependsOn[r] : Status(d) = "ready"
<1>1. PICK unfinished : unfinished = {a \in Asg : /\ Owner[a] \in DependsOn[r]
                                                  /\ assignments[a] \notin {"absent", "completed", "succeeded"}}
  OBVIOUS
<1>2. CASE \E d \in DependsOn[r] : service_requests[d].status = "skipped"
  BY <1>2 DEF Svc!DetermineStatus
<1>3. CASE \E d \in DependsOn[r] : service_requests[d].status # "ready"
  BY <1>2, <1>3 DEF Svc!DetermineStatus
<1> QED
  BY <1>2, <1>3 DEF Status

\* Every request that runs was permitted by the answers it depends on.
InOrder ==
  /\ Typed
  /\ \A r \in Req : Heard(r) /\ (Runs(r) => DependsOn[r] \subseteq answered)

\* At the beginning only requests without dependencies run.
LEMMA InOrderInit ==
  ASSUME Init
  PROVE  InOrder
<1>1. Typed /\ \A h \in Handler : handler[h].pc \in {"calculating", "idle"}
  BY InitTyped
<1>2. ASSUME NEW e \in Event, Queued(e)
      PROVE  \E r \in Req : e = InsertionEvent(r)
  BY <1>2, InitFacts
<1>3. ASSUME NEW r \in Req
      PROVE  Heard(r)
  <2>1. Status(r) # "ready"
    BY InitFacts
  <2>2. \A d \in BOOLEAN : ~Queued(Ready(r, d))
    <3> SUFFICES ASSUME NEW d \in BOOLEAN, Queued(Ready(r, d))
                 PROVE  FALSE
      OBVIOUS
    <3>1. PICK q \in Req : Ready(r, d) = InsertionEvent(q)
      BY <1>2, NewsFacts
    <3>2. Ready(r, d).channel = "service_requests_update"
      BY DEF Ready, RequestEvent
    <3>3. InsertionEvent(q).channel = "service_requests_insertion"
      BY DEF InsertionEvent
    <3> QED
      BY <3>1, <3>2, <3>3
  <2>3. \A h \in Handler : ~Serves(handler[h], r) /\ ~Inserts(handler[h], r) /\ ~Plans(handler[h], r)
    BY <1>1 DEF Serves, Inserts, Plans, PlanPc
  <2>4. ~Ordered(r)
    <3>1. ASSUME NEW a \in Asg
          PROVE  ~Known(a)
      <4>1. \A e \in AsgNews(a) : ~Queued(e)
        BY <1>2, AsgFacts DEF InsertionEvent
      <4> QED
        BY <4>1, InitFacts DEF Known
    <3>2. \A h \in Handler : ~Assigns(handler[h], r)
      BY <1>1 DEF Assigns, Asm!AssignmentPc
    <3> QED
      BY <3>1, <3>2 DEF Ordered
  <2> QED
    BY <2>1, <2>2, <2>3, <2>4 DEF Heard
<1>4. ASSUME NEW r \in Req, Runs(r)
      PROVE  DependsOn[r] \subseteq answered
  <2>1. \A h \in Handler : ~Holds(handler[h], r)
    BY <1>1 DEF Holds, Serves, Frees, Marks
  <2>2. DependsOn[r] = {}
    BY <1>4, <2>1, InitFacts DEF Runs
  <2> QED
    BY <2>2
<1> QED
  BY <1>1, <1>3, <1>4 DEF InOrder

\* A step lets a request run only after those it depends on.
LEMMA InOrderStep ==
  ASSUME InOrder, [Next]_vars
  PROVE  InOrder'
<1>1. CASE Next
  <2>1. PICK h \in Handler : Step(h)
    BY <1>1, NextSteps DEF InOrder
  <2>2. Typed' /\ Advance(h) /\ answered \subseteq answered'
    BY <2>1 DEF Step, Advance
  <2>3. \A r \in Req : Heard(r)'
    BY <2>1, HeardKept DEF InOrder
  <2>4. ASSUME NEW r \in Req, Runs(r)'
        PROVE  DependsOn[r] \subseteq answered'
    <3>1. CASE Runs(r)
      BY <2>2, <3>1 DEF InOrder
    <3>2. CASE Permitted(r, h)
      <4>1. \A d \in DependsOn[r] : Status(d) = "ready" /\ d \in Req
        BY <3>2, MetAnswered, PipelineAssumption DEF Permitted
      <4> QED
        BY <2>2, <4>1 DEF InOrder, Heard
    <3> QED
      BY <2>2, <2>4, <3>1, <3>2, RunsFrom
  <2> QED
    BY <2>2, <2>3, <2>4 DEF InOrder
<1>2. CASE UNCHANGED vars
  BY <1>2, StutterTyped DEF InOrder, vars, wpVars, dbVars, Heard, Runs, Holds, Status, Queued, Ordered, Known
<1> QED
  BY <1>1, <1>2

\* The types of what the two pipelines share.
THEOREM TypeCorrect == Spec => []TypeOK
<1>1. Init => Typed
  BY InitTyped
<1>2. Typed /\ [Next]_vars => Typed'
  BY NextSteps, StutterTyped DEF Step
<1>3. Typed => TypeOK
  BY DEF Typed
<1> QED
  BY <1>1, <1>2, <1>3, PTL DEF Spec

\* No microservice is called before those it depends on have answered, and no
\* agent is ordered to do anything that its planner has not answered.
THEOREM PlanFollowed == Spec => []FollowsPlan
<1>1. Init => InOrder
  BY InOrderInit
<1>2. InOrder /\ [Next]_vars => InOrder'
  BY InOrderStep
<1>3. InOrder => FollowsPlan
  <2> SUFFICES ASSUME InOrder
               PROVE  FollowsPlan
    OBVIOUS
  <2>1. \A r \in Req : calls[r] > 0 => DependsOn[r] \subseteq answered
    BY DEF InOrder, Runs
  <2>2. ASSUME NEW a \in Asg, sent[a] > 0
        PROVE  Owner[a] \in answered
    <3>1. Owner[a] \in Req
      BY PipelineAssumption
    <3>2. Ordered(Owner[a])
      BY <2>2 DEF Ordered, Known
    <3> QED
      BY <3>1, <3>2 DEF InOrder, Heard
  <2> QED
    BY <2>1, <2>2 DEF FollowsPlan
<1> QED
  BY <1>1, <1>2, <1>3, PTL DEF Spec

----------------------------------------------------------------------------
(* A service that waits for the assignments of a planner *)

\* A recipe in which such a planner is a first step, and the service that
\* waits for its assignments is the next of no other step.
PlannerFirst ==
  \A r \in WaitAssignments : \A p \in DependsOn[r] \cap Planner :
    /\ DependsOn[p] = {}
    /\ \A q \in Req : p \notin NextReq[q] /\ (r \in NextReq[q] => q = p)

\* The assignments of planner p are still to be inserted.
Token == {"ready_for_service", "dispatching_service", "pending"}
Inserting(p) == \E h \in Handler : Inserts(handler[h], p)
Unplanned(p) == Status(p) \in Token \/ Queued(Ready(p, FALSE)) \/ Inserting(p)

\* They are inserted once: of the row, the event and the computation that
\* stand for their insertion there is one at a time, and nothing that
\* follows the insertion before it.
PlannedOnce(p) ==
  /\ Status(p) \notin {"wait_dependencies", "not_ready_for_service", "skipped"}
  /\ \A h \in Handler : ~Marks(handler[h], p) /\ ~Frees(handler[h], p)
  /\ Status(p) \in Token => ~Queued(Ready(p, FALSE)) /\ ~Inserting(p)
  /\ Queued(Ready(p, FALSE)) => events_queue[Ready(p, FALSE)] = 1 /\ ~Inserting(p)
  /\ \A h, g \in Handler : Inserts(handler[h], p) /\ Inserts(handler[g], p) => g = h
  /\ Unplanned(p) => /\ ~Flag(p) /\ ~Queued(Ready(p, TRUE))
                     /\ \A h \in Handler : ~Plans(handler[h], p) /\ ~Lists(handler[h], p)

\* Nobody has begun to dispatch request r.
Untouched(r) ==
  /\ Status(r) \in {"not_ready_for_service", "failed", "canceled"} /\ calls[r] = 0
  /\ \A e \in Asked(r) : ~Queued(e)
  /\ \A h \in Handler : LET t == handler[h] IN ~Dispatches(t, r) /\ ~Serves(t, r) /\ ~Frees(t, r) /\ ~Marks(t, r)

\* The assignments request r waits for are there and carried out.
Settled(r) ==
  /\ \A p \in DependsOn[r] \cap Planner : ~Unplanned(p)
  /\ \A a \in Asg : Owner[a] \in DependsOn[r] /\ assignments[a] # "absent" => a \in done

\* What the tables say of assignments.
Accounted ==
  /\ \A a \in Asg : /\ Succeeded(a) => a \in done
                    /\ assignments[a] # "absent" => Owner[a] \in Planner
  /\ \A r \in Req : Ordered(r) => \A a \in Asg : Owner[a] = r => assignments[a] # "absent"

\* Rows appear with the plan and succeed by the agents' reports.
LEMMA AccountedKept ==
  ASSUME Typed, NEW h \in Handler, Step(h), Accounted
  PROVE  Accounted'
<1>0. AssignmentsAdvance(h) /\ done \subseteq done'
  BY DEF Step, Advance
<1>1. ASSUME NEW a \in Asg, Succeeded(a)'
      PROVE  a \in done'
  BY <1>0, <1>1 DEF AssignmentsAdvance, Accounted
<1>2. ASSUME NEW a \in Asg, assignments'[a] # "absent"
      PROVE  Owner[a] \in Planner
  <2>1. PICK r \in Req : r = Owner[a]
    BY PipelineAssumption
  <2>2. Ordered(r)'
    BY <1>2, <2>1 DEF Ordered, Known
  <2>3. CASE Ordered(r)
    BY <2>1, <2>3 DEF Accounted
  <2>4. CASE InsertsAll(r, h)
    BY <2>1, <2>4, TypedTask DEF InsertsAll, Inserts, TaskOK, PlanPc
  <2> QED
    BY <1>0, <2>2, <2>3, <2>4 DEF AssignmentsAdvance
<1>3. ASSUME NEW r \in Req, Ordered(r)', NEW a \in Asg, Owner[a] = r
      PROVE  assignments'[a] # "absent"
  <2>1. CASE Ordered(r)
    BY <1>0, <1>3, <2>1 DEF AssignmentsAdvance, Accounted
  <2>2. CASE InsertsAll(r, h)
    BY <1>3, <2>2 DEF InsertsAll
  <2> QED
    BY <1>0, <1>3, <2>1, <2>2 DEF AssignmentsAdvance
<1> QED
  BY <1>1, <1>2, <1>3 DEF Accounted

\* The events that have the assignments of a planner inserted.
LEMMA PlanEvent ==
  ASSUME Typed, NEW h \in Handler, Step(h), NEW p \in Req, NEW d \in BOOLEAN, Queued(Ready(p, d))'
  PROVE  \/ /\ Queued(Ready(p, d)) /\ events_queue'[Ready(p, d)] <= events_queue[Ready(p, d)]
         \/ /\ events_queue'[Ready(p, d)] = events_queue[Ready(p, d)] + 1
            /\ events_queue[Ready(p, d)] \in Nat
            /\ service_requests'[p].status = "ready"
            /\ d = service_requests'[p].assignment_dispatched
            /\ Status(p) # "ready" \/ d
<1>0. About(p, h) /\ Typed'
  BY DEF Step, Advance
<1>1. PICK e : e = Ready(p, d)
  OBVIOUS
<1>2. e \in Event /\ events_queue[e] \in Nat /\ events_queue'[e] \in Nat /\ events_queue'[e] > 0
  BY <1>0, <1>1, NewsFacts DEF Queued, Typed, TypeOK
<1>3. CASE events_queue'[e] > events_queue[e]
  BY <1>0, <1>1, <1>2, <1>3 DEF About, EventsMove
<1>4. CASE ~(events_queue'[e] > events_queue[e])
  BY <1>1, <1>2, <1>4 DEF Queued
<1> QED
  BY <1>3, <1>4

\* A planner's row stands for the insertion only if it did before.
LEMMA TokenKept ==
  ASSUME Typed, NEW h \in Handler, Step(h), NEW p \in Req, PlannedOnce(p)
  PROVE  /\ service_requests'[p].status \notin {"wait_dependencies", "not_ready_for_service", "skipped"}
         /\ service_requests'[p].status \in Token => Status(p) \in Token
         /\ service_requests'[p].status = "ready" => Status(p) \in Token \cup {"ready"}
<1>1. StatusMoves(p, h) /\ handler[h] \in AnyTask /\ TaskOK(handler[h])
  BY TypedTask DEF Step, Advance, About
<1>2. ~Marks(handler[h], p) /\ ~Frees(handler[h], p)
      /\ Status(p) \notin {"wait_dependencies", "not_ready_for_service", "skipped"}
  BY DEF PlannedOnce
<1>3. handler[h].pc = "saveResponse" => handler[h].val \in {"ready", "pending", "failed", "canceled"}
  BY <1>1 DEF TaskOK
<1> QED
  BY <1>1, <1>2, <1>3 DEF StatusMoves, Status, Token, Svc!Answerable

\* The computations that insert the assignments of a planner.
LEMMA InsertingKept ==
  ASSUME Typed, NEW h \in Handler, Step(h), NEW p \in Req, NEW g \in Handler, Inserts(handler'[g], p)
  PROVE  \/ Inserts(handler[g], p)
         \/ /\ g = h /\ Queued(Ready(p, FALSE))
            /\ events_queue'[Ready(p, FALSE)] = events_queue[Ready(p, FALSE)] - 1
<1>1. Others(h) /\ TaskMoves(p, h)
  BY DEF Step, Advance, About
<1> QED
  BY <1>1 DEF Others, TaskMoves, PlanMoves

\* What is done is done.
LEMMA UnplannedBefore ==
  ASSUME Typed, NEW h \in Handler, Step(h), NEW p \in Req, PlannedOnce(p), Unplanned(p)'
  PROVE  Unplanned(p)
<1>1. CASE service_requests'[p].status \in Token
  BY <1>1, TokenKept DEF Unplanned
<1>2. CASE Queued(Ready(p, FALSE))'
  <2>1. Queued(Ready(p, FALSE)) \/ (service_requests'[p].status = "ready" /\ Status(p) # "ready")
    BY <1>2, PlanEvent
  <2> QED
    BY <2>1, TokenKept DEF Unplanned
<1>3. CASE Inserting(p)'
  BY <1>3, InsertingKept DEF Inserting, Unplanned
<1> QED
  BY <1>1, <1>2, <1>3 DEF Unplanned, Status

\* The planner of a recipe that PlannerFirst allows.
FirstStep(p) == p \in Planner /\ DependsOn[p] = {} /\ \A q \in Req : p \notin NextReq[q]

\* The assignments of a first step are inserted once.
LEMMA PlannedOnceKept ==
  ASSUME Typed, NEW h \in Handler, Step(h), NEW p \in Req, FirstStep(p), PlannedOnce(p)
  PROVE  PlannedOnce(p)'
<1>0. /\ Others(h) /\ About(p, h) /\ Typed'
      /\ handler[h] \in AnyTask /\ TaskOK(handler[h])
  BY TypedTask DEF Step, Advance
<1>1. /\ service_requests'[p].status \notin {"wait_dependencies", "not_ready_for_service", "skipped"}
      /\ service_requests'[p].status \in Token => Status(p) \in Token
      /\ service_requests'[p].status = "ready" => Status(p) \in Token \cup {"ready"}
  BY TokenKept
<1>2. ASSUME NEW g \in Handler
      PROVE  ~Marks(handler'[g], p) /\ ~Frees(handler'[g], p)
  <2>1. CASE handler'[g] = handler[g]
    BY <2>1 DEF PlannedOnce
  <2>2. CASE g = h /\ handler'[h] # handler[h]
    <3>1. PipelineMoves(p, h)
      BY <1>0, <2>2 DEF About, TaskMoves
    <3>2. Status(p) # "wait_dependencies" /\ ~Marks(handler[h], p)
      BY DEF PlannedOnce
    <3>3. handler[h].pc = "listNext" => handler[h].row \in Req
      BY <1>0 DEF TaskOK, Svc!RequestPc
    <3> QED
      BY <2>2, <3>1, <3>2, <3>3 DEF PipelineMoves, FirstStep
  <2> QED
    BY <1>0, <2>1, <2>2 DEF Others
<1>3. ASSUME service_requests'[p].status \in Token
      PROVE  ~Queued(Ready(p, FALSE))' /\ ~Inserting(p)'
  <2>1. Status(p) \in Token /\ ~Queued(Ready(p, FALSE)) /\ ~Inserting(p)
    BY <1>1, <1>3 DEF PlannedOnce
  <2>2. ~Queued(Ready(p, FALSE))'
    BY <1>3, <2>1, PlanEvent DEF Token
  <2>3. ~Inserting(p)'
    BY <2>1, InsertingKept DEF Inserting
  <2> QED
    BY <2>2, <2>3
<1>4. ASSUME Queued(Ready(p, FALSE))'
      PROVE  events_queue'[Ready(p, FALSE)] = 1 /\ ~Inserting(p)'
  <2>e. PICK e : e = Ready(p, FALSE)
    OBVIOUS
  <2>n. e \in Event /\ events_queue[e] \in Nat /\ events_queue'[e] \in Nat /\ events_queue'[e] > 0
    BY <1>0, <1>4, <2>e, NewsFacts DEF Queued, Typed, TypeOK
  <2>1. CASE Queued(e) /\ events_queue'[e] <= events_queue[e]
    <3>1. events_queue[e] = 1 /\ ~Inserting(p)
      BY <2>e, <2>1 DEF PlannedOnce
    <3>2. events_queue'[e] = 1
      BY <2>n, <2>1, <3>1
    <3>3. ~Inserting(p)'
      <4> SUFFICES ASSUME NEW g \in Handler, Inserts(handler'[g], p)
                   PROVE  FALSE
        BY DEF Inserting
      <4>1. events_queue'[e] = events_queue[e] - 1
        BY <2>e, <3>1, InsertingKept DEF Inserting
      <4> QED
        BY <3>1, <3>2, <4>1
    <3> QED
      BY <2>e, <3>2, <3>3
  <2>2. CASE /\ events_queue'[e] = events_queue[e] + 1
             /\ service_requests'[p].status = "ready" /\ Status(p) # "ready"
    <3>1. Status(p) \in Token
      BY <1>1, <2>2
    <3>2. ~Queued(e) /\ ~Inserting(p)
      BY <2>e, <3>1 DEF PlannedOnce
    <3>3. events_queue'[e] = 1
      BY <2>n, <2>2, <3>2 DEF Queued
    <3>4. ~Inserting(p)'
      BY <2>e, <3>2, InsertingKept DEF Inserting
    <3> QED
      BY <2>e, <3>3, <3>4
  <2> QED
    BY <1>4, <2>e, <2>1, <2>2, PlanEvent
<1>5. ASSUME NEW f \in Handler, NEW g \in Handler, Inserts(handler'[f], p), Inserts(handler'[g], p)
      PROVE  f = g
  <2>1. CASE Queued(Ready(p, FALSE))
    <3>1. \A x \in Handler : ~Inserts(handler[x], p)
      BY <2>1 DEF PlannedOnce, Inserting
    <3> QED
      BY <1>5, <3>1, InsertingKept
  <2>2. CASE ~Queued(Ready(p, FALSE))
    <3>1. Inserts(handler[f], p) /\ Inserts(handler[g], p)
      BY <1>5, <2>2, InsertingKept
    <3> QED
      BY <3>1 DEF PlannedOnce
  <2> QED
    BY <2>1, <2>2
<1>6. ASSUME Unplanned(p)'
      PROVE  /\ ~service_requests'[p].assignment_dispatched /\ ~Queued(Ready(p, TRUE))'
             /\ \A g \in Handler : ~Plans(handler'[g], p) /\ ~Lists(handler'[g], p)
  <2>1. /\ ~Flag(p) /\ ~Queued(Ready(p, TRUE))
        /\ \A g \in Handler : ~Plans(handler[g], p) /\ ~Lists(handler[g], p)
    BY <1>6, UnplannedBefore DEF PlannedOnce
  <2>2. ~service_requests'[p].assignment_dispatched
    BY <1>0, <2>1 DEF About, FlagMoves
  <2>3. ~Queued(Ready(p, TRUE))'
    BY <2>1, <2>2, PlanEvent
  <2>4. ASSUME NEW g \in Handler, Plans(handler'[g], p)
        PROVE  FALSE
    <3>1. g = h /\ handler'[h] # handler[h]
      BY <1>0, <2>1, <2>4 DEF Others
    <3>2. PlanMoves(p, h) /\ ~Inserts(handler'[h], p)
      BY <1>0, <2>4, <3>1 DEF About, TaskMoves, Plans, Inserts
    <3>e. PICK e : e = Ready(p, FALSE)
      OBVIOUS
    <3>n. e \in Event /\ events_queue[e] \in Nat /\ events_queue'[e] \in Nat
      BY <1>0, <3>e, NewsFacts DEF Typed, TypeOK
    <3>3. CASE Inserts(handler[h], p)
      <4>1. Inserting(p)
        BY <3>3 DEF Inserting
      <4>2. Status(p) \notin Token /\ ~Queued(e)
        BY <3>e, <4>1 DEF PlannedOnce
      <4>3. service_requests'[p].status \notin Token
        BY <1>1, <4>2
      <4>4. ~Queued(Ready(p, FALSE))'
        BY <1>1, <3>e, <4>2, PlanEvent
      <4>5. ~Inserting(p)'
        <5> SUFFICES ASSUME NEW f \in Handler, Inserts(handler'[f], p)
                     PROVE  FALSE
          BY DEF Inserting
        <5>1. Inserts(handler[f], p)
          BY <3>e, <4>2, InsertingKept
        <5>2. f = h
          BY <3>3, <5>1 DEF PlannedOnce
        <5> QED
          BY <3>2, <5>2
      <4> QED
        BY <1>6, <4>3, <4>4, <4>5 DEF Unplanned, Status
    <3>4. CASE Queued(e) /\ events_queue'[e] = events_queue[e] - 1
      <4>1. Status(p) \notin Token /\ ~Inserting(p) /\ events_queue[e] = 1
        BY <3>e, <3>4 DEF PlannedOnce
      <4>2. service_requests'[p].status \notin Token
        BY <1>1, <4>1
      <4>3. ~Queued(Ready(p, FALSE))'
        BY <3>e, <3>4, <4>1 DEF Queued
      <4>4. ~Inserting(p)'
        <5> SUFFICES ASSUME NEW f \in Handler, Inserts(handler'[f], p)
                     PROVE  FALSE
          BY DEF Inserting
        <5>1. f = h
          BY <4>1, InsertingKept DEF Inserting
        <5> QED
          BY <3>2, <5>1
      <4> QED
        BY <1>6, <4>2, <4>3, <4>4 DEF Unplanned, Status
    <3> QED
      BY <2>1, <2>4, <3>1, <3>2, <3>3, <3>4, <3>e DEF PlanMoves
  <2>5. ASSUME NEW g \in Handler, Lists(handler'[g], p)
        PROVE  FALSE
    <3>1. g = h /\ handler'[h] # handler[h]
      BY <1>0, <2>1, <2>5 DEF Others
    <3>2. PipelineMoves(p, h)
      BY <1>0, <3>1 DEF About, TaskMoves
    <3> QED
      BY <2>1, <2>5, <3>1, <3>2 DEF PipelineMoves, FirstStep
  <2> QED
    BY <2>2, <2>3, <2>4, <2>5
<1> QED
  BY <1>1, <1>2, <1>3, <1>4, <1>5, <1>6 DEF PlannedOnce, Status, Flag

\* While its planner's assignments are to be inserted, nobody dispatches r.
LEMMA UntouchedKept ==
  ASSUME Typed, NEW h \in Handler, Step(h), NEW p \in Req, NEW r \in Req, FirstStep(p), PlannedOnce(p),
         \A q \in Req : r \in NextReq[q] => q = p, Unplanned(p), Untouched(r)
  PROVE  Untouched(r)'
<1>0. /\ Others(h) /\ About(r, h) /\ Typed'
      /\ handler[h] \in AnyTask /\ TaskOK(handler[h])
  BY TypedTask DEF Step, Advance
<1>1. service_requests'[r].status \in {"not_ready_for_service", "failed", "canceled"}
  BY <1>0 DEF About, StatusMoves, Untouched, Status, Svc!Answerable
<1>2. calls'[r] = 0
  BY <1>0 DEF About, CallsMove, Untouched, Dispatches
<1>3. ASSUME NEW e \in Asked(r), Queued(e)'
      PROVE  FALSE
  <2>1. e \in Event /\ events_queue[e] \in Nat /\ events_queue'[e] \in Nat /\ events_queue'[e] > 0
    BY <1>0, <1>3, NewsFacts DEF News, Queued, Typed, TypeOK
  <2>2. ~Queued(e)
    BY DEF Untouched
  <2>3. events_queue'[e] > events_queue[e]
    BY <2>1, <2>2 DEF Queued
  <2> QED
    BY <1>0, <1>1, <2>3 DEF About, EventsMove
<1>4. ASSUME NEW g \in Handler
      PROVE  /\ ~Dispatches(handler'[g], r) /\ ~Serves(handler'[g], r)
             /\ ~Frees(handler'[g], r) /\ ~Marks(handler'[g], r)
  <2>1. CASE handler'[g] = handler[g]
    BY <2>1 DEF Untouched
  <2>2. CASE g = h /\ handler'[h] # handler[h]
    <3>1. ServiceMoves(r, h) /\ PipelineMoves(r, h)
      BY <1>0, <2>2 DEF About, TaskMoves
    <3>2. /\ ~Dispatches(handler[h], r) /\ ~Serves(handler[h], r) /\ ~Marks(handler[h], r)
          /\ Status(r) \notin {"pending", "wait_dependencies"} /\ \A e \in Asked(r) : ~Queued(e)
      BY DEF Untouched
    <3>3. ~Dispatches(handler'[h], r)
      BY <3>1, <3>2 DEF ServiceMoves
    <3>4. ~Serves(handler'[h], r)
      BY <3>1, <3>2 DEF ServiceMoves, Dispatches
    <3>5. ~Frees(handler'[h], r)
      BY <3>1, <3>2 DEF PipelineMoves
    <3>6. ASSUME Marks(handler'[h], r)
          PROVE  FALSE
      <4>1. handler[h].pc = "listNext" /\ r \in NextReq[handler[h].row]
        BY <3>1, <3>2, <3>6 DEF PipelineMoves
      <4>2. handler[h].row = p
        BY <1>0, <4>1 DEF TaskOK, Svc!RequestPc
      <4>3. Lists(handler[h], p)
        BY <4>1, <4>2 DEF Lists
      <4> QED
        BY <4>3 DEF PlannedOnce
    <3> QED
      BY <2>2, <3>3, <3>4, <3>5, <3>6
  <2> QED
    BY <1>0, <2>1, <2>2 DEF Others
<1> QED
  BY <1>1, <1>2, <1>3, <1>4 DEF Untouched, Status

\* What request r waits for stays carried out.
LEMMA SettledKept ==
  ASSUME Typed, NEW h \in Handler, Step(h), Accounted, NEW r \in Req, Settled(r),
         \A p \in DependsOn[r] \cap Planner : p \in Req /\ PlannedOnce(p)
  PROVE  Settled(r)'
<1>0. AssignmentsAdvance(h) /\ done \subseteq done'
  BY DEF Step, Advance
<1>1. ASSUME NEW p \in DependsOn[r] \cap Planner
      PROVE  ~Unplanned(p)'
  BY UnplannedBefore DEF Settled
<1>2. ASSUME NEW a \in Asg, Owner[a] \in DependsOn[r], assignments'[a] # "absent"
      PROVE  a \in done'
  <2>1. CASE assignments[a] # "absent"
    BY <1>0, <1>2, <2>1 DEF Settled
  <2>2. CASE assignments[a] = "absent"
    <3>1. PICK q \in Req : q = Owner[a]
      BY PipelineAssumption
    <3>2. Ordered(q)'
      BY <1>2, <3>1 DEF Ordered, Known
    <3>3. InsertsAll(q, h)
      BY <1>0, <2>2, <3>1, <3>2 DEF AssignmentsAdvance, Accounted
    <3>4. Unplanned(q)
      BY <3>3 DEF InsertsAll, Unplanned, Inserting
    <3>5. q \in Planner
      BY <3>3, TypedTask DEF InsertsAll, Inserts, TaskOK, PlanPc
    <3> QED
      BY <1>2, <3>1, <3>4, <3>5 DEF Settled
  <2> QED
    BY <2>1, <2>2
<1> QED
  BY <1>1, <1>2 DEF Settled

\* Assignments that let a waiting request run are carried out.
LEMMA MetCarriedOut ==
  ASSUME Accounted, NEW r \in WaitAssignments, Svc!DetermineStatus(r) = "ready_for_service",
         NEW a \in Asg, Owner[a] \in DependsOn[r], assignments[a] # "absent"
  PROVE  a \in done
<1>1. PICK unfinished : unfinished = {b \in Asg : /\ Owner[b] \in DependsOn[r]
                                                  /\ assignments[b] \notin {"absent", "completed", "succeeded"}}
  OBVIOUS
<1>2. unfinished = {}
  BY <1>1 DEF Svc!DetermineStatus
<1>3. assignments[a] \in {"completed", "succeeded"}
  BY <1>1, <1>2
<1> QED
  BY <1>3 DEF Accounted, Succeeded

\* The invariant.
Waits ==
  /\ Typed /\ Accounted
  /\ \A r \in WaitAssignments :
       /\ \A p \in DependsOn[r] \cap Planner : PlannedOnce(p) /\ (Unplanned(p) => Untouched(r))
       /\ Runs(r) => Settled(r)

\* At the beginning all assignments are to be inserted, and no request waits for them.
LEMMA WaitsInit ==
  ASSUME Init, PlannerFirst
  PROVE  Waits
<1>1. Typed /\ \A h \in Handler : handler[h].pc \in {"calculating", "idle"}
  BY InitTyped
<1>2. ASSUME NEW e \in Event, Queued(e)
      PROVE  \E r \in Req : DependsOn[r] = {} /\ e = InsertionEvent(r)
  BY <1>2, InitFacts
<1>3. ASSUME NEW r \in Req, NEW h \in Handler
      PROVE  LET t == handler[h] IN
             /\ ~Dispatches(t, r) /\ ~Serves(t, r) /\ ~Frees(t, r) /\ ~Marks(t, r) /\ ~Lists(t, r)
             /\ ~Inserts(t, r) /\ ~Plans(t, r)
  BY <1>1 DEF Dispatches, Serves, Frees, Marks, Lists, Inserts, Plans, PlanPc
<1>4. ASSUME NEW r \in Req, NEW d \in BOOLEAN
      PROVE  ~Queued(Ready(r, d))
  <2> SUFFICES ASSUME Queued(Ready(r, d))
               PROVE  FALSE
    OBVIOUS
  <2>1. PICK q \in Req : Ready(r, d) = InsertionEvent(q)
    BY <1>2, NewsFacts
  <2>2. Ready(r, d).channel = "service_requests_update" /\ InsertionEvent(q).channel = "service_requests_insertion"
    BY DEF Ready, RequestEvent, InsertionEvent
  <2> QED
    BY <2>1, <2>2
<1>5. \A a \in Asg : ~Known(a)
  <2> SUFFICES ASSUME NEW a \in Asg
               PROVE  ~Known(a)
    OBVIOUS
  <2>1. \A e \in AsgNews(a) : ~Queued(e)
    BY <1>2, AsgFacts DEF InsertionEvent
  <2> QED
    BY <2>1, InitFacts DEF Known
<1>6. Accounted
  <2>1. \A r \in Req : ~Ordered(r)
    BY <1>1, <1>5 DEF Ordered, Assigns, Asm!AssignmentPc
  <2>2. \A a \in Asg : ~Succeeded(a)
    <3> SUFFICES ASSUME NEW a \in Asg
                 PROVE  ~Succeeded(a)
      OBVIOUS
    <3>1. AssignmentEvent(a, "succeeded") \in AsgNews(a)
      BY DEF AsgNews, HandledAssignment
    <3>2. ~Queued(AssignmentEvent(a, "succeeded")) /\ assignments[a] = "absent"
      BY <1>5, <3>1, InitFacts DEF Known
    <3>3. \A h \in Handler : ~Reported(handler[h], a)
      BY <1>1 DEF Reported
    <3> QED
      BY <3>2, <3>3 DEF Succeeded
  <2> QED
    BY <2>1, <2>2, InitFacts DEF Accounted
<1>7. ASSUME NEW r \in WaitAssignments, NEW p \in DependsOn[r] \cap Planner
      PROVE  PlannedOnce(p) /\ Untouched(r)
  <2>1. r \in Req /\ p \in Req /\ DependsOn[p] = {}
    BY PipelineAssumption, PartsAssumption DEF Svc!ServiceAssumption, PlannerFirst
  <2>2. Status(p) = "ready_for_service" /\ ~Flag(p) /\ Status(r) = "not_ready_for_service" /\ calls[r] = 0
    BY <2>1, InitFacts
  <2>3. PlannedOnce(p)
    BY <1>3, <1>4, <2>1, <2>2 DEF PlannedOnce, Inserting, Token
  <2>4. ASSUME NEW e \in Asked(r), Queued(e)
        PROVE  FALSE
    <3>1. e \in Event /\ e.id = r
      BY <2>1, NewsFacts DEF News
    <3>2. PICK q \in Req : DependsOn[q] = {} /\ e = InsertionEvent(q)
      BY <1>2, <2>4, <3>1
    <3>3. q = r
      BY <3>1, <3>2 DEF InsertionEvent
    <3> QED
      BY <3>2, <3>3
  <2> QED
    BY <1>3, <2>1, <2>2, <2>3, <2>4 DEF Untouched
<1>8. ASSUME NEW r \in WaitAssignments, Runs(r)
      PROVE  Settled(r)
  <2>1. r \in Req
    BY PartsAssumption DEF Svc!ServiceAssumption
  <2>2. \A h \in Handler : ~Holds(handler[h], r)
    BY <1>1 DEF Holds, Serves, Frees, Marks
  <2>3. DependsOn[r] = {}
    BY <1>8, <2>1, <2>2, InitFacts DEF Runs
  <2> QED
    BY <2>3 DEF Settled
<1> QED
  BY <1>1, <1>6, <1>7, <1>8 DEF Waits

\* A request that waits runs only in a state where its assignments are carried out.
LEMMA WaitsStep ==
  ASSUME Waits, PlannerFirst, [Next]_vars
  PROVE  Waits'
<1>1. CASE Next
  <2>1. PICK h \in Handler : Step(h)
    BY <1>1, NextSteps DEF Waits
  <2>2. Typed' /\ Advance(h) /\ Typed /\ Accounted
    BY <2>1 DEF Step, Waits
  <2>3. Accounted'
    BY <2>1, <2>2, AccountedKept
  <2>4. ASSUME NEW r \in WaitAssignments, NEW p \in DependsOn[r] \cap Planner
        PROVE  /\ r \in Req /\ p \in Req /\ FirstStep(p) /\ PlannedOnce(p)
               /\ Unplanned(p) => Untouched(r)
               /\ \A q \in Req : r \in NextReq[q] => q = p
    BY PipelineAssumption, PartsAssumption DEF Svc!ServiceAssumption, PlannerFirst, FirstStep, Waits
  <2>5. ASSUME NEW r \in WaitAssignments, NEW p \in DependsOn[r] \cap Planner
        PROVE  PlannedOnce(p)' /\ (Unplanned(p)' => Untouched(r)')
    <3>1. PlannedOnce(p)'
      BY <2>1, <2>2, <2>4, PlannedOnceKept
    <3>2. Unplanned(p)' => Unplanned(p)
      BY <2>1, <2>2, <2>4, UnplannedBefore
    <3>3. Unplanned(p) => Untouched(r)'
      BY <2>1, <2>2, <2>4, UntouchedKept
    <3> QED
      BY <3>1, <3>2, <3>3
  <2>6. ASSUME NEW r \in WaitAssignments, Runs(r)'
        PROVE  Settled(r)'
    <3>1. r \in Req
      BY PartsAssumption DEF Svc!ServiceAssumption
    <3>2. Settled(r)
      <4>1. CASE Runs(r)
        BY <4>1 DEF Waits
      <4>2. CASE Permitted(r, h)
        <5>1. \A p \in DependsOn[r] \cap Planner : ~Unplanned(p)
          BY <2>1, <2>4, <4>2 DEF Permitted, Untouched
        <5>2. \A a \in Asg : Owner[a] \in DependsOn[r] /\ assignments[a] # "absent" => a \in done
          BY <2>2, <4>2, MetCarriedOut DEF Permitted
        <5> QED
          BY <5>1, <5>2 DEF Settled
      <4> QED
        BY <2>2, <2>6, <3>1, <4>1, <4>2, RunsFrom
    <3>3. \A p \in DependsOn[r] \cap Planner : p \in Req /\ PlannedOnce(p)
      BY <2>4
    <3> QED
      BY <2>1, <2>2, <3>1, <3>2, <3>3, SettledKept
  <2> QED
    BY <2>2, <2>3, <2>5, <2>6 DEF Waits
<1>2. CASE UNCHANGED vars
  <2>1. Typed' /\ (Accounted <=> Accounted')
    BY <1>2, StutterTyped DEF Waits, vars, wpVars, dbVars, Accounted, Ordered, Known, Succeeded, Queued
  <2>2. \A p, r : /\ PlannedOnce(p) <=> PlannedOnce(p)'
                  /\ Unplanned(p) <=> Unplanned(p)'
                  /\ Untouched(r) <=> Untouched(r)'
                  /\ Runs(r) <=> Runs(r)'
                  /\ Settled(r) <=> Settled(r)'
    BY <1>2 DEF vars, wpVars, dbVars, PlannedOnce, Unplanned, Inserting, Untouched, Runs, Holds, Settled, Status, Flag, Queued
  <2> QED
    BY <2>1, <2>2 DEF Waits
<1> QED
  BY <1>1, <1>2

\* A service that waits for the assignments of its planner is not called
\* before agents have carried out all of them, nor do any turn up later.
THEOREM AssignmentsFirst == PlannerFirst => (Spec => []ServiceWaitsForAssignments)
<1> SUFFICES ASSUME PlannerFirst
             PROVE  Spec => []ServiceWaitsForAssignments
  OBVIOUS
<1>1. Init => Waits
  BY WaitsInit
<1>2. Waits /\ [Next]_vars => Waits'
  BY WaitsStep
<1>3. Waits => ServiceWaitsForAssignments
  BY PartsAssumption DEF Waits, ServiceWaitsForAssignments, Runs, Settled, Svc!ServiceAssumption
<1> QED
  BY <1>1, <1>2, <1>3, PTL DEF Spec
=============================================================================
