---------------------- MODULE AssignmentPipeline_proofs ----------------------
(***************************************************************************)
(* Proofs about AssignmentPipeline, for every set of assignments, every    *)
(* plan (NextAsg, DependsAsg), every number of computations in flight and  *)
(* every set of reports, with quick agents and orders that fail: the types,*)
(* that no agent is ordered before the agents of all the assignments it    *)
(* depends on have carried out theirs (SentAfterDependencies), and, as     *)
(* long as the user does not cancel a completed mission, that the outcome  *)
(* is final (OutcomeIsFinal), because the completion of the mission is at  *)
(* one place at a time (CompletedOnce).  For plans that give an assignment *)
(* at most one before it (PlanOfOne), and agents that report ends only     *)
(* (AgentsReportEnds), also that no agent is ordered twice (SentOnce) and  *)
(* that no assignment goes back in its cycle (AssignmentCycle), because    *)
(* the start of an assignment is at one place at a time (OneStart); and    *)
(* that the mission is not completed while an agent works for it           *)
(* (NoEarlyCompletion), because what an agent has done with stays so       *)
(* (CompletedLate).                                                        *)
(*                                                                         *)
(* The permission to order an agent travels: from the agents' reports to   *)
(* the rows, from there to a decision of the watcher, to the row it writes *)
(* and to the event of that row.  PlanInvariant names all these places.    *)
(***************************************************************************)
EXTENDS AssignmentPipeline, TLAPS

Task == [pc: {"idle"} \cup WorkProcessPc \cup AssignmentPc,
         row: Asg \cup {NoRow}, val: Mark, todo: [Row -> Mark]]

\* Assignment a may be ordered once the agents in `carried' have ended.
Permitted(a, carried) == DependsAsg[a] \subseteq carried

\* What computation t may hold.
TaskPermitted(t, carried) ==
  /\ t.pc \in AssignmentPc => t.row \in Asg
  /\ t.pc = "endMission" => t.val \in {"canceled", "succeeded"}
  /\ t.pc \in {"order", "unblock"} => Permitted(t.row, carried)
  /\ t.pc = "activate" => \A b \in Asg : /\ t.todo[b] \in {"-", "to_dispatch", "wait_dependencies"}
                                         /\ t.todo[b] = "to_dispatch" => DependsAsg[b] = {}
  /\ t.pc \in {"saveReport", "saveReportWhere"} => /\ t.val \in Reports
                                                   /\ t.val = "succeeded" => t.row \in carried

\* What the events that wait may say, when the queue is `queue'.
EventsPermitted(queue, carried) ==
  \A a \in Asg : /\ queue[AssignmentEvent(a, "to_dispatch")] > 0 => Permitted(a, carried)
                 /\ queue[AssignmentEvent(a, "succeeded")] > 0 => a \in carried

PlanInvariant ==
  /\ TypeOK
  /\ SentAfterDependencies
  /\ EventsPermitted(events_queue, done)
  /\ \A a \in Asg : assignments[a] = "completed" => a \in done
  /\ \A h \in Handler : TaskPermitted(handler[h], done)

----------------------------------------------------------------------------
(* What one statement does *)

\* Taking queued events and leaving permitted ones keeps the queue permitted.
LEMMA QueuePermits ==
  ASSUME TypeOK, EventsPermitted(events_queue, done), NEW taken, NEW left,
         \A e \in taken : Queued(e), TakeAndLeave(taken, left),
         \A a \in Asg : /\ AssignmentEvent(a, "to_dispatch") \in left => Permitted(a, done)
                        /\ AssignmentEvent(a, "succeeded") \in left => a \in done
  PROVE  events_queue' \in [Event -> Nat] /\ EventsPermitted(events_queue', done)
<1>1. ASSUME NEW e \in Event
      PROVE  /\ events_queue'[e] \in Nat
             /\ events_queue'[e] > 0 => events_queue[e] > 0 \/ e \in left
  <2>1. events_queue[e] \in Nat
    BY DEF TypeOK
  <2>2. e \in taken => events_queue[e] > 0
    BY DEF Queued
  <2>3. events_queue'[e] = (IF e \in taken THEN events_queue[e] - 1 ELSE events_queue[e])
                             + (IF e \in left THEN 1 ELSE 0)
    BY DEF TakeAndLeave
  <2>4. QED
    BY <2>1, <2>2, <2>3
<1>2. events_queue' \in [Event -> Nat]
  <2>1. events_queue' = [e \in Event |-> events_queue'[e]]
    BY DEF TakeAndLeave
  <2>2. QED
    BY <1>1, <2>1
<1>3. \A a \in Asg : /\ AssignmentEvent(a, "to_dispatch") \in Event
                     /\ AssignmentEvent(a, "succeeded") \in Event
  BY DEF Event, HandledAssignment
<1>4. QED
  BY <1>1, <1>2, <1>3 DEF EventsPermitted

\* A statement that takes an event and writes nothing, and one that writes
\* what no event about an assignment tells.
LEMMA QueueKeeps ==
  ASSUME PlanInvariant, NEW taken, NEW left, \A e \in taken : Queued(e),
         TakeAndLeave(taken, left),
         \A e \in left : e.channel # "assignments_status_update"
  PROVE  events_queue' \in [Event -> Nat] /\ EventsPermitted(events_queue', done)
<1>1. \A a \in Asg, s \in {"to_dispatch", "succeeded"} : AssignmentEvent(a, s) \notin left
  BY DEF AssignmentEvent
<1>2. QED
  BY <1>1, QueuePermits DEF PlanInvariant

\* A statement about the mission writes a mission status and its event.
LEMMA MissionWritten ==
  ASSUME PlanInvariant, NEW s \in MissionStatus, NEW allowed, NEW taken,
         \A e \in taken : Queued(e),
         SetMission(s, taken) \/ SetMissionWhere(allowed, s, taken)
  PROVE  /\ mission' \in MissionStatus
         /\ events_queue' \in [Event -> Nat] /\ EventsPermitted(events_queue', done)
<1>1. MissionEvent(s).channel # "assignments_status_update"
  BY DEF MissionEvent
<1>2. CASE SetMission(s, taken)
  <2>1. PICK left : TakeAndLeave(taken, left) /\ left \subseteq {MissionEvent(s)}
    BY <1>2 DEF SetMission
  <2>2. QED
    BY <1>1, <1>2, <2>1, QueueKeeps DEF SetMission
<1>3. CASE SetMissionWhere(allowed, s, taken) /\ ~SetMission(s, taken)
  <2>1. TakeAndLeave(taken, {}) /\ mission' = mission
    BY <1>3 DEF SetMissionWhere
  <2>2. QED
    BY <2>1, QueueKeeps DEF PlanInvariant, TypeOK
<1>4. QED
  BY <1>2, <1>3

\* A statement may set rows to to_dispatch where their dependencies are
\* done, and to succeeded or completed where their agents are.
LEMMA AssignmentsWritten ==
  ASSUME PlanInvariant, NEW rows \in SUBSET Asg, NEW s \in AssignmentStatus, NEW taken,
         \A e \in taken : Queued(e), SetAssignments(rows, s, taken),
         s = "to_dispatch" => \A a \in rows : Permitted(a, done),
         s \in {"succeeded", "completed"} => rows \subseteq done
  PROVE  /\ assignments' \in [Asg -> AssignmentStatus \cup {"absent"}]
         /\ \A a \in Asg : assignments'[a] = "completed" => a \in done
         /\ events_queue' \in [Event -> Nat] /\ EventsPermitted(events_queue', done)
<1> DEFINE left == {AssignmentEvent(a, s) : a \in {b \in rows : assignments[b] # s}}
<1>1. \A a \in Asg : \A t : AssignmentEvent(a, t) \in left => a \in rows /\ t = s
  BY DEF AssignmentEvent
<1>2. TakeAndLeave(taken, left)
  BY DEF SetAssignments
<1> HIDE DEF left
<1>3. events_queue' \in [Event -> Nat] /\ EventsPermitted(events_queue', done)
  BY <1>1, <1>2, QueuePermits DEF PlanInvariant
<1>4. assignments' = [a \in Asg |-> IF a \in rows THEN s ELSE assignments[a]]
  BY DEF SetAssignments
<1>5. QED
  BY <1>3, <1>4 DEF PlanInvariant, TypeOK

\* The computation that takes the step goes on with a permitted task, the
\* others stay as they are; more agents may be done.
LEMMA TasksPermitted ==
  ASSUME PlanInvariant, NEW h \in Handler, NEW t \in Task, NEW carried, done \subseteq carried,
         Becomes(h, t), TaskPermitted(t, carried)
  PROVE  /\ handler' \in [Handler -> Task]
         /\ \A g \in Handler : TaskPermitted(handler'[g], carried)
<1>1. handler \in [Handler -> Task]
  BY DEF PlanInvariant, TypeOK, Task
<1>2. \A g \in Handler : handler'[g] = IF g = h THEN t ELSE handler[g]
  BY <1>1 DEF Becomes
<1>3. \A g \in Handler : TaskPermitted(handler[g], carried)
  BY DEF PlanInvariant, TaskPermitted, Permitted
<1>4. handler' \in [Handler -> Task]
  BY <1>1 DEF Becomes
<1>5. QED
  BY <1>2, <1>3, <1>4

----------------------------------------------------------------------------
(* Tasks *)

\* A computation that holds no permission needs none.
LEMMA PlainTask ==
  ASSUME NEW pc \in ({"idle"} \cup WorkProcessPc \cup AssignmentPc)
                      \ {"endMission", "order", "unblock", "activate", "saveReport", "saveReportWhere"},
         NEW row \in Asg \cup {NoRow}, NEW val \in Mark,
         pc \in AssignmentPc => row \in Asg
  PROVE  At(pc, row, val) \in Task /\ TaskPermitted(At(pc, row, val), done)
<1>1. NoTodo \in [Row -> Mark]
  BY DEF NoTodo, Mark
<1>2. QED
  BY <1>1 DEF At, Task, TaskPermitted

\* One that ended holds nothing.
LEMMA IdleTask == Idle \in Task /\ \A carried : TaskPermitted(Idle, carried)
BY DEF Idle, Task, NoTodo, Mark, TaskPermitted, AssignmentPc

\* A list of next assignments is permitted if it orders only those that
\* depend on nothing.
LEMMA ListTask ==
  ASSUME NEW a \in Asg, NEW todo \in [Row -> Mark],
         \A b \in Asg : /\ todo[b] \in {"-", "to_dispatch", "wait_dependencies"}
                        /\ todo[b] = "to_dispatch" => DependsAsg[b] = {}
  PROVE  /\ [pc |-> "activate", row |-> a, val |-> "-", todo |-> todo] \in Task
         /\ TaskPermitted([pc |-> "activate", row |-> a, val |-> "-", todo |-> todo], done)
BY DEF Task, TaskPermitted, AssignmentPc, Mark

\* What the invariant says of the computation that takes the step.
LEMMA InvariantOf ==
  ASSUME PlanInvariant, NEW h \in Handler
  PROVE  /\ TypeOK /\ EventsPermitted(events_queue, done)
         /\ handler[h] \in Task /\ TaskPermitted(handler[h], done)
BY DEF PlanInvariant, TypeOK, Task

----------------------------------------------------------------------------
(* Kinds of steps *)

\* A step that gives no order and hears no agent.
LEMMA StepKeeps ==
  ASSUME PlanInvariant, NEW h \in Handler, NEW t \in Task, Becomes(h, t), TaskPermitted(t, done),
         mission' \in MissionStatus, service_requests' \in [Req -> RequestRow],
         assignments' \in [Asg -> AssignmentStatus \cup {"absent"}],
         \A a \in Asg : assignments'[a] = "completed" => a \in done,
         events_queue' \in [Event -> Nat], EventsPermitted(events_queue', done),
         released' \in Nat, sent' = sent, agent' \in [Asg -> AgentState], done' = done
  PROVE  PlanInvariant'
<1>1. /\ handler' \in [Handler -> Task]
      /\ \A g \in Handler : TaskPermitted(handler'[g], done')
  BY TasksPermitted
<1>2. TypeOK'
  BY <1>1 DEF PlanInvariant, TypeOK, Task
<1>3. SentAfterDependencies'
  BY DEF PlanInvariant, SentAfterDependencies
<1>4. QED
  BY <1>1, <1>2, <1>3 DEF PlanInvariant

\* A step that only moves a computation on, and may take an event.
LEMMA MoveKeeps ==
  ASSUME PlanInvariant, NEW h \in Handler, NEW t \in Task, Becomes(h, t), TaskPermitted(t, done),
         events_queue' \in [Event -> Nat], EventsPermitted(events_queue', done),
         UNCHANGED <<mission, service_requests, assignments, released, field>>
  PROVE  PlanInvariant'
BY StepKeeps DEF field, PlanInvariant, TypeOK

\* A step that moves a computation on and leaves the queue alone.
LEMMA StayKeeps ==
  ASSUME PlanInvariant, NEW h \in Handler, NEW t \in Task, Becomes(h, t), TaskPermitted(t, done),
         UNCHANGED <<mission, service_requests, assignments, events_queue, released, field>>
  PROVE  PlanInvariant'
BY MoveKeeps DEF PlanInvariant, TypeOK

\* A step that writes assignments.
LEMMA WriteKeeps ==
  ASSUME PlanInvariant, NEW h \in Handler, NEW t \in Task, Becomes(h, t), TaskPermitted(t, done),
         NEW rows \in SUBSET Asg, NEW s \in AssignmentStatus, NEW taken,
         \A e \in taken : Queued(e), SetAssignments(rows, s, taken),
         s = "to_dispatch" => \A a \in rows : Permitted(a, done),
         s \in {"succeeded", "completed"} => rows \subseteq done,
         UNCHANGED <<mission, service_requests, released, field>>
  PROVE  PlanInvariant'
<1>1. /\ assignments' \in [Asg -> AssignmentStatus \cup {"absent"}]
      /\ \A a \in Asg : assignments'[a] = "completed" => a \in done
      /\ events_queue' \in [Event -> Nat] /\ EventsPermitted(events_queue', done)
  BY AssignmentsWritten
<1>2. QED
  BY <1>1, StepKeeps DEF field, PlanInvariant, TypeOK

\* A step that writes the mission.
LEMMA MissionKeeps ==
  ASSUME PlanInvariant, NEW h \in Handler, NEW t \in Task, Becomes(h, t), TaskPermitted(t, done),
         NEW s \in MissionStatus, NEW allowed, NEW taken, \A e \in taken : Queued(e),
         SetMission(s, taken) \/ SetMissionWhere(allowed, s, taken),
         UNCHANGED <<service_requests, assignments, released, field>>
  PROVE  PlanInvariant'
<1>1. /\ mission' \in MissionStatus
      /\ events_queue' \in [Event -> Nat] /\ EventsPermitted(events_queue', done)
  BY MissionWritten
<1>2. QED
  BY <1>1, StepKeeps DEF field, PlanInvariant, TypeOK

----------------------------------------------------------------------------
(* Orders and reports *)

\* An order is sent with permission; a report of success is saved with the
\* agent done.
LEMMA OrderingKeeps ==
  ASSUME PlanInvariant, NEW h \in Handler, Ordering(h)
  PROVE  PlanInvariant'
<1> DEFINE a == handler[h].row
<1>1. TypeOK /\ EventsPermitted(events_queue, done)
      /\ handler[h] \in Task /\ TaskPermitted(handler[h], done)
  BY InvariantOf
<1>2. "-" \in Mark
  BY DEF Mark
<1>3. CASE SendOrder(h)
  <2>1. a \in Asg /\ Permitted(a, done)
    BY <1>1, <1>3 DEF SendOrder, IsAt, TaskPermitted, AssignmentPc
  <2>2. /\ At("markExecuting", a, "-") \in Task
        /\ TaskPermitted(At("markExecuting", a, "-"), done)
    BY <1>2, <2>1, PlainTask DEF AssignmentPc
  <2>3. /\ handler' \in [Handler -> Task]
        /\ \A g \in Handler : TaskPermitted(handler'[g], done)
    BY <1>3, <2>2, TasksPermitted DEF SendOrder
  <2>4. /\ sent' \in [Asg -> Nat] /\ \A b \in Asg \ {a} : sent'[b] = sent[b]
        /\ agent' \in [Asg -> AgentState]
    BY <1>1, <1>3, <2>1 DEF SendOrder, TypeOK, AgentState
  <2>5. SentAfterDependencies'
    BY <1>3, <2>1, <2>4 DEF PlanInvariant, SentAfterDependencies, SendOrder, Permitted
  <2>6. TypeOK'
    BY <1>1, <1>3, <2>3, <2>4 DEF SendOrder, TypeOK, Task
  <2>7. QED
    BY <1>3, <2>3, <2>5, <2>6 DEF PlanInvariant, SendOrder
<1>4. CASE OrderFails(h)
  <2>1. a \in Asg
    BY <1>1, <1>4 DEF OrderFails, IsAt, TaskPermitted, AssignmentPc
  <2>2. /\ At("orderFailed", a, "-") \in Task
        /\ TaskPermitted(At("orderFailed", a, "-"), done)
    BY <1>2, <2>1, PlainTask DEF AssignmentPc
  <2>3. QED
    BY <1>4, <2>2, StayKeeps DEF OrderFails
<1>5. CASE SaveOrderFailure(h)
  <2>1. a \in Asg
    BY <1>1, <1>5 DEF SaveOrderFailure, IsAt, TaskPermitted, AssignmentPc
  <2>2. /\ At("markExecuting", a, "-") \in Task
        /\ TaskPermitted(At("markExecuting", a, "-"), done)
    BY <1>2, <2>1, PlainTask DEF AssignmentPc
  <2>3. "failed" \in AssignmentStatus
    BY DEF AssignmentStatus
  <2>4. QED
    BY <1>5, <2>1, <2>2, <2>3, WriteKeeps DEF SaveOrderFailure
<1>6. CASE MarkExecuting(h)
  <2>1. a \in Asg
    BY <1>1, <1>6 DEF MarkExecuting, IsAt, TaskPermitted, AssignmentPc
  <2>2. "executing" \in AssignmentStatus
    BY DEF AssignmentStatus
  <2>3. QED
    BY <1>6, <2>1, <2>2, IdleTask, WriteKeeps DEF MarkExecuting
<1>7. CASE MarkCanceled(h)
  <2>1. a \in Asg
    BY <1>1, <1>7 DEF MarkCanceled, IsAt, TaskPermitted, AssignmentPc
  <2>2. "canceled" \in AssignmentStatus
    BY DEF AssignmentStatus
  <2>3. QED
    BY <1>7, <2>1, <2>2, IdleTask, WriteKeeps DEF MarkCanceled
<1>8. CASE SaveReport(h) \/ SaveReportWhere(h)
  <2> DEFINE s == handler[h].val
  <2>1. a \in Asg /\ s \in Reports /\ (s = "succeeded" => a \in done)
    BY <1>1, <1>8 DEF SaveReport, SaveReportWhere, IsAt, TaskPermitted, AssignmentPc
  <2>2. s \in AssignmentStatus /\ s \notin {"to_dispatch", "completed"}
    BY <2>1, AssignmentAssumption DEF AssignmentStatus
  <2>3. PICK rows \in SUBSET Asg : rows \subseteq {a} /\ SetAssignments(rows, s, {})
    BY <1>8, <2>1 DEF SaveReport, SaveReportWhere
  <2>4. Becomes(h, Idle) /\ UNCHANGED <<mission, service_requests, released, field>>
    BY <1>8 DEF SaveReport, SaveReportWhere
  <2>5. QED
    BY <2>1, <2>2, <2>3, <2>4, IdleTask, WriteKeeps
<1>9. QED
  BY <1>3, <1>4, <1>5, <1>6, <1>7, <1>8 DEF Ordering

\* An agent that succeeds is done from then on; what it says is kept for the
\* statement that saves it.
LEMMA AgentReportsKeeps ==
  ASSUME PlanInvariant, NEW h \in Handler, NEW a \in Asg, AgentReports(h, a)
  PROVE  PlanInvariant'
<1>1. TypeOK
  BY DEF PlanInvariant
<1>2. PICK s \in Reports :
        /\ done' = IF s = "succeeded" THEN done \cup {a} ELSE done
        /\ agent' = [agent EXCEPT ![a] = IF s \in AfterDispatch THEN @ ELSE "over"]
        /\ Becomes(h, Idle) \/ Becomes(h, At("saveReport", a, s))
             \/ Becomes(h, At("saveReportWhere", a, s))
        /\ UNCHANGED <<mission, service_requests, assignments, events_queue, released, sent>>
  BY DEF AgentReports
<1>3. done \subseteq done' /\ done' \subseteq Asg /\ (s = "succeeded" => a \in done')
  BY <1>1, <1>2 DEF TypeOK
<1>4. s \in Mark /\ NoTodo \in [Row -> Mark]
  BY <1>2, AssignmentAssumption DEF Mark, AssignmentStatus, NoTodo
<1>5. \A pc \in {"saveReport", "saveReportWhere"} :
        At(pc, a, s) \in Task /\ TaskPermitted(At(pc, a, s), done')
  BY <1>2, <1>3, <1>4 DEF At, Task, TaskPermitted, AssignmentPc
<1>6. PICK t \in Task : Becomes(h, t) /\ TaskPermitted(t, done')
  BY <1>2, <1>5, IdleTask
<1>7. /\ handler' \in [Handler -> Task]
      /\ \A g \in Handler : TaskPermitted(handler'[g], done')
  BY <1>3, <1>6, TasksPermitted
<1>8. agent' \in [Asg -> AgentState]
  BY <1>1, <1>2 DEF TypeOK, AgentState
<1>9. TypeOK'
  BY <1>1, <1>2, <1>3, <1>7, <1>8 DEF TypeOK, Task
<1>10. SentAfterDependencies' /\ EventsPermitted(events_queue', done')
       /\ \A b \in Asg : assignments'[b] = "completed" => b \in done'
  BY <1>2, <1>3 DEF PlanInvariant, SentAfterDependencies, EventsPermitted, Permitted
<1>11. QED
  BY <1>7, <1>9, <1>10 DEF PlanInvariant
----------------------------------------------------------------------------
(* Events and the wrap-up *)

\* An event that waits is permitted, so is the order that follows it; a
\* success that is told of is of an agent that is done.
LEMMA HandleKeeps ==
  ASSUME PlanInvariant, NEW h \in Handler, Handle(h)
  PROVE  PlanInvariant'
<1>1. TypeOK /\ EventsPermitted(events_queue, done)
  BY DEF PlanInvariant
<1>2. PICK a \in Asg :
        \/ HandleToDispatch(h, a) \/ HandleSucceeded(h, a) \/ HandleCanceled(h, a)
        \/ HandleAssignmentCanceling(h, a) \/ HandleAssignmentFailure(h, a)
  BY DEF Handle
<1>3. "-" \in Mark
  BY DEF Mark
<1>4. \A pc \in {"checkServices", "markCanceled", "failMission"} :
        At(pc, a, "-") \in Task /\ TaskPermitted(At(pc, a, "-"), done)
  BY <1>3, PlainTask DEF AssignmentPc
<1>5. CASE HandleToDispatch(h, a)
  <2> DEFINE e == AssignmentEvent(a, "to_dispatch")
  <2>1. Queued(e) /\ TakeAndLeave({e}, {}) /\ Becomes(h, At("order", a, "-"))
        /\ UNCHANGED <<mission, service_requests, assignments, released, field>>
    BY <1>5 DEF HandleToDispatch, Starts
  <2>2. Permitted(a, done)
    BY <1>1, <2>1 DEF Queued, EventsPermitted
  <2>3. NoTodo \in [Row -> Mark]
    BY <1>3 DEF NoTodo
  <2>4. At("order", a, "-") \in Task /\ TaskPermitted(At("order", a, "-"), done)
    BY <1>3, <2>2, <2>3 DEF At, Task, TaskPermitted, AssignmentPc
  <2> HIDE DEF e
  <2>5. events_queue' \in [Event -> Nat] /\ EventsPermitted(events_queue', done)
    BY <2>1, QueueKeeps
  <2>6. QED
    BY <2>1, <2>4, <2>5, MoveKeeps
<1>6. CASE HandleSucceeded(h, a)
  <2> DEFINE e == AssignmentEvent(a, "succeeded")
  <2>1. Queued(e) /\ SetAssignments({a}, "completed", {e}) /\ Becomes(h, At("checkServices", a, "-"))
        /\ UNCHANGED <<mission, service_requests, released, field>>
    BY <1>6 DEF HandleSucceeded, Starts
  <2>2. a \in done
    BY <1>1, <2>1 DEF Queued, EventsPermitted
  <2> HIDE DEF e
  <2>3. "completed" \in AssignmentStatus
    BY DEF AssignmentStatus
  <2>4. QED
    BY <1>4, <2>1, <2>2, <2>3, WriteKeeps
<1>7. CASE HandleCanceled(h, a)
  <2>1. PICK e : Queued(e) /\ TakeAndLeave({e}, {})
    BY <1>7 DEF HandleCanceled, Starts
  <2>2. events_queue' \in [Event -> Nat] /\ EventsPermitted(events_queue', done)
    BY <2>1, QueueKeeps
  <2>3. QED
    BY <1>4, <1>7, <2>2, MoveKeeps DEF HandleCanceled
<1>8. CASE HandleAssignmentCanceling(h, a)
  <2>1. PICK e : Queued(e) /\ TakeAndLeave({e}, {})
    BY <1>8 DEF HandleAssignmentCanceling, Starts
  <2>2. events_queue' \in [Event -> Nat] /\ EventsPermitted(events_queue', done)
    BY <2>1, QueueKeeps
  <2>3. agent' \in [Asg -> AgentState]
    BY <1>1, <1>8 DEF HandleAssignmentCanceling, TypeOK, AgentState
  <2>4. Becomes(h, At("markCanceled", a, "-"))
        /\ UNCHANGED <<mission, service_requests, assignments, released, sent, done>>
    BY <1>8 DEF HandleAssignmentCanceling
  <2>5. QED
    BY <1>4, <2>2, <2>3, <2>4, StepKeeps DEF PlanInvariant, TypeOK
<1>9. CASE HandleAssignmentFailure(h, a)
  <2>1. PICK e : Queued(e) /\ TakeAndLeave({e}, {})
    BY <1>9 DEF HandleAssignmentFailure, Starts
  <2>2. events_queue' \in [Event -> Nat] /\ EventsPermitted(events_queue', done)
    BY <2>1, QueueKeeps
  <2>3. /\ Becomes(h, At("checkServices", a, "-")) \/ Becomes(h, At("failMission", a, "-"))
        /\ UNCHANGED <<mission, service_requests, assignments, released, field>>
    BY <1>9 DEF HandleAssignmentFailure
  <2>4. QED
    BY <1>4, <2>2, <2>3, MoveKeeps
<1>10. QED
  BY <1>2, <1>5, <1>6, <1>7, <1>8, <1>9

\* The wrap-up orders what depends on nothing, the watcher what waits for
\* assignments that are completed; the decision may be old when it is written.
LEMMA WrappingUpKeeps ==
  ASSUME PlanInvariant, NEW h \in Handler, WrappingUp(h)
  PROVE  PlanInvariant'
<1> DEFINE a == handler[h].row
<1>1. TypeOK /\ handler[h] \in Task /\ TaskPermitted(handler[h], done)
  BY InvariantOf
<1>2. "-" \in Mark
  BY DEF Mark
<1>3. CASE CheckServices(h) \/ CheckAssignments(h)
  <2>1. a \in Asg
    BY <1>1, <1>3 DEF CheckServices, CheckAssignments, IsAt, TaskPermitted, AssignmentPc
  <2>2. PICK pc \in {"checkAssignments", "listNextAssignments", "completeMission"} :
          Becomes(h, At(pc, a, "-"))
    BY <1>3 DEF CheckServices, CheckAssignments
  <2>3. At(pc, a, "-") \in Task /\ TaskPermitted(At(pc, a, "-"), done)
    BY <1>2, <2>1, PlainTask DEF AssignmentPc
  <2>4. UNCHANGED <<mission, service_requests, assignments, events_queue, released, field>>
    BY <1>3 DEF CheckServices, CheckAssignments
  <2>5. QED
    BY <2>2, <2>3, <2>4, StayKeeps
<1>4. CASE CompleteMission(h)
  <2>1. a \in Asg
    BY <1>1, <1>4 DEF CompleteMission, IsAt, TaskPermitted, AssignmentPc
  <2>2. /\ At("listNextAssignments", a, "-") \in Task
        /\ TaskPermitted(At("listNextAssignments", a, "-"), done)
    BY <1>2, <2>1, PlainTask DEF AssignmentPc
  <2>3. "assignments_completed" \in MissionStatus
    BY DEF MissionStatus
  <2>4. QED
    BY <1>4, <2>2, <2>3, MissionKeeps DEF CompleteMission
<1>5. CASE FailMission(h)
  <2>1. "assignment_failed" \in MissionStatus
    BY DEF MissionStatus
  <2>2. QED
    BY <1>5, <2>1, IdleTask, MissionKeeps DEF FailMission
<1>6. CASE ListNextAssignments(h)
  <2> DEFINE next == {b \in NextAsg[a] : assignments[b] # "canceled"}
             mark(b) == IF DependsAsg[b] = {} THEN "to_dispatch" ELSE "wait_dependencies"
             list == [x \in Row |-> IF x \in next THEN mark(x) ELSE "-"]
             ordersFree(todo) ==
               \A b \in Asg : /\ todo[b] \in {"-", "to_dispatch", "wait_dependencies"}
                              /\ todo[b] = "to_dispatch" => DependsAsg[b] = {}
  <2>1. PICK row \in Asg : row = a
    BY <1>1, <1>6 DEF ListNextAssignments, IsAt, TaskPermitted, AssignmentPc
  <2>2. list \in [Row -> Mark] /\ ordersFree(list)
    BY DEF Mark, AssignmentStatus, Row
  <2>3. [At("activate", a, "-") EXCEPT !.todo = list]
          = [pc |-> "activate", row |-> a, val |-> "-", todo |-> list]
    BY DEF At
  <2>4. Becomes(h, Idle)
        \/ Becomes(h, [pc |-> "activate", row |-> row, val |-> "-", todo |-> list])
    BY <1>6, <2>1, <2>3 DEF ListNextAssignments
  <2>5. PICK todo \in [Row -> Mark] :
          /\ ordersFree(todo)
          /\ Becomes(h, Idle)
             \/ Becomes(h, [pc |-> "activate", row |-> row, val |-> "-", todo |-> todo])
    BY <2>2, <2>4
  <2>6. PICK t \in Task : Becomes(h, t) /\ TaskPermitted(t, done)
    BY <2>5, IdleTask, ListTask
  <2>7. UNCHANGED <<mission, service_requests, assignments, events_queue, released, field>>
    BY <1>6 DEF ListNextAssignments
  <2>8. QED
    BY <2>6, <2>7, StayKeeps
<1>7. CASE Unblock(h)
  <2>1. a \in Asg /\ Permitted(a, done)
    BY <1>1, <1>7 DEF Unblock, IsAt, TaskPermitted, AssignmentPc
  <2>2. PICK rows \in SUBSET Asg : rows \subseteq {a} /\ SetAssignments(rows, "to_dispatch", {})
    BY <1>7, <2>1 DEF Unblock
  <2>3. "to_dispatch" \in AssignmentStatus
    BY DEF AssignmentStatus
  <2>4. QED
    BY <1>7, <2>1, <2>2, <2>3, IdleTask, WriteKeeps DEF Unblock
<1>8. ASSUME NEW b \in Asg, ActivateAssignment(h, b)
      PROVE  PlanInvariant'
  <2> DEFINE s == handler[h].todo[b]
             rest == [handler[h] EXCEPT !.todo[b] = "-"]
  <2>1. /\ handler[h].pc = "activate" /\ a \in Asg
        /\ s \in {"to_dispatch", "wait_dependencies"}
        /\ s = "to_dispatch" => DependsAsg[b] = {}
    BY <1>1, <1>8 DEF ActivateAssignment, IsAt, TaskPermitted, AssignmentPc
  <2>2. s \in AssignmentStatus /\ (s = "to_dispatch" => Permitted(b, done))
    BY <2>1 DEF AssignmentStatus, Permitted
  <2>3. SetAssignments({b}, s, {}) /\ UNCHANGED <<mission, service_requests, released, field>>
    BY <1>8 DEF ActivateAssignment
  <2>4. Becomes(h, Idle) \/ Becomes(h, rest)
    BY <1>8 DEF ActivateAssignment, DoneWith
  <2>5. rest \in Task /\ rest.pc = "activate" /\ rest.row = a
        /\ \A x \in Asg : rest.todo[x] = IF x = b THEN "-" ELSE handler[h].todo[x]
    BY <1>1, <1>2, <2>1 DEF Task, Row
  <2> HIDE DEF rest
  <2>6. TaskPermitted(rest, done)
    BY <1>1, <2>1, <2>5 DEF TaskPermitted, AssignmentPc
  <2>7. PICK t \in Task : Becomes(h, t) /\ TaskPermitted(t, done)
    BY <2>4, <2>5, <2>6, IdleTask
  <2>8. {b} \in SUBSET Asg /\ (s = "to_dispatch" => \A x \in {b} : Permitted(x, done))
        /\ s \notin {"succeeded", "completed"}
    BY <2>1, <2>2
  <2> HIDE DEF s
  <2>9. QED
    BY <2>2, <2>3, <2>7, <2>8, WriteKeeps
<1>9. QED
  BY <1>3, <1>4, <1>5, <1>6, <1>7, <1>8 DEF WrappingUp

\* A row that the watcher finds completed is of an agent that is done.
LEMMA WatchKeeps ==
  ASSUME PlanInvariant, NEW h \in Handler, NEW b \in Asg, FindUnblocked(h, b)
  PROVE  PlanInvariant'
<1>1. DependsAsg[b] \subseteq Asg
  BY AssignmentAssumption
<1>2. Permitted(b, done)
  BY <1>1 DEF FindUnblocked, PlanInvariant, Permitted
<1>3. "-" \in Mark /\ NoTodo \in [Row -> Mark]
  BY DEF Mark, NoTodo
<1>4. At("unblock", b, "-") \in Task /\ TaskPermitted(At("unblock", b, "-"), done)
  BY <1>2, <1>3 DEF At, Task, TaskPermitted, AssignmentPc
<1>5. QED
  BY <1>4, StayKeeps DEF FindUnblocked

----------------------------------------------------------------------------
(* The end of the mission *)

\* The user's cancel writes the mission only.
LEMMA UserCancelsKeeps ==
  ASSUME PlanInvariant, UserCancels, UNCHANGED field
  PROVE  PlanInvariant'
<1>1. "canceling" \in MissionStatus
  BY DEF MissionStatus
<1>2. SetMission("canceling", {}) /\ UNCHANGED <<service_requests, assignments, handler, released>>
  BY DEF UserCancels
<1>3. /\ mission' \in MissionStatus
      /\ events_queue' \in [Event -> Nat] /\ EventsPermitted(events_queue', done)
  BY <1>1, <1>2, MissionWritten
<1>4. TypeOK'
  BY <1>2, <1>3 DEF PlanInvariant, TypeOK, field
<1>5. QED
  BY <1>2, <1>3, <1>4 DEF PlanInvariant, SentAfterDependencies, field

\* The handlers that end the mission cancel rows; they order nobody.
LEMMA MissionEndsKeeps ==
  ASSUME PlanInvariant, NEW h \in Handler, MissionEnds(h)
  PROVE  PlanInvariant'
<1>1. TypeOK /\ handler[h] \in Task /\ TaskPermitted(handler[h], done) /\ UNCHANGED field
  BY InvariantOf DEF MissionEnds
<1>2. /\ handler[h].val \in Mark
      /\ {"canceling", "canceled", "succeeded", "assignment_failed", "planning_failed"} \subseteq Mark
  BY <1>1 DEF Task, Mark, MissionStatus
<1>3. {"canceled", "succeeded", "failed"} \subseteq MissionStatus
      /\ {"canceled", "canceling"} \subseteq AssignmentStatus
  BY DEF MissionStatus, AssignmentStatus
<1>4. ASSUME NEW pc \in {"cancelRequests", "cancelWaitingAssignments",
                         "cancelRunningAssignments", "onWorkProcessEnd"},
             NEW val \in Mark
      PROVE  At(pc, NoRow, val) \in Task /\ TaskPermitted(At(pc, NoRow, val), done)
  <2>1. pc \in WorkProcessPc /\ pc \notin AssignmentPc
    BY DEF WorkProcessPc, AssignmentPc
  <2>2. QED
    BY <2>1, PlainTask
<1>5. CASE HandleCanceling(h)
  <2>1. PICK e : Queued(e) /\ SetMissionWhere({"canceling"}, "canceled", {e})
    BY <1>5 DEF HandleCanceling, Starts
  <2>2. QED
    BY <1>1, <1>2, <1>3, <1>4, <1>5, <2>1, MissionKeeps DEF HandleCanceling
<1>6. CASE HandleFailure(h)
  <2>1. PICK s \in {"assignment_failed", "planning_failed"} :
          /\ Queued(MissionEvent(s)) /\ SetMissionWhere({s}, "failed", {MissionEvent(s)})
          /\ Becomes(h, At("cancelRequests", NoRow, s))
          /\ UNCHANGED <<service_requests, assignments, released>>
    BY <1>6 DEF HandleFailure, Starts
  <2>2. QED
    BY <1>1, <1>2, <1>3, <1>4, <2>1, MissionKeeps
<1>7. CASE HandleCompleted(h)
  <2> DEFINE e == MissionEvent("assignments_completed")
  <2>1. PICK s \in {"canceled", "succeeded"} :
          /\ Queued(e) /\ TakeAndLeave({e}, {})
          /\ Becomes(h, At("endMission", NoRow, s))
          /\ UNCHANGED <<mission, service_requests, assignments, released>>
    BY <1>7 DEF HandleCompleted, Starts
  <2> HIDE DEF e
  <2>2. events_queue' \in [Event -> Nat] /\ EventsPermitted(events_queue', done)
    BY <2>1, QueueKeeps
  <2>3. At("endMission", NoRow, s) \in Task /\ TaskPermitted(At("endMission", NoRow, s), done)
    BY <1>2 DEF At, Task, TaskPermitted, WorkProcessPc, AssignmentPc, NoTodo, Mark
  <2>4. QED
    BY <1>1, <2>1, <2>2, <2>3, MoveKeeps
<1>8. CASE EndMission(h)
  <2>1. handler[h].val \in {"canceled", "succeeded"}
    BY <1>1, <1>8 DEF EndMission, IsAt, TaskPermitted
  <2>2. QED
    BY <1>1, <1>2, <1>3, <1>4, <1>8, <2>1, MissionKeeps DEF EndMission
<1>9. CASE CancelRequests(h)
  <2>1. PICK left : TakeAndLeave({}, left) /\ \A e \in left : e.channel # "assignments_status_update"
    <3>1. \A r, s, d : RequestEvent(r, s, d).channel # "assignments_status_update"
      BY DEF RequestEvent
    <3>2. QED
      BY <1>9, <3>1 DEF CancelRequests, WriteRequests
  <2>2. events_queue' \in [Event -> Nat] /\ EventsPermitted(events_queue', done)
    BY <2>1, QueueKeeps
  <2>3. \A r \in Req : WithStatus("canceled")[r] \in RequestRow
    BY <1>1 DEF WithStatus, RequestRow, ServiceStatus, TypeOK
  <2>4. service_requests' \in [Req -> RequestRow]
    BY <1>1, <1>9, <2>3 DEF CancelRequests, WriteRequests, TypeOK
  <2>5. QED
    BY <1>1, <1>2, <1>4, <1>9, <2>2, <2>4, StepKeeps DEF CancelRequests, field, PlanInvariant, TypeOK
<1>10. CASE CancelWaitingAssignments(h)
  <2>1. AssignmentsIn(BeforeDispatch) \in SUBSET Asg
    BY DEF AssignmentsIn
  <2>2. QED
    BY <1>1, <1>2, <1>3, <1>4, <1>10, <2>1, WriteKeeps DEF CancelWaitingAssignments
<1>11. CASE CancelRunningAssignments(h)
  <2>1. AssignmentsIn(AfterDispatch) \in SUBSET Asg
    BY DEF AssignmentsIn
  <2>2. QED
    BY <1>1, <1>2, <1>3, <1>4, <1>11, <2>1, WriteKeeps DEF CancelRunningAssignments
<1>12. CASE OnWorkProcessEnd(h)
  <2>1. released' \in Nat
    BY <1>1, <1>12 DEF OnWorkProcessEnd, TypeOK
  <2>2. QED
    BY <1>1, <1>12, <2>1, IdleTask, StepKeeps DEF OnWorkProcessEnd, field, PlanInvariant, TypeOK
<1>13. QED
  BY <1>5, <1>6, <1>7, <1>8, <1>9, <1>10, <1>11, <1>12 DEF MissionEnds, WorkProcessHandler

----------------------------------------------------------------------------
(* The theorems *)

\* The rows of a plan are permitted: only the first group is dispatched.
LEMMA PlanInit == Init => PlanInvariant
<1> SUFFICES ASSUME Init PROVE PlanInvariant
  OBVIOUS
<1>1. \A a \in Asg : events_queue[AssignmentEvent(a, "to_dispatch")] > 0 => Permitted(a, done)
  <2> SUFFICES ASSUME NEW a \in Asg, events_queue[AssignmentEvent(a, "to_dispatch")] > 0
               PROVE  Permitted(a, done)
    OBVIOUS
  <2>1. AssignmentEvent(a, "to_dispatch") \in Event
    BY DEF Event, HandledAssignment
  <2>2. AssignmentEvent(a, "to_dispatch") \in {AssignmentEvent(b, "to_dispatch") : b \in FirstGroup}
    BY <2>1 DEF Init
  <2>3. a \in FirstGroup
    BY <2>2 DEF AssignmentEvent
  <2>4. QED
    BY <2>3 DEF FirstGroup, Permitted
<1>2. \A a \in Asg : ~(events_queue[AssignmentEvent(a, "succeeded")] > 0)
  <2> SUFFICES ASSUME NEW a \in Asg PROVE ~(events_queue[AssignmentEvent(a, "succeeded")] > 0)
    OBVIOUS
  <2>1. AssignmentEvent(a, "succeeded") \in Event
    BY DEF Event, HandledAssignment
  <2>2. AssignmentEvent(a, "succeeded") \notin {AssignmentEvent(b, "to_dispatch") : b \in FirstGroup}
    BY DEF AssignmentEvent
  <2>3. QED
    BY <2>1, <2>2 DEF Init
<1>3. \A h \in Handler : handler[h] = Idle
  BY DEF Init
<1>4. handler \in [Handler -> Task] /\ \A h \in Handler : TaskPermitted(handler[h], done)
  BY <1>3, IdleTask DEF Init
<1>5. service_requests \in [Req -> RequestRow]
  BY DEF Init, RequestRow, ServiceStatus
<1>6. /\ mission \in MissionStatus /\ events_queue \in [Event -> Nat] /\ released \in Nat
      /\ assignments \in [Asg -> AssignmentStatus \cup {"absent"}]
      /\ \A a \in Asg : assignments[a] # "completed"
  BY DEF Init, MissionStatus, AssignmentStatus
<1>7. sent = [a \in Asg |-> 0] /\ agent \in [Asg -> AgentState] /\ done \subseteq Asg
  BY DEF Init, AgentState
<1>8. TypeOK
  BY <1>4, <1>5, <1>6, <1>7 DEF TypeOK, Task
<1>9. SentAfterDependencies
  BY <1>7 DEF SentAfterDependencies
<1>10. QED
  BY <1>1, <1>2, <1>4, <1>6, <1>8, <1>9 DEF PlanInvariant, EventsPermitted

\* Every step of every computation, agent, watcher and user keeps it.
LEMMA PlanStep == PlanInvariant /\ [Next]_asgVars => PlanInvariant'
<1> SUFFICES ASSUME PlanInvariant, [Next]_asgVars PROVE PlanInvariant'
  OBVIOUS
<1>1. CASE UserCancels /\ UNCHANGED field
  BY <1>1, UserCancelsKeeps
<1>2. ASSUME NEW h \in Handler, Continue(h) \/ Handle(h) \/ Watch(h) \/ MissionEnds(h)
      PROVE  PlanInvariant'
  BY <1>2, OrderingKeeps, WrappingUpKeeps, HandleKeeps, WatchKeeps, MissionEndsKeeps
  DEF Continue, Watch
<1>3. ASSUME NEW h \in Handler, NEW a \in Asg, AgentReports(h, a)
      PROVE  PlanInvariant'
  BY <1>3, AgentReportsKeeps
<1>4. CASE UNCHANGED asgVars
  BY <1>4 DEF asgVars, wpVars, dbVars, PlanInvariant, TypeOK, SentAfterDependencies
<1>5. QED
  BY <1>1, <1>2, <1>3, <1>4 DEF Next

\* The rows, events, computations and agents of a plan have their types in
\* every reachable state.
THEOREM PlanTypeCorrect == Spec => []TypeOK
<1>1. PlanInvariant => TypeOK
  BY DEF PlanInvariant
<1>2. QED
  BY <1>1, PlanInit, PlanStep, PTL DEF Spec

\* No agent is ordered before the agents of all the assignments its own
\* depends on have carried out theirs: for every plan, with agents quicker
\* than the core, orders that fail, failures that are to be continued and
\* any number of overlapping handlers and watchers.
THEOREM OrderedAfterDependencies == Spec => []SentAfterDependencies
<1>1. PlanInvariant => SentAfterDependencies
  BY DEF PlanInvariant
<1>2. QED
  BY <1>1, PlanInit, PlanStep, PTL DEF Spec
----------------------------------------------------------------------------
(* The mission is completed once.  Many computations may find it completed  *)
(* and several may cancel assignments at its end, but as long as the user   *)
(* does not cancel a completed mission, which EndMission would overwrite,   *)
(* one event says that it is completed, and one computation ends it.        *)

Outcome == {"succeeded", "failed", "canceled"}
Completed == "assignments_completed"
Completion == MissionEvent(Completed)

\* A mission that is neither completed nor ended.
Open(m) == m # Completed /\ m \notin Outcome

Ends(t) == t.pc = "endMission"
NobodyEnds == \A h \in Handler : ~Ends(handler[h])

\* The completion is at one place: in its event, or with a computation.
CompletedOnce ==
  /\ events_queue[Completion] \in {0, 1}
  /\ events_queue[Completion] = 1 => mission = Completed /\ NobodyEnds
  /\ \A h \in Handler : Ends(handler[h]) =>
       /\ mission = Completed
       /\ \A g \in Handler : Ends(handler[g]) => g = h

\* What every step does.
CompletionKept == CompletedOnce' /\ (mission \in Outcome => mission' = mission)

\* A step of computations that do not end the mission.
OthersMove ==
  \A g \in Handler : handler'[g] = handler[g] \/ (~Ends(handler[g]) /\ ~Ends(handler'[g]))

SameCompletion == events_queue'[Completion] = events_queue[Completion]

\* Events that are not about the mission.
Apart(E) == \A e \in E : e.channel # "work_processes_update"

\* The statuses over which a mission's status is written are open.
LEMMA OpenStatuses ==
  /\ \A s \in RunningMission \cup UncompleteMission : Open(s)
  /\ Open("canceling") /\ Open("assignment_failed") /\ Open("planning_failed")
BY Zenon DEF RunningMission, UncompleteMission, Open, Outcome, Completed

\* The completion is one of the events, and none of another status.
LEMMA CompletionEvent ==
  /\ Completion \in Event
  /\ Completion.channel = "work_processes_update"
  /\ \A s : MissionEvent(s) = Completion <=> s = Completed
<1>1. Completion \in Event
  BY DEF Completion, Completed, Event, HandledMission
<1>2. \A s : MissionEvent(s).status = s /\ MissionEvent(s).channel = "work_processes_update"
  BY DEF MissionEvent
<1> QED
  BY <1>1, <1>2 DEF Completion

\* What neither takes nor leaves the completion.
LEMMA QueueSame ==
  ASSUME TypeOK, NEW taken, NEW left, Completion \notin taken, Completion \notin left,
         TakeAndLeave(taken, left)
  PROVE  SameCompletion
<1>1. events_queue[Completion] \in Nat
  BY CompletionEvent DEF TypeOK
<1> QED
  BY <1>1, CompletionEvent DEF TakeAndLeave, SameCompletion

\* Events about other tables are not the completion.
LEMMA ApartSame ==
  ASSUME TypeOK, NEW taken, NEW left, Apart(taken), Apart(left), TakeAndLeave(taken, left)
  PROVE  SameCompletion
<1>1. Completion \notin taken /\ Completion \notin left
  BY CompletionEvent DEF Apart
<1> QED
  BY <1>1, QueueSame

\* The events of a statement about assignments are not about the mission.
LEMMA AssignmentsSame ==
  ASSUME TypeOK, NEW rows, NEW s, NEW taken, Apart(taken), SetAssignments(rows, s, taken)
  PROVE  SameCompletion
<1>1. Apart({AssignmentEvent(a, s) : a \in {b \in rows : assignments[b] # s}})
  BY DEF Apart, AssignmentEvent
<1> QED
  BY <1>1, ApartSame DEF SetAssignments

\* Nor are those of a statement about requests.
LEMMA RequestsSame ==
  ASSUME TypeOK, NEW rows, NEW new, NEW taken, Apart(taken), WriteRequests(rows, new, taken)
  PROVE  SameCompletion
<1>1. Apart({RequestEvent(r, new[r].status, new[r].assignment_dispatched) : r \in rows})
  BY DEF Apart, RequestEvent
<1> QED
  BY <1>1, ApartSame DEF WriteRequests

\* Nothing taken is nothing about the mission.
LEMMA NothingApart == Apart({})
BY DEF Apart

\* A step that touches neither the mission nor its completion.
LEMMA QuietKept ==
  ASSUME CompletedOnce, UNCHANGED mission, SameCompletion, OthersMove
  PROVE  CompletionKept
<1>1. \A g \in Handler : Ends(handler'[g]) <=> Ends(handler[g])
  BY DEF OthersMove
<1>2. NobodyEnds => NobodyEnds'
  BY <1>1 DEF NobodyEnds
<1> QED
  BY <1>1, <1>2 DEF CompletionKept, CompletedOnce, SameCompletion

\* A statement that writes a status over an open one.
LEMMA OpenKept ==
  ASSUME TypeOK, CompletedOnce, OthersMove, Open(mission),
         NEW s, NEW taken, Completion \notin taken, SetMission(s, taken)
  PROVE  CompletionKept
<1>1. events_queue[Completion] = 0 /\ NobodyEnds
  BY DEF CompletedOnce, Open, NobodyEnds
<1>2. NobodyEnds'
  BY <1>1 DEF OthersMove, NobodyEnds
<1>3. Completion \in (IF s = mission THEN {} ELSE {MissionEvent(s)}) <=> s = Completed
  BY CompletionEvent DEF Open
<1>4. events_queue'[Completion] = IF s = Completed THEN 1 ELSE 0
  BY <1>1, <1>3, CompletionEvent DEF SetMission, TakeAndLeave
<1>5. mission' = s
  BY DEF SetMission
<1>6. CompletedOnce'
  BY <1>2, <1>4, <1>5 DEF CompletedOnce, NobodyEnds
<1> QED
  BY <1>6 DEF CompletionKept, Open

\* Statements on the mission name the statuses they write over.
LEMMA OpenWhereKept ==
  ASSUME TypeOK, CompletedOnce, OthersMove, NEW allowed, \A m \in allowed : Open(m),
         NEW s, NEW taken, Completion \notin taken, SetMissionWhere(allowed, s, taken)
  PROVE  CompletionKept
<1>1. CASE mission \in allowed
  <2>1. Open(mission) /\ SetMission(s, taken)
    BY <1>1 DEF SetMissionWhere
  <2> QED
    BY <2>1, OpenKept
<1>2. CASE mission \notin allowed
  <2>1. TakeAndLeave(taken, {}) /\ UNCHANGED mission
    BY <1>2 DEF SetMissionWhere
  <2>2. SameCompletion
    BY <2>1, QueueSame
  <2> QED
    BY <2>1, <2>2, QuietKept
<1> QED
  BY <1>1, <1>2

\* A computation goes on that does not end the mission.
LEMMA MoveOthers ==
  ASSUME TypeOK, NEW h \in Handler, ~Ends(handler[h]), NEW t, ~Ends(t), Becomes(h, t)
  PROVE  OthersMove
<1>1. \A g \in Handler : handler'[g] = IF g = h THEN t ELSE handler[g]
  BY DEF TypeOK, Becomes
<1> QED
  BY <1>1 DEF OthersMove

\* A step that writes neither the mission nor its completion.
LEMMA MoveKept ==
  ASSUME TypeOK, CompletedOnce, NEW h \in Handler, ~Ends(handler[h]), NEW t, ~Ends(t), Becomes(h, t),
         SameCompletion, UNCHANGED mission
  PROVE  CompletionKept
BY MoveOthers, QuietKept

\* A statement about the assignments, by computations that do not end the mission.
LEMMA AssignmentsKept ==
  ASSUME TypeOK, CompletedOnce, NEW h \in Handler, ~Ends(handler[h]), NEW t, ~Ends(t), Becomes(h, t),
         NEW rows, NEW s, NEW taken, Apart(taken), SetAssignments(rows, s, taken), UNCHANGED mission
  PROVE  CompletionKept
BY AssignmentsSame, MoveKept

\* Where a computation goes that does not end the mission.
LEMMA ElsewhereTasks ==
  /\ ~Ends(Idle)
  /\ \A pc, row, val : pc # "endMission" => ~Ends(At(pc, row, val))
  /\ \A pc, row, val, v : pc # "endMission" => ~Ends([At(pc, row, val) EXCEPT !.todo = v])
BY DEF Ends, At, Idle

\* Whatever becomes of its list, a computation keeps its place.
LEMMA TodoKeepsPlace ==
  ASSUME NEW t \in Task, NEW x, NEW v
  PROVE  [t EXCEPT !.todo[x] = v].pc = t.pc
BY DEF Task

----------------------------------------------------------------------------
(* No step completes the mission again *)

\* Giving the orders keeps CompletedOnce.
LEMMA OrderingCompletes ==
  ASSUME TypeOK, CompletedOnce, NEW h \in Handler, Ordering(h)
  PROVE  CompletionKept
<1>1. ASSUME SendOrder(h) \/ OrderFails(h)
      PROVE  CompletionKept
  <2>1. ~Ends(handler[h]) /\ UNCHANGED <<mission, events_queue>>
    BY <1>1 DEF SendOrder, OrderFails, IsAt, Ends
  <2>2. \/ Becomes(h, At("markExecuting", handler[h].row, "-"))
        \/ Becomes(h, At("orderFailed", handler[h].row, "-"))
    BY <1>1 DEF SendOrder, OrderFails
  <2>3. SameCompletion
    BY <2>1 DEF SameCompletion
  <2> QED
    BY <2>1, <2>2, <2>3, ElsewhereTasks, MoveKept
<1>2. ASSUME SaveOrderFailure(h) \/ MarkExecuting(h) \/ SaveReport(h) \/ SaveReportWhere(h) \/ MarkCanceled(h)
      PROVE  CompletionKept
  <2>1. ~Ends(handler[h]) /\ UNCHANGED mission
    BY <1>2 DEF SaveOrderFailure, MarkExecuting, SaveReport, SaveReportWhere, MarkCanceled, IsAt, Ends
  <2>2. Becomes(h, Idle) \/ Becomes(h, At("markExecuting", handler[h].row, "-"))
    BY <1>2 DEF SaveOrderFailure, MarkExecuting, SaveReport, SaveReportWhere, MarkCanceled
  <2>3. PICK rows, s : SetAssignments(rows, s, {})
    BY <1>2, Zenon DEF SaveOrderFailure, MarkExecuting, SaveReport, SaveReportWhere, MarkCanceled
  <2> QED
    BY <2>1, <2>2, <2>3, ElsewhereTasks, NothingApart, AssignmentsKept
<1> QED
  BY <1>1, <1>2 DEF Ordering

\* The handlers of ended assignments find the mission completed, once.
LEMMA WrappingUpCompletes ==
  ASSUME TypeOK, CompletedOnce, NEW h \in Handler, WrappingUp(h)
  PROVE  CompletionKept
<1>1. handler[h] \in Task
  BY DEF TypeOK, Task
<1>2. ASSUME CheckServices(h) \/ CheckAssignments(h) \/ ListNextAssignments(h)
      PROVE  CompletionKept
  <2>1. ~Ends(handler[h]) /\ UNCHANGED <<mission, events_queue>>
    BY <1>2 DEF CheckServices, CheckAssignments, ListNextAssignments, IsAt, Ends
  <2>2. SameCompletion
    BY <2>1 DEF SameCompletion
  <2>3. \/ \E pc \in {"checkAssignments", "listNextAssignments", "completeMission"} :
             Becomes(h, At(pc, handler[h].row, "-"))
        \/ Becomes(h, Idle)
        \/ \E v : Becomes(h, [At("activate", handler[h].row, "-") EXCEPT !.todo = v])
    BY <1>2 DEF CheckServices, CheckAssignments, ListNextAssignments
  <2> QED
    BY <2>1, <2>2, <2>3, ElsewhereTasks, MoveKept
<1>3. CASE CompleteMission(h)
  <2>1. /\ ~Ends(handler[h])
        /\ Becomes(h, At("listNextAssignments", handler[h].row, "-"))
        /\ SetMissionWhere(UncompleteMission, "assignments_completed", {})
    BY <1>3 DEF CompleteMission, IsAt, Ends
  <2>2. OthersMove
    BY <2>1, ElsewhereTasks, MoveOthers
  <2> QED
    BY <2>1, <2>2, OpenStatuses, OpenWhereKept
<1>4. CASE FailMission(h)
  <2>1. /\ ~Ends(handler[h]) /\ Becomes(h, Idle)
        /\ SetMissionWhere(RunningMission, "assignment_failed", {})
    BY <1>4 DEF FailMission, IsAt, Ends
  <2>2. OthersMove
    BY <2>1, ElsewhereTasks, MoveOthers
  <2> QED
    BY <2>1, <2>2, OpenStatuses, OpenWhereKept
<1>5. CASE Unblock(h)
  <2>1. ~Ends(handler[h]) /\ UNCHANGED mission /\ Becomes(h, Idle)
    BY <1>5 DEF Unblock, IsAt, Ends
  <2>2. PICK rows : SetAssignments(rows, "to_dispatch", {})
    BY <1>5 DEF Unblock
  <2> QED
    BY <2>1, <2>2, ElsewhereTasks, NothingApart, AssignmentsKept
<1>6. ASSUME NEW b \in Asg, ActivateAssignment(h, b)
      PROVE  CompletionKept
  <2>1. ~Ends(handler[h]) /\ UNCHANGED mission /\ SetAssignments({b}, handler[h].todo[b], {})
    BY <1>6 DEF ActivateAssignment, IsAt, Ends
  <2>2. Becomes(h, Idle) \/ Becomes(h, [handler[h] EXCEPT !.todo[b] = "-"])
    BY <1>6 DEF ActivateAssignment, DoneWith
  <2>3. ~Ends([handler[h] EXCEPT !.todo[b] = "-"])
    BY <1>1, <2>1, TodoKeepsPlace DEF Ends
  <2> QED
    BY <2>1, <2>2, <2>3, ElsewhereTasks, NothingApart, AssignmentsKept
<1> QED
  BY <1>2, <1>3, <1>4, <1>5, <1>6 DEF WrappingUp

\* Events of assignments, ticks of the watcher and reports of agents.
LEMMA HandleCompletes ==
  ASSUME TypeOK, CompletedOnce, NEW h \in Handler, NEW a \in Asg,
         \/ HandleToDispatch(h, a) \/ HandleSucceeded(h, a) \/ HandleCanceled(h, a)
         \/ HandleAssignmentCanceling(h, a) \/ HandleAssignmentFailure(h, a)
         \/ FindUnblocked(h, a) \/ AgentReports(h, a)
  PROVE  CompletionKept
<1>1. \A s : Apart({AssignmentEvent(a, s)})
  BY DEF Apart, AssignmentEvent
<1>2. ~Ends(handler[h]) /\ UNCHANGED mission
  BY DEF HandleToDispatch, HandleSucceeded, HandleCanceled, HandleAssignmentCanceling,
         HandleAssignmentFailure, FindUnblocked, AgentReports, Starts, IsAt, Ends
<1>3. PICK pc, val :
        /\ pc \in {"order", "checkServices", "markCanceled", "failMission", "unblock",
                  "saveReport", "saveReportWhere"}
        /\ Becomes(h, Idle) \/ Becomes(h, At(pc, a, val))
  BY DEF HandleToDispatch, HandleSucceeded, HandleCanceled, HandleAssignmentCanceling,
         HandleAssignmentFailure, FindUnblocked, AgentReports
<1>4. SameCompletion
  <2>1. CASE HandleSucceeded(h, a)
    BY <1>1, <2>1, AssignmentsSame DEF HandleSucceeded
  <2>2. CASE FindUnblocked(h, a) \/ AgentReports(h, a)
    BY <2>2 DEF FindUnblocked, AgentReports, SameCompletion
  <2>3. ASSUME HandleToDispatch(h, a) \/ HandleCanceled(h, a) \/ HandleAssignmentCanceling(h, a)
                 \/ HandleAssignmentFailure(h, a)
        PROVE  SameCompletion
    <3>1. PICK s : TakeAndLeave({AssignmentEvent(a, s)}, {})
      BY <2>3 DEF HandleToDispatch, HandleCanceled, HandleAssignmentCanceling, HandleAssignmentFailure
    <3> QED
      BY <1>1, <3>1, NothingApart, ApartSame
  <2> QED
    BY <2>1, <2>2, <2>3
<1> QED
  BY <1>2, <1>3, <1>4, ElsewhereTasks, MoveKept

\* The end of the mission: the one that takes the completion writes the
\* outcome; the others write over open statuses or write no mission.
LEMMA MissionEndsCompletes ==
  ASSUME TypeOK, CompletedOnce, NEW h \in Handler, TaskPermitted(handler[h], done), WorkProcessHandler(h)
  PROVE  CompletionKept
<1>1. ASSUME NEW s \in {"canceling", "assignment_failed", "planning_failed"}, NEW o, NEW val,
             Starts(h, MissionEvent(s)), SetMissionWhere({s}, o, {MissionEvent(s)}),
             Becomes(h, At("cancelRequests", NoRow, val))
      PROVE  CompletionKept
  <2>1. ~Ends(handler[h])
    BY <1>1 DEF Starts, IsAt, Ends
  <2>2. OthersMove
    BY <1>1, <2>1, ElsewhereTasks, MoveOthers
  <2>3. s # Completed /\ Completion \notin {MissionEvent(s)}
    BY CompletionEvent DEF Completed
  <2>4. Open(s)
    BY OpenStatuses
  <2> QED
    BY <1>1, <2>2, <2>3, <2>4, OpenWhereKept
<1>2. CASE HandleCanceling(h)
  BY <1>1, <1>2 DEF HandleCanceling
<1>3. CASE HandleFailure(h)
  <2>1. PICK s \in {"assignment_failed", "planning_failed"} :
          /\ Starts(h, MissionEvent(s))
          /\ SetMissionWhere({s}, "failed", {MissionEvent(s)})
          /\ Becomes(h, At("cancelRequests", NoRow, s))
    BY <1>3 DEF HandleFailure
  <2> QED
    BY <1>1, <2>1
<1>4. CASE HandleCompleted(h)
  <2>1. /\ Queued(Completion) /\ TakeAndLeave({Completion}, {}) /\ UNCHANGED mission
    BY <1>4 DEF HandleCompleted, Starts, Completion, Completed
  <2>2. PICK val : Becomes(h, At("endMission", NoRow, val))
    BY <1>4 DEF HandleCompleted
  <2>3. events_queue[Completion] = 1 /\ mission = Completed /\ NobodyEnds
    BY <2>1 DEF CompletedOnce, Queued
  <2>4. events_queue'[Completion] = 0
    BY <2>1, <2>3, CompletionEvent DEF TakeAndLeave
  <2>5. \A g \in Handler : Ends(handler'[g]) => g = h
    BY <2>2, <2>3 DEF TypeOK, Becomes, NobodyEnds
  <2> QED
    BY <2>1, <2>3, <2>4, <2>5 DEF CompletionKept, CompletedOnce
<1>5. CASE EndMission(h)
  <2>1. /\ Ends(handler[h]) /\ SetMission(handler[h].val, {})
        /\ Becomes(h, At("onWorkProcessEnd", NoRow, handler[h].val))
    BY <1>5 DEF EndMission, IsAt, Ends
  <2>2. handler[h].val \in Outcome
    BY <2>1 DEF TaskPermitted, Ends, Outcome
  <2>3. /\ mission = Completed /\ events_queue[Completion] = 0
        /\ \A g \in Handler : Ends(handler[g]) => g = h
    BY <2>1 DEF CompletedOnce, NobodyEnds
  <2>4. mission \notin Outcome /\ handler[h].val # Completed
    BY <2>2, <2>3 DEF Outcome, Completed
  <2>5. Completion \notin (IF handler[h].val = mission THEN {} ELSE {MissionEvent(handler[h].val)})
    BY <2>4, CompletionEvent
  <2>6. events_queue'[Completion] = 0
    BY <2>1, <2>3, <2>5, CompletionEvent DEF SetMission, TakeAndLeave
  <2>7. \A g \in Handler : ~Ends(handler'[g])
    BY <2>1, <2>3, ElsewhereTasks DEF TypeOK, Becomes
  <2> QED
    BY <2>4, <2>6, <2>7 DEF CompletionKept, CompletedOnce
<1>6. ASSUME CancelRequests(h) \/ CancelWaitingAssignments(h) \/ CancelRunningAssignments(h) \/ OnWorkProcessEnd(h)
      PROVE  CompletionKept
  <2>1. ~Ends(handler[h]) /\ UNCHANGED mission
    BY <1>6 DEF CancelRequests, CancelWaitingAssignments, CancelRunningAssignments, OnWorkProcessEnd, IsAt, Ends
  <2>2. \/ Becomes(h, Idle)
        \/ \E pc \in {"cancelWaitingAssignments", "cancelRunningAssignments", "onWorkProcessEnd"} :
             Becomes(h, At(pc, NoRow, handler[h].val))
    BY <1>6 DEF CancelRequests, CancelWaitingAssignments, CancelRunningAssignments, OnWorkProcessEnd
  <2>3. SameCompletion
    <3>1. CASE CancelRequests(h)
      BY <3>1, NothingApart, RequestsSame DEF CancelRequests
    <3>2. CASE CancelWaitingAssignments(h)
      BY <3>2, NothingApart, AssignmentsSame DEF CancelWaitingAssignments
    <3>3. CASE CancelRunningAssignments(h)
      BY <3>3, NothingApart, AssignmentsSame DEF CancelRunningAssignments
    <3>4. CASE OnWorkProcessEnd(h)
      BY <3>4 DEF OnWorkProcessEnd, SameCompletion
    <3> QED
      BY <1>6, <3>1, <3>2, <3>3, <3>4
  <2> QED
    BY <2>1, <2>2, <2>3, ElsewhereTasks, MoveKept
<1> QED
  BY <1>2, <1>3, <1>4, <1>5, <1>6 DEF WorkProcessHandler

\* The user's cancel comes before the mission is completed.
CanceledEarly == "assignments_completed" \notin Cancelable

\* The user cancels the mission while it is open (CanceledEarly).
LEMMA UserCancelsCompletes ==
  ASSUME CanceledEarly, TypeOK, CompletedOnce, UserCancels
  PROVE  CompletionKept
<1>1. mission \in RunningMission
  BY CancelableAssumption, Zenon DEF CanceledEarly, UserCancels, RunningMission
<1>2. SetMission("canceling", {}) /\ UNCHANGED handler
  BY DEF UserCancels
<1>3. OthersMove
  BY <1>2 DEF OthersMove
<1> QED
  BY <1>1, <1>2, <1>3, OpenStatuses, OpenKept

\* At first nothing is completed.
LEMMA CompletedOnceInit == Init => CompletedOnce
<1> SUFFICES ASSUME Init PROVE CompletedOnce
  OBVIOUS
<1>1. \A h \in Handler : ~Ends(handler[h])
  BY ElsewhereTasks DEF Init
<1>2. events_queue[Completion] = 0
  <2>1. \A a, s : AssignmentEvent(a, s) # Completion
    BY CompletionEvent DEF AssignmentEvent
  <2> QED
    BY <2>1, CompletionEvent DEF Init
<1> QED
  BY <1>1, <1>2 DEF CompletedOnce

\* Every step keeps CompletedOnce and the outcome.
LEMMA CompletedOnceStep ==
  ASSUME CanceledEarly, PlanInvariant, CompletedOnce, [Next]_asgVars
  PROVE  CompletionKept
<1>1. TypeOK /\ \A h \in Handler : TaskPermitted(handler[h], done)
  BY DEF PlanInvariant
<1>2. CASE UserCancels
  BY <1>1, <1>2, UserCancelsCompletes
<1>3. ASSUME NEW h \in Handler,
             Continue(h) \/ Handle(h) \/ Watch(h) \/ \E a \in Asg : AgentReports(h, a)
      PROVE  CompletionKept
  BY <1>1, <1>3, OrderingCompletes, WrappingUpCompletes, HandleCompletes DEF Continue, Handle, Watch
<1>4. ASSUME NEW h \in Handler, MissionEnds(h)
      PROVE  CompletionKept
  BY <1>1, <1>4, MissionEndsCompletes DEF MissionEnds
<1>5. CASE UNCHANGED asgVars
  <2>1. SameCompletion /\ OthersMove /\ UNCHANGED mission
    BY <1>5 DEF asgVars, wpVars, dbVars, SameCompletion, OthersMove
  <2> QED
    BY <2>1, QuietKept
<1> QED
  BY <1>2, <1>3, <1>4, <1>5 DEF Next

\* The outcome of a mission is final, whatever late reports, failures and
\* wrap-ups of its assignments are in flight and however many cleanups
\* overlap, provided that the user cancels no mission that is completed.
THEOREM OutcomeStays ==
  ASSUME CanceledEarly
  PROVE  Spec => OutcomeIsFinal
<1>1. Init => PlanInvariant /\ CompletedOnce
  BY PlanInit, CompletedOnceInit
<1>2. PlanInvariant /\ CompletedOnce /\ [Next]_asgVars => (PlanInvariant /\ CompletedOnce)'
  BY PlanStep, CompletedOnceStep DEF CompletionKept
<1>3. PlanInvariant /\ CompletedOnce /\ [Next]_asgVars
        => [(mission \in {"succeeded", "failed", "canceled"}) => (mission' = mission)]_asgVars
  BY CompletedOnceStep DEF CompletionKept, Outcome
<1> QED
  BY <1>1, <1>2, <1>3, PTL DEF Spec, OutcomeIsFinal

----------------------------------------------------------------------------
(* Each assignment is ordered once.  The start of an assignment is at one  *)
(* place at a time: on the list of a computation that follows up the       *)
(* assignment before it, in the row that waits, in the event to_dispatch   *)
(* or with the computation that orders the agent (Exclusive).  It is put   *)
(* on a list twice only when the assignment before it ends twice, and then *)
(* it is canceled or can never be permitted (Family).                      *)

\* What an assignment_order gives: one assignment before each, if any, and it
\* is among those it depends on.
PlanOfOne ==
  \A a, b \in Asg : a \in NextAsg[b] => /\ a # b /\ b \in DependsAsg[a]
                                        /\ \A c \in Asg : a \in NextAsg[c] => c = b

\* Agents report the end of an assignment only, after the core has noted that
\* it executes.
AgentsReportEnds == ~QuickAgents /\ Reports \cap AfterDispatch = {}

Status(a) == assignments[a]
News(a, s) == events_queue[AssignmentEvent(a, s)]

OrderPc == {"order", "orderFailed"}
SavePc == {"saveReport", "saveReportWhere"}
WrapPc == {"checkServices", "checkAssignments", "completeMission", "listNextAssignments"}
OtherEnds == {"canceled", "failed", "aborted", "rejected"}

\* What computation t does about assignment a.
TaskRole(t, a) ==
  IF t.pc = "activate" THEN IF t.todo[a] # "-" THEN "mark" ELSE "-"
  ELSE IF t.row = a /\ t.pc \in OrderPc \cup SavePc \cup WrapPc \cup {"markExecuting", "markCanceled"}
         THEN t.pc ELSE "-"

Role(h, a) == TaskRole(handler[h], a)
Nobody(roles, a) == \A h \in Handler : Role(h, a) \notin roles
AtMostOne(roles, a) ==
  \A g, h \in Handler : Role(g, a) \in roles /\ Role(h, a) \in roles => g = h

\* Nothing has been done about a, or it was canceled before.
Untouched(a) ==
  /\ Status(a) \in {"not_ready_to_dispatch", "canceled"}
  /\ sent[a] = 0
  /\ News(a, "to_dispatch") = 0 /\ News(a, "canceling") = 0
  /\ Nobody(OrderPc \cup {"mark", "markExecuting", "markCanceled"}, a)

Shelved(a) == Untouched(a) /\ Status(a) = "canceled"

\* The start of a is at one place at most, and at none once it was ordered.
Exclusive(a) ==
  /\ AtMostOne({"mark"}, a) /\ AtMostOne(OrderPc, a)
  /\ News(a, "to_dispatch") \in {0, 1}
  /\ Nobody({"mark"}, a) \/ Status(a) # "wait_dependencies"
  /\ \/ Nobody({"mark"}, a) /\ Status(a) # "wait_dependencies"
     \/ News(a, "to_dispatch") = 0
  /\ \/ Nobody({"mark"}, a) /\ Status(a) # "wait_dependencies" /\ News(a, "to_dispatch") = 0
     \/ Nobody(OrderPc, a)
  /\ \/ /\ Nobody({"mark"} \cup OrderPc, a)
        /\ Status(a) # "wait_dependencies" /\ News(a, "to_dispatch") = 0
     \/ sent[a] = 0

\* The assignment before a is done, if there is one.
Ready(a) == \A p \in Asg : a \in NextAsg[p] => p \in done

\* Until then a waits.
Held(a) ==
  /\ Status(a) \in {"not_ready_to_dispatch", "wait_dependencies", "canceled"}
  /\ sent[a] = 0
  /\ News(a, "to_dispatch") = 0 /\ News(a, "canceling") = 0
  /\ Nobody(OrderPc \cup SavePc \cup {"markExecuting", "markCanceled"}, a)

\* p is not done and never will be: its agent has ended otherwise, or was
\* not reached.
Doomed(p) ==
  /\ p \notin done
  /\ \/ agent[p] = "over"
     \/ /\ agent[p] = "none" /\ Permitted(p, done)
        /\ Status(p) \notin {"not_ready_to_dispatch", "wait_dependencies"}
        /\ News(p, "to_dispatch") = 0 /\ Nobody(OrderPc \cup {"mark"}, p)

\* The tables, the agent and the computations agree on a.
Plain(a) ==
  /\ sent[a] \in {0, 1} /\ (sent[a] = 0 <=> agent[a] = "none")
  /\ a \in done => agent[a] = "over"
  /\ Status(a) \in {"succeeded", "completed"} => a \in done
  /\ agent[a] = "over" => Nobody({"markExecuting"}, a)
  /\ AtMostOne(SavePc, a)
  /\ \A h \in Handler :
       /\ Role(h, a) \in SavePc => /\ agent[a] = "over" /\ handler[h].val \in Reports
                                   /\ handler[h].val = "succeeded" <=> a \in done
       /\ Role(h, a) = "markExecuting" => sent[a] = 1 \/ Doomed(a)
       /\ Role(h, a) = "mark" => /\ handler[h].todo[a] = "wait_dependencies"
                                 /\ Status(a) \in {"not_ready_to_dispatch", "wait_dependencies",
                                                   "canceled"}
       /\ Role(h, a) \in OrderPc => Permitted(a, done)
  /\ Status(a) = "not_ready_to_dispatch" =>
       /\ News(a, "to_dispatch") = 0 /\ sent[a] = 0
       /\ Nobody(OrderPc \cup {"markExecuting"}, a)

\* p has not ended, for all that the core knows.
NotEnded(p) ==
  /\ \A s \in OtherEnds \cup {"succeeded"} : News(p, s) = 0
  /\ Nobody(WrapPc, p)

\* p has succeeded, and is wrapped up once.
Succeeded(p) ==
  /\ p \in done /\ Status(p) \in {"succeeded", "completed"}
  /\ \A s \in OtherEnds \cup {"canceling"} : News(p, s) = 0
  /\ Nobody({"markCanceled"} \cup SavePc, p)
  /\ AtMostOne(WrapPc, p)
  /\ News(p, "succeeded") \in {0, 1}
  /\ News(p, "succeeded") = 0 \/ Nobody(WrapPc, p)

\* The next assignments of p are still to be listed.
ToList(p) == News(p, "succeeded") # 0 \/ ~Nobody(WrapPc, p)

\* p is being canceled.
Stopped(p) == News(p, "canceling") # 0 \/ ~Nobody({"markCanceled"}, p)

Barren(p) == \A b \in NextAsg[p] : Shelved(b)
Wrapping(p) == Succeeded(p) /\ (ToList(p) => \A b \in NextAsg[p] : Untouched(b))
Going(p) == NotEnded(p) /\ \A b \in NextAsg[p] : Untouched(b)
Settled(p) == Barren(p) \/ Doomed(p) \/ Wrapping(p)

Own(a) == /\ Plain(a) /\ (Ready(a) => Exclusive(a)) /\ (~Ready(a) => Held(a))

OneStart ==
  \A a \in Asg :
    /\ Own(a)
    /\ Going(a) \/ Settled(a)
    /\ Stopped(a) => Barren(a) \/ Doomed(a)
    /\ \A h \in Handler : handler[h].pc = "cancelRunningAssignments" => Settled(a)

----------------------------------------------------------------------------
(* What a step does about assignment a *)

\* The other computations keep what they do about a.
OthersKeep(h, a) ==
  \A g \in Handler \ {h} : /\ Role(g, a)' = Role(g, a)
                           /\ handler'[g].val = handler[g].val
                           /\ Role(g, a) = "mark" => handler'[g].todo[a] = handler[g].todo[a]

SameField(a) == sent'[a] = sent[a] /\ agent'[a] = agent[a] /\ (a \in done' <=> a \in done)
SameRow(a) == Status(a)' = Status(a)
SameNews(a, S) == \A s \in HandledAssignment \ S : News(a, s)' = News(a, s)
Turns(h, a, old, new) == Role(h, a) = old /\ Role(h, a)' = new

\* Nothing.
Still(a) ==
  /\ SameField(a) /\ SameRow(a) /\ SameNews(a, {})
  /\ \A g \in Handler : /\ Role(g, a)' = Role(g, a)
                        /\ Role(g, a) \in SavePc => handler'[g].val = handler[g].val
                        /\ Role(g, a) = "mark" => handler'[g].todo[a] = handler[g].todo[a]

\* Its event to_dispatch is taken, ...
Taken(a, h) ==
  /\ SameField(a) /\ SameRow(a) /\ SameNews(a, {"to_dispatch"})
  /\ News(a, "to_dispatch") > 0 /\ News(a, "to_dispatch")' = News(a, "to_dispatch") - 1
  /\ Turns(h, a, "-", "order")

\* ... its agent gets the order, ...
Ordered(a, h) ==
  /\ sent'[a] = sent[a] + 1 /\ agent'[a] = "working" /\ (a \in done' <=> a \in done)
  /\ SameRow(a) /\ SameNews(a, {})
  /\ Turns(h, a, "order", "markExecuting")

\* ... or does not.
Lost(a, h) ==
  /\ SameField(a) /\ SameRow(a) /\ SameNews(a, {})
  /\ Turns(h, a, "order", "orderFailed")

LossSaved(a, h) ==
  /\ SameField(a) /\ Status(a)' = "failed" /\ SameNews(a, OtherEnds)
  /\ Turns(h, a, "orderFailed", "markExecuting")

Noted(a, h) ==
  /\ SameField(a) /\ Status(a)' = "executing" /\ SameNews(a, {})
  /\ Turns(h, a, "markExecuting", "-")

\* Its agent reports the end, ...
Reported(a, h) ==
  /\ agent[a] \in {"working", "stopping"} /\ agent'[a] = "over" /\ sent'[a] = sent[a]
  /\ a \in done => a \in done'
  /\ SameRow(a) /\ SameNews(a, {}) /\ Nobody({"markExecuting"}, a)
  /\ Role(h, a) = "-"
  /\ \/ Role(h, a)' = "-"
     \/ /\ Role(h, a)' \in SavePc /\ handler'[h].val \in Reports
        /\ handler'[h].val = "succeeded" <=> a \in done'

\* ... which is saved, if the mission takes it.
Saved(a, h) ==
  /\ SameField(a)
  /\ Role(h, a) \in SavePc /\ Role(h, a)' = "-"
  /\ \/ SameRow(a) /\ SameNews(a, {})
     \/ \E s \in Reports : /\ s = handler[h].val /\ Status(a)' = s /\ SameNews(a, {s})
                          /\ News(a, s)' \in {News(a, s), News(a, s) + 1}

\* Its success is followed up, ...
SuccessTaken(a, h) ==
  /\ SameField(a) /\ Status(a)' = "completed" /\ SameNews(a, {"succeeded"})
  /\ News(a, "succeeded") > 0 /\ News(a, "succeeded")' = News(a, "succeeded") - 1
  /\ Turns(h, a, "-", "checkServices")

\* ... or another end.
EndTaken(a, h) ==
  /\ SameField(a) /\ SameRow(a)
  /\ \E s \in OtherEnds : /\ SameNews(a, {s}) /\ News(a, s) > 0
                          /\ News(a, s)' = News(a, s) - 1
  /\ Role(h, a) = "-" /\ Role(h, a)' \in {"-", "checkServices"}

\* It is canceled through its agent.
StopTaken(a, h) ==
  /\ sent'[a] = sent[a] /\ (a \in done' <=> a \in done)
  /\ agent'[a] = (IF agent[a] = "working" THEN "stopping" ELSE agent[a])
  /\ SameRow(a) /\ SameNews(a, {"canceling"})
  /\ News(a, "canceling") > 0 /\ News(a, "canceling")' = News(a, "canceling") - 1
  /\ Turns(h, a, "-", "markCanceled")

Canceled(a, h) ==
  /\ SameField(a) /\ Status(a)' = "canceled" /\ SameNews(a, {"canceled"})
  /\ Turns(h, a, "markCanceled", "-")

\* Its wrap-up goes on, to the list of what is next.
WrappedOn(a, h) ==
  /\ SameField(a) /\ SameRow(a) /\ SameNews(a, {})
  /\ Role(h, a) \in WrapPc /\ Role(h, a)' \in WrapPc

Listed(a, h) ==
  /\ SameField(a) /\ SameRow(a) /\ SameNews(a, {})
  /\ Turns(h, a, "listNextAssignments", "-")

\* It is put on that list by the wrap-up of p, ...
Marked(a, p, h) ==
  /\ a \in NextAsg[p] /\ Role(h, p) = "listNextAssignments"
  /\ Status(a) # "canceled"
  /\ SameField(a) /\ SameRow(a) /\ SameNews(a, {})
  /\ Turns(h, a, "-", "mark") /\ handler'[h].todo[a] = "wait_dependencies"

\* ... written, ...
Activated(a, h) ==
  /\ SameField(a) /\ Status(a)' = "wait_dependencies" /\ SameNews(a, {})
  /\ Turns(h, a, "mark", "-")

\* ... and freed by the watcher.
Freed(a, h) ==
  /\ SameField(a) /\ SameNews(a, {"to_dispatch"}) /\ Permitted(a, done)
  /\ Status(a) = "wait_dependencies" /\ Status(a)' = "to_dispatch"
  /\ News(a, "to_dispatch")' = News(a, "to_dispatch") + 1
  /\ Turns(h, a, "-", "-")

Moves(a, h) ==
  \/ Taken(a, h) \/ Ordered(a, h) \/ Lost(a, h) \/ LossSaved(a, h) \/ Noted(a, h)
  \/ Reported(a, h) \/ Saved(a, h) \/ SuccessTaken(a, h) \/ EndTaken(a, h)
  \/ StopTaken(a, h) \/ Canceled(a, h) \/ WrappedOn(a, h) \/ Listed(a, h)
  \/ Activated(a, h) \/ Freed(a, h)

\* The cleanup cancels what no agent has seen ...
Dropped(a) ==
  /\ SameField(a) /\ Status(a) \in BeforeDispatch /\ Status(a)' = "canceled"
  /\ SameNews(a, {"canceled"})
  /\ \A g \in Handler : /\ Role(g, a)' = Role(g, a)
                        /\ Role(g, a) \in SavePc => handler'[g].val = handler[g].val
                        /\ Role(g, a) = "mark" => handler'[g].todo[a] = handler[g].todo[a]

\* ... and then what agents execute.
Halted(a) ==
  /\ SameField(a) /\ Status(a) \in AfterDispatch /\ Status(a)' = "canceling"
  /\ SameNews(a, {"canceling"})
  /\ \A g \in Handler : /\ Role(g, a)' = Role(g, a)
                        /\ Role(g, a) \in SavePc => handler'[g].val = handler[g].val
                        /\ Role(g, a) = "mark" => handler'[g].todo[a] = handler[g].todo[a]

----------------------------------------------------------------------------
(* What is kept about a, whatever is done about it *)

\* What PlanInvariant and the plan say of a.
Sound(a) ==
  /\ \A s \in HandledAssignment : News(a, s) \in Nat
  /\ News(a, "succeeded") > 0 => a \in done
  /\ Permitted(a, done) => Ready(a)
  /\ News(a, "to_dispatch") > 0 \/ sent[a] > 0 => Permitted(a, done)
  /\ done \subseteq done'

Kept(a) ==
  /\ Plain(a)'
  /\ Ready(a) => Exclusive(a)'
  /\ ~Ready(a) => Held(a)'
  /\ Doomed(a) => Doomed(a)'
  /\ Succeeded(a) => Succeeded(a)' /\ (ToList(a)' => ToList(a))

\* Nothing starts a, and its end is known or it goes on.
Quiet(a) ==
  /\ Untouched(a) => Untouched(a)'
  /\ Shelved(a) => Shelved(a)'

EndKept(a) ==
  /\ NotEnded(a) => NotEnded(a)' \/ Doomed(a)' \/ Succeeded(a)' \/ Stopped(a)
  /\ Stopped(a)' => Stopped(a)

\* The event to_dispatch is taken.
LEMMA TakenKept ==
  ASSUME NEW a \in Asg, NEW h \in Handler, Sound(a), Own(a), OthersKeep(h, a),
         Taken(a, h)
  PROVE  Kept(a) /\ Quiet(a) /\ EndKept(a)
<1> USE DEF OthersKeep, Turns, Nobody, AtMostOne, SameField, SameRow, SameNews,
            HandledAssignment, OrderPc, SavePc, WrapPc, OtherEnds
<1>1. Ready(a) /\ Exclusive(a) /\ Permitted(a, done) /\ News(a, "to_dispatch") = 1 /\ News(a, "to_dispatch")' = 0
  BY DEF Sound, Own, Plain, Exclusive, Held, Taken
<1>2. Permitted(a, done) => Permitted(a, done)'
  BY DEF Permitted, Sound
<1>3. Plain(a)'
  BY <1>1, <1>2 DEF Own, Plain, Exclusive, Held, Doomed, Taken
<1>4. Ready(a) => Exclusive(a)'
  BY <1>1 DEF Own, Plain, Exclusive, Taken
<1>5. ~Ready(a) => Held(a)'
  BY <1>1 DEF Own, Held, Taken
<1>6. Doomed(a) => Doomed(a)'
  BY <1>1, <1>2 DEF Doomed, Own, Plain, Exclusive, Taken
<1>7. Succeeded(a) => Succeeded(a)' /\ (ToList(a)' => ToList(a))
  BY <1>1 DEF Succeeded, ToList, Own, Plain, Exclusive, Taken
<1>8. Quiet(a)
  BY <1>1 DEF Quiet, Untouched, Shelved, Own, Plain, Taken
<1>9. EndKept(a)
  BY <1>1, <1>2, <1>3 DEF EndKept, NotEnded, Stopped, Doomed, Succeeded, Own, Plain,
     Exclusive, Taken
<1> QED
  BY <1>3, <1>4, <1>5, <1>6, <1>7, <1>8, <1>9 DEF Kept

\* The agent gets the order.
LEMMA OrderedKept ==
  ASSUME NEW a \in Asg, NEW h \in Handler, Sound(a), Own(a), OthersKeep(h, a),
         Ordered(a, h)
  PROVE  Kept(a) /\ Quiet(a) /\ EndKept(a)
<1> USE DEF OthersKeep, Turns, Nobody, AtMostOne, SameField, SameRow, SameNews,
            HandledAssignment, OrderPc, SavePc, WrapPc, OtherEnds
<1>1. Ready(a) /\ Exclusive(a) /\ Permitted(a, done) /\ sent[a] = 0 /\ sent'[a] = 1
  BY DEF Sound, Own, Plain, Exclusive, Held, Ordered
<1>2. Permitted(a, done) => Permitted(a, done)'
  BY DEF Permitted, Sound
<1>3. Plain(a)'
  BY <1>1, <1>2 DEF Own, Plain, Exclusive, Held, Doomed, Ordered
<1>4. Ready(a) => Exclusive(a)'
  BY <1>1 DEF Own, Plain, Exclusive, Ordered
<1>5. ~Ready(a) => Held(a)'
  BY <1>1 DEF Own, Held, Ordered
<1>6. Doomed(a) => Doomed(a)'
  BY <1>1, <1>2 DEF Doomed, Own, Plain, Exclusive, Ordered
<1>7. Succeeded(a) => Succeeded(a)' /\ (ToList(a)' => ToList(a))
  BY <1>1 DEF Succeeded, ToList, Own, Plain, Exclusive, Ordered
<1>8. Quiet(a)
  BY <1>1 DEF Quiet, Untouched, Shelved, Own, Plain, Ordered
<1>9. EndKept(a)
  BY <1>1, <1>2, <1>3 DEF EndKept, NotEnded, Stopped, Doomed, Succeeded, Own, Plain,
     Exclusive, Ordered
<1> QED
  BY <1>3, <1>4, <1>5, <1>6, <1>7, <1>8, <1>9 DEF Kept

\* The order does not reach the broker, ...
LEMMA LostKept ==
  ASSUME NEW a \in Asg, NEW h \in Handler, Sound(a), Own(a), OthersKeep(h, a), Lost(a,
         h)
  PROVE  Kept(a) /\ Quiet(a) /\ EndKept(a)
<1> USE DEF OthersKeep, Turns, Nobody, AtMostOne, SameField, SameRow, SameNews,
            HandledAssignment, OrderPc, SavePc, WrapPc, OtherEnds
<1>1. Ready(a) /\ Exclusive(a) /\ Permitted(a, done) /\ sent[a] = 0
  BY DEF Sound, Own, Plain, Exclusive, Held, Lost
<1>2. Permitted(a, done) => Permitted(a, done)'
  BY DEF Permitted, Sound
<1>3. Plain(a)'
  BY <1>1, <1>2 DEF Own, Plain, Exclusive, Held, Doomed, Lost
<1>4. Ready(a) => Exclusive(a)'
  BY <1>1 DEF Own, Plain, Exclusive, Lost
<1>5. ~Ready(a) => Held(a)'
  BY <1>1 DEF Own, Held, Lost
<1>6. Doomed(a) => Doomed(a)'
  BY <1>1, <1>2 DEF Doomed, Own, Plain, Exclusive, Lost
<1>7. Succeeded(a) => Succeeded(a)' /\ (ToList(a)' => ToList(a))
  BY <1>1 DEF Succeeded, ToList, Own, Plain, Exclusive, Lost
<1>8. Quiet(a)
  BY <1>1 DEF Quiet, Untouched, Shelved, Own, Plain, Lost
<1>9. EndKept(a)
  BY <1>1, <1>2, <1>3 DEF EndKept, NotEnded, Stopped, Doomed, Succeeded, Own, Plain,
     Exclusive, Lost
<1> QED
  BY <1>3, <1>4, <1>5, <1>6, <1>7, <1>8, <1>9 DEF Kept

\* ... which is saved: the assignment is doomed.
LEMMA LossSavedKept ==
  ASSUME NEW a \in Asg, NEW h \in Handler, Sound(a), Own(a), OthersKeep(h, a),
         LossSaved(a, h)
  PROVE  Kept(a) /\ Quiet(a) /\ EndKept(a)
<1> USE DEF OthersKeep, Turns, Nobody, AtMostOne, SameField, SameRow, SameNews,
            HandledAssignment, OrderPc, SavePc, WrapPc, OtherEnds
<1>1. Ready(a) /\ Exclusive(a) /\ Permitted(a, done) /\ sent[a] = 0
  BY DEF Sound, Own, Plain, Exclusive, Held, LossSaved
<1>2. Permitted(a, done) => Permitted(a, done)'
  BY DEF Permitted, Sound
<1>3. Plain(a)'
  BY <1>1, <1>2 DEF Own, Plain, Exclusive, Held, Doomed, LossSaved
<1>4. Ready(a) => Exclusive(a)'
  BY <1>1 DEF Own, Plain, Exclusive, LossSaved
<1>5. ~Ready(a) => Held(a)'
  BY <1>1 DEF Own, Held, LossSaved
<1>6. Doomed(a) => Doomed(a)'
  BY <1>1, <1>2 DEF Doomed, Own, Plain, Exclusive, LossSaved
<1>7. Succeeded(a) => Succeeded(a)' /\ (ToList(a)' => ToList(a))
  BY <1>1 DEF Succeeded, ToList, Own, Plain, Exclusive, LossSaved
<1>8. Quiet(a)
  BY <1>1 DEF Quiet, Untouched, Shelved, Own, Plain, LossSaved
<1>9. EndKept(a)
  BY <1>1, <1>2, <1>3 DEF EndKept, NotEnded, Stopped, Doomed, Succeeded, Own, Plain,
     Exclusive, LossSaved
<1> QED
  BY <1>3, <1>4, <1>5, <1>6, <1>7, <1>8, <1>9 DEF Kept

\* The core notes that the agent executes.
LEMMA NotedKept ==
  ASSUME NEW a \in Asg, NEW h \in Handler, Sound(a), Own(a), OthersKeep(h, a),
         Noted(a, h)
  PROVE  Kept(a) /\ Quiet(a) /\ EndKept(a)
<1> USE DEF OthersKeep, Turns, Nobody, AtMostOne, SameField, SameRow, SameNews,
            HandledAssignment, OrderPc, SavePc, WrapPc, OtherEnds
<1>1. sent[a] = 1 \/ Doomed(a)
  BY DEF Sound, Own, Plain, Exclusive, Held, Noted
<1>2. Permitted(a, done) => Permitted(a, done)'
  BY DEF Permitted, Sound
<1>3. Plain(a)'
  BY <1>1, <1>2 DEF Own, Plain, Exclusive, Held, Doomed, Noted
<1>4. Ready(a) => Exclusive(a)'
  BY <1>1 DEF Own, Plain, Exclusive, Noted
<1>5. ~Ready(a) => Held(a)'
  BY <1>1 DEF Own, Held, Noted
<1>6. Doomed(a) => Doomed(a)'
  BY <1>1, <1>2 DEF Doomed, Own, Plain, Exclusive, Noted
<1>7. Succeeded(a) => Succeeded(a)' /\ (ToList(a)' => ToList(a))
  BY <1>1 DEF Succeeded, ToList, Own, Plain, Exclusive, Noted
<1>8. Quiet(a)
  BY <1>1 DEF Quiet, Untouched, Shelved, Own, Plain, Noted
<1>9. EndKept(a)
  BY <1>1, <1>2, <1>3 DEF EndKept, NotEnded, Stopped, Doomed, Succeeded, Own, Plain,
     Exclusive, Noted
<1> QED
  BY <1>3, <1>4, <1>5, <1>6, <1>7, <1>8, <1>9 DEF Kept

\* The agent reports the end.
LEMMA ReportedKept ==
  ASSUME NEW a \in Asg, NEW h \in Handler, Sound(a), Own(a), OthersKeep(h, a),
         Reported(a, h)
  PROVE  Kept(a) /\ Quiet(a) /\ EndKept(a)
<1> USE DEF OthersKeep, Turns, Nobody, AtMostOne, SameField, SameRow, SameNews,
            HandledAssignment, OrderPc, SavePc, WrapPc, OtherEnds
<1>1. Ready(a) /\ Exclusive(a) /\ sent[a] = 1 /\ a \notin done
  BY DEF Sound, Own, Plain, Exclusive, Held, Reported
<1>2. Permitted(a, done) => Permitted(a, done)'
  BY DEF Permitted, Sound
<1>3. Plain(a)'
  BY <1>1, <1>2 DEF Own, Plain, Exclusive, Held, Doomed, Reported
<1>4. Ready(a) => Exclusive(a)'
  BY <1>1 DEF Own, Plain, Exclusive, Reported
<1>5. ~Ready(a) => Held(a)'
  BY <1>1 DEF Own, Held, Reported
<1>6. Doomed(a) => Doomed(a)'
  BY <1>1, <1>2 DEF Doomed, Own, Plain, Exclusive, Reported
<1>7. Succeeded(a) => Succeeded(a)' /\ (ToList(a)' => ToList(a))
  BY <1>1 DEF Succeeded, ToList, Own, Plain, Exclusive, Reported
<1>8. Quiet(a)
  BY <1>1 DEF Quiet, Untouched, Shelved, Own, Plain, Reported
<1>9. EndKept(a)
  BY <1>1, <1>2, <1>3 DEF EndKept, NotEnded, Stopped, Doomed, Succeeded, Own, Plain,
     Exclusive, Reported
<1> QED
  BY <1>3, <1>4, <1>5, <1>6, <1>7, <1>8, <1>9 DEF Kept

\* The end is saved.
LEMMA SavedKept ==
  ASSUME AgentsReportEnds, NEW a \in Asg, NEW h \in Handler, Sound(a), Own(a),
         OthersKeep(h, a), Saved(a, h)
  PROVE  Kept(a) /\ Quiet(a) /\ EndKept(a)
<1> USE DEF OthersKeep, Turns, Nobody, AtMostOne, SameField, SameRow, SameNews,
            HandledAssignment, OrderPc, SavePc, WrapPc, OtherEnds,
            AgentsReportEnds, AfterDispatch
<1>1. Ready(a) /\ Exclusive(a) /\ sent[a] = 1 /\ agent[a] = "over"
  BY AssignmentAssumption DEF Sound, Own, Plain, Exclusive, Held, Saved
<1>2. Permitted(a, done) => Permitted(a, done)'
  BY DEF Permitted, Sound
<1>3. Plain(a)'
  BY AssignmentAssumption, <1>1, <1>2 DEF Own, Plain, Exclusive, Held, Doomed, Saved
<1>4. Ready(a) => Exclusive(a)'
  BY AssignmentAssumption, <1>1 DEF Own, Plain, Exclusive, Saved
<1>5. ~Ready(a) => Held(a)'
  BY AssignmentAssumption, <1>1 DEF Own, Held, Saved
<1>6. Doomed(a) => Doomed(a)'
  BY AssignmentAssumption, <1>1, <1>2 DEF Doomed, Own, Plain, Exclusive, Saved
<1>7. Succeeded(a) => Succeeded(a)' /\ (ToList(a)' => ToList(a))
  BY AssignmentAssumption, <1>1 DEF Succeeded, ToList, Own, Plain, Exclusive, Saved
<1>8. Quiet(a)
  BY AssignmentAssumption, <1>1 DEF Quiet, Untouched, Shelved, Own, Plain, Saved
<1>9. ASSUME NotEnded(a), ~Stopped(a)
      PROVE  NotEnded(a)' \/ Doomed(a)' \/ Succeeded(a)'
  <2>1. CASE a \notin done
    BY <1>1, <2>1 DEF Doomed, Saved
  <2>2. CASE SameRow(a) /\ SameNews(a, {})
    BY <1>9, <2>2 DEF NotEnded, Saved
  <2>3. CASE a \in done /\ ~(SameRow(a) /\ SameNews(a, {}))
    <3>1. /\ handler[h].val = "succeeded" /\ Status(a)' = "succeeded" /\ SameNews(a, {"succeeded"})
          /\ News(a, "succeeded")' \in {News(a, "succeeded"), News(a, "succeeded") + 1}
      BY <2>3 DEF Own, Plain, Saved
    <3>2. /\ Status(a)' = "succeeded" /\ News(a, "succeeded")' \in {0, 1}
          /\ \A s \in OtherEnds \cup {"canceling"} : News(a, s)' = 0
      BY <1>9, <2>3, <3>1 DEF NotEnded, Stopped
    <3>3. /\ a \in done'
          /\ Nobody(WrapPc, a)' /\ Nobody({"markCanceled"} \cup SavePc, a)'
      BY <1>9, <2>3 DEF NotEnded, Stopped, Own, Plain, Saved
    <3> QED
      BY <3>2, <3>3 DEF Succeeded
  <2> QED
    BY <2>1, <2>2, <2>3 DEF Saved
<1>10. Stopped(a)' => Stopped(a)
  BY AssignmentAssumption, <1>1 DEF Stopped, Own, Plain, Saved
<1>11. EndKept(a)
  BY <1>9, <1>10 DEF EndKept
<1> QED
  BY <1>3, <1>4, <1>5, <1>6, <1>7, <1>8, <1>11 DEF Kept

\* The success is followed up.
LEMMA SuccessTakenKept ==
  ASSUME NEW a \in Asg, NEW h \in Handler, Sound(a), Own(a), OthersKeep(h, a),
         SuccessTaken(a, h)
  PROVE  Kept(a) /\ Quiet(a) /\ EndKept(a)
<1> USE DEF OthersKeep, Turns, Nobody, AtMostOne, SameField, SameRow, SameNews,
            HandledAssignment, OrderPc, SavePc, WrapPc, OtherEnds
<1>1. Ready(a) /\ Exclusive(a) /\ sent[a] = 1 /\ agent[a] = "over" /\ a \in done
  BY DEF Sound, Own, Plain, Exclusive, Held, SuccessTaken
<1>2. Permitted(a, done) => Permitted(a, done)'
  BY DEF Permitted, Sound
<1>3. Plain(a)'
  BY <1>1, <1>2 DEF Own, Plain, Exclusive, Held, Doomed, SuccessTaken
<1>4. Ready(a) => Exclusive(a)'
  BY <1>1 DEF Own, Plain, Exclusive, SuccessTaken
<1>5. ~Ready(a) => Held(a)'
  BY <1>1 DEF Own, Held, SuccessTaken
<1>6. Doomed(a) => Doomed(a)'
  BY <1>1, <1>2 DEF Doomed, Own, Plain, Exclusive, SuccessTaken
<1>7. Succeeded(a) => Succeeded(a)' /\ (ToList(a)' => ToList(a))
  BY <1>1 DEF Succeeded, ToList, Own, Plain, Exclusive, SuccessTaken
<1>8. Quiet(a)
  BY <1>1 DEF Quiet, Untouched, Shelved, Own, Plain, SuccessTaken
<1>9. EndKept(a)
  BY <1>1, <1>2, <1>3 DEF EndKept, NotEnded, Stopped, Doomed, Succeeded, Own, Plain,
     Exclusive, SuccessTaken
<1> QED
  BY <1>3, <1>4, <1>5, <1>6, <1>7, <1>8, <1>9 DEF Kept

\* Another end is followed up.
LEMMA EndTakenKept ==
  ASSUME NEW a \in Asg, NEW h \in Handler, Sound(a), Own(a), OthersKeep(h, a),
         EndTaken(a, h)
  PROVE  Kept(a) /\ Quiet(a) /\ EndKept(a)
<1> USE DEF OthersKeep, Turns, Nobody, AtMostOne, SameField, SameRow, SameNews,
            HandledAssignment, OrderPc, SavePc, WrapPc, OtherEnds
<1>2. Permitted(a, done) => Permitted(a, done)'
  BY DEF Permitted, Sound
<1>3. Plain(a)'
  BY <1>2 DEF Own, Plain, Exclusive, Held, Doomed, EndTaken
<1>4. Ready(a) => Exclusive(a)'
  BY DEF Own, Plain, Exclusive, EndTaken
<1>5. ~Ready(a) => Held(a)'
  BY DEF Own, Held, EndTaken
<1>6. Doomed(a) => Doomed(a)'
  BY <1>2 DEF Doomed, Own, Plain, Exclusive, EndTaken
<1>7. Succeeded(a) => Succeeded(a)' /\ (ToList(a)' => ToList(a))
  BY DEF Succeeded, ToList, Own, Plain, Exclusive, EndTaken
<1>8. Quiet(a)
  BY DEF Quiet, Untouched, Shelved, Own, Plain, EndTaken
<1>9. EndKept(a)
  BY <1>2, <1>3 DEF EndKept, NotEnded, Stopped, Doomed, Succeeded, Own, Plain,
     Exclusive, EndTaken
<1> QED
  BY <1>3, <1>4, <1>5, <1>6, <1>7, <1>8, <1>9 DEF Kept

\* The agent is told to stop, ...
LEMMA StopTakenKept ==
  ASSUME NEW a \in Asg, NEW h \in Handler, Sound(a), Own(a), OthersKeep(h, a),
         StopTaken(a, h)
  PROVE  Kept(a) /\ Quiet(a) /\ EndKept(a)
<1> USE DEF OthersKeep, Turns, Nobody, AtMostOne, SameField, SameRow, SameNews,
            HandledAssignment, OrderPc, SavePc, WrapPc, OtherEnds
<1>2. Permitted(a, done) => Permitted(a, done)'
  BY DEF Permitted, Sound
<1>3. Plain(a)'
  BY <1>2 DEF Own, Plain, Exclusive, Held, Doomed, StopTaken
<1>4. Ready(a) => Exclusive(a)'
  BY DEF Own, Plain, Exclusive, StopTaken
<1>5. ~Ready(a) => Held(a)'
  BY DEF Own, Held, StopTaken
<1>6. Doomed(a) => Doomed(a)'
  BY <1>2 DEF Doomed, Own, Plain, Exclusive, StopTaken
<1>7. Succeeded(a) => Succeeded(a)' /\ (ToList(a)' => ToList(a))
  BY DEF Succeeded, ToList, Own, Plain, Exclusive, StopTaken
<1>8. Quiet(a)
  BY DEF Quiet, Untouched, Shelved, Own, Plain, StopTaken
<1>9. EndKept(a)
  BY <1>2, <1>3 DEF EndKept, NotEnded, Stopped, Doomed, Succeeded, Own, Plain,
     Exclusive, StopTaken
<1> QED
  BY <1>3, <1>4, <1>5, <1>6, <1>7, <1>8, <1>9 DEF Kept

\* ... and the assignment is canceled.
LEMMA CanceledKept ==
  ASSUME NEW a \in Asg, NEW h \in Handler, Sound(a), Own(a), OthersKeep(h, a),
         Canceled(a, h)
  PROVE  Kept(a) /\ Quiet(a) /\ EndKept(a)
<1> USE DEF OthersKeep, Turns, Nobody, AtMostOne, SameField, SameRow, SameNews,
            HandledAssignment, OrderPc, SavePc, WrapPc, OtherEnds
<1>2. Permitted(a, done) => Permitted(a, done)'
  BY DEF Permitted, Sound
<1>3. Plain(a)'
  BY <1>2 DEF Own, Plain, Exclusive, Held, Doomed, Canceled
<1>4. Ready(a) => Exclusive(a)'
  BY DEF Own, Plain, Exclusive, Canceled
<1>5. ~Ready(a) => Held(a)'
  BY DEF Own, Held, Canceled
<1>6. Doomed(a) => Doomed(a)'
  BY <1>2 DEF Doomed, Own, Plain, Exclusive, Canceled
<1>7. Succeeded(a) => Succeeded(a)' /\ (ToList(a)' => ToList(a))
  BY DEF Succeeded, ToList, Own, Plain, Exclusive, Canceled
<1>8. Quiet(a)
  BY DEF Quiet, Untouched, Shelved, Own, Plain, Canceled
<1>9. EndKept(a)
  BY <1>2, <1>3 DEF EndKept, NotEnded, Stopped, Doomed, Succeeded, Own, Plain,
     Exclusive, Canceled
<1> QED
  BY <1>3, <1>4, <1>5, <1>6, <1>7, <1>8, <1>9 DEF Kept

\* The wrap-up goes on, ...
LEMMA WrappedOnKept ==
  ASSUME NEW a \in Asg, NEW h \in Handler, Sound(a), Own(a), OthersKeep(h, a),
         WrappedOn(a, h)
  PROVE  Kept(a) /\ Quiet(a) /\ EndKept(a)
<1> USE DEF OthersKeep, Turns, Nobody, AtMostOne, SameField, SameRow, SameNews,
            HandledAssignment, OrderPc, SavePc, WrapPc, OtherEnds
<1>2. Permitted(a, done) => Permitted(a, done)'
  BY DEF Permitted, Sound
<1>3. Plain(a)'
  BY <1>2 DEF Own, Plain, Exclusive, Held, Doomed, WrappedOn
<1>4. Ready(a) => Exclusive(a)'
  BY DEF Own, Plain, Exclusive, WrappedOn
<1>5. ~Ready(a) => Held(a)'
  BY DEF Own, Held, WrappedOn
<1>6. Doomed(a) => Doomed(a)'
  BY <1>2 DEF Doomed, Own, Plain, Exclusive, WrappedOn
<1>7. Succeeded(a) => Succeeded(a)' /\ (ToList(a)' => ToList(a))
  BY DEF Succeeded, ToList, Own, Plain, Exclusive, WrappedOn
<1>8. Quiet(a)
  BY DEF Quiet, Untouched, Shelved, Own, Plain, WrappedOn
<1>9. EndKept(a)
  BY <1>2, <1>3 DEF EndKept, NotEnded, Stopped, Doomed, Succeeded, Own, Plain,
     Exclusive, WrappedOn
<1> QED
  BY <1>3, <1>4, <1>5, <1>6, <1>7, <1>8, <1>9 DEF Kept

\* ... to the list of what is next.
LEMMA ListedKept ==
  ASSUME NEW a \in Asg, NEW h \in Handler, Sound(a), Own(a), OthersKeep(h, a),
         Listed(a, h)
  PROVE  Kept(a) /\ Quiet(a) /\ EndKept(a)
<1> USE DEF OthersKeep, Turns, Nobody, AtMostOne, SameField, SameRow, SameNews,
            HandledAssignment, OrderPc, SavePc, WrapPc, OtherEnds
<1>2. Permitted(a, done) => Permitted(a, done)'
  BY DEF Permitted, Sound
<1>3. Plain(a)'
  BY <1>2 DEF Own, Plain, Exclusive, Held, Doomed, Listed
<1>4. Ready(a) => Exclusive(a)'
  BY DEF Own, Plain, Exclusive, Listed
<1>5. ~Ready(a) => Held(a)'
  BY DEF Own, Held, Listed
<1>6. Doomed(a) => Doomed(a)'
  BY <1>2 DEF Doomed, Own, Plain, Exclusive, Listed
<1>7. Succeeded(a) => Succeeded(a)' /\ (ToList(a)' => ToList(a))
  BY DEF Succeeded, ToList, Own, Plain, Exclusive, Listed
<1>8. Quiet(a)
  BY DEF Quiet, Untouched, Shelved, Own, Plain, Listed
<1>9. EndKept(a)
  BY <1>2, <1>3 DEF EndKept, NotEnded, Stopped, Doomed, Succeeded, Own, Plain,
     Exclusive, Listed
<1> QED
  BY <1>3, <1>4, <1>5, <1>6, <1>7, <1>8, <1>9 DEF Kept

\* A next assignment waits for its dependencies, ...
LEMMA ActivatedKept ==
  ASSUME NEW a \in Asg, NEW h \in Handler, Sound(a), Own(a), OthersKeep(h, a),
         Activated(a, h)
  PROVE  Kept(a) /\ Quiet(a) /\ EndKept(a)
<1> USE DEF OthersKeep, Turns, Nobody, AtMostOne, SameField, SameRow, SameNews,
            HandledAssignment, OrderPc, SavePc, WrapPc, OtherEnds
<1>2. Permitted(a, done) => Permitted(a, done)'
  BY DEF Permitted, Sound
<1>3. Plain(a)'
  BY <1>2 DEF Own, Plain, Exclusive, Held, Doomed, Activated
<1>4. Ready(a) => Exclusive(a)'
  BY DEF Own, Plain, Exclusive, Activated
<1>5. ~Ready(a) => Held(a)'
  BY DEF Own, Held, Activated
<1>6. Doomed(a) => Doomed(a)'
  BY <1>2 DEF Doomed, Own, Plain, Exclusive, Activated
<1>7. Succeeded(a) => Succeeded(a)' /\ (ToList(a)' => ToList(a))
  BY DEF Succeeded, ToList, Own, Plain, Exclusive, Activated
<1>8. Quiet(a)
  BY DEF Quiet, Untouched, Shelved, Own, Plain, Activated
<1>9. EndKept(a)
  BY <1>2, <1>3 DEF EndKept, NotEnded, Stopped, Doomed, Succeeded, Own, Plain,
     Exclusive, Activated
<1> QED
  BY <1>3, <1>4, <1>5, <1>6, <1>7, <1>8, <1>9 DEF Kept

\* ... and is freed by the watcher.
LEMMA FreedKept ==
  ASSUME NEW a \in Asg, NEW h \in Handler, Sound(a), Own(a), OthersKeep(h, a),
         Freed(a, h)
  PROVE  Kept(a) /\ Quiet(a) /\ EndKept(a)
<1> USE DEF OthersKeep, Turns, Nobody, AtMostOne, SameField, SameRow, SameNews,
            HandledAssignment, OrderPc, SavePc, WrapPc, OtherEnds
<1>1. Ready(a) /\ Exclusive(a)
  BY DEF Sound, Own, Plain, Exclusive, Held, Freed
<1>2. Permitted(a, done) => Permitted(a, done)'
  BY DEF Permitted, Sound
<1>3. Plain(a)'
  BY <1>1, <1>2 DEF Own, Plain, Exclusive, Held, Doomed, Freed
<1>4. Ready(a) => Exclusive(a)'
  BY <1>1 DEF Own, Plain, Exclusive, Freed
<1>5. ~Ready(a) => Held(a)'
  BY <1>1 DEF Own, Held, Freed
<1>6. Doomed(a) => Doomed(a)'
  BY <1>1, <1>2 DEF Doomed, Own, Plain, Exclusive, Freed
<1>7. Succeeded(a) => Succeeded(a)' /\ (ToList(a)' => ToList(a))
  BY <1>1 DEF Succeeded, ToList, Own, Plain, Exclusive, Freed
<1>8. Quiet(a)
  BY <1>1 DEF Quiet, Untouched, Shelved, Own, Plain, Freed
<1>9. EndKept(a)
  BY <1>1, <1>2, <1>3 DEF EndKept, NotEnded, Stopped, Doomed, Succeeded, Own, Plain,
     Exclusive, Freed
<1> QED
  BY <1>3, <1>4, <1>5, <1>6, <1>7, <1>8, <1>9 DEF Kept

\* What is not about a.
LEMMA StillKept ==
  ASSUME NEW a \in Asg, Sound(a), Own(a), Still(a)
  PROVE  Kept(a) /\ Quiet(a) /\ EndKept(a)
<1>1. Permitted(a, done) => Permitted(a, done)'
  BY DEF Permitted, Sound
<1>2. \A s \in HandledAssignment : News(a, s)' = News(a, s)
  BY DEF Still, SameNews
<1>3. \A roles : Nobody(roles, a)' <=> Nobody(roles, a)
  BY DEF Still, Nobody
<1>4. \A roles : AtMostOne(roles, a)' <=> AtMostOne(roles, a)
  BY DEF Still, AtMostOne
<1>5. Doomed(a) => Doomed(a)'
  BY <1>1, <1>2, <1>3 DEF Doomed, Still, SameField, SameRow, HandledAssignment
<1>6. Plain(a)'
  BY <1>1, <1>2, <1>3, <1>4, <1>5 DEF Own, Plain, Still, SameField, SameRow,
     HandledAssignment, SavePc, OrderPc
<1>7. /\ Ready(a) => Exclusive(a)'
      /\ ~Ready(a) => Held(a)'
  BY <1>2, <1>3, <1>4 DEF Own, Exclusive, Held, Still, SameField, SameRow,
     HandledAssignment
<1>8. Succeeded(a) => Succeeded(a)' /\ (ToList(a)' => ToList(a))
  BY <1>2, <1>3, <1>4 DEF Succeeded, ToList, Still, SameField, SameRow, OtherEnds,
     HandledAssignment
<1>9. Quiet(a) /\ EndKept(a)
  BY <1>2, <1>3 DEF Quiet, EndKept, Untouched, Shelved, NotEnded, Stopped, Still,
     SameField, SameRow,
                    OtherEnds, HandledAssignment
<1> QED
  BY <1>5, <1>6, <1>7, <1>8, <1>9 DEF Kept

\* The row of an assignment that no agent has seen is canceled.
LEMMA DroppedKept ==
  ASSUME NEW a \in Asg, Sound(a), Own(a), Dropped(a)
  PROVE  Kept(a) /\ Quiet(a) /\ (Stopped(a)' => Stopped(a))
<1>1. Permitted(a, done) => Permitted(a, done)'
  BY DEF Permitted, Sound
<1>2. \A s \in HandledAssignment \ {"canceled"} : News(a, s)' = News(a, s)
  BY DEF Dropped, SameNews
<1>3. \A roles : Nobody(roles, a)' <=> Nobody(roles, a)
  BY DEF Dropped, Nobody
<1>4. \A roles : AtMostOne(roles, a)' <=> AtMostOne(roles, a)
  BY DEF Dropped, AtMostOne
<1>5. Doomed(a) => Doomed(a)'
  BY <1>1, <1>2, <1>3 DEF Doomed, Dropped, SameField, HandledAssignment
<1>6. Plain(a)'
  BY <1>1, <1>2, <1>3, <1>4, <1>5 DEF Own, Plain, Dropped, SameField,
     HandledAssignment, SavePc, OrderPc
<1>7. /\ Ready(a) => Exclusive(a)'
      /\ ~Ready(a) => Held(a)'
  BY <1>2, <1>3, <1>4 DEF Own, Exclusive, Held, Dropped, SameField, HandledAssignment
<1>8. ~Succeeded(a)
  BY DEF Succeeded, Dropped, BeforeDispatch
<1>9. Quiet(a) /\ (Stopped(a)' => Stopped(a))
  BY <1>2, <1>3 DEF Quiet, Untouched, Shelved, Stopped, Dropped, SameField,
     HandledAssignment
<1> QED
  BY <1>5, <1>6, <1>7, <1>8, <1>9 DEF Kept

\* The row of one that an agent executes is to be canceled.
LEMMA HaltedKept ==
  ASSUME NEW a \in Asg, Sound(a), Own(a), Halted(a)
  PROVE  Kept(a) /\ Quiet(a) /\ (NotEnded(a) => NotEnded(a)')
<1>1. Permitted(a, done) => Permitted(a, done)'
  BY DEF Permitted, Sound
<1>2. \A s \in HandledAssignment \ {"canceling"} : News(a, s)' = News(a, s)
  BY DEF Halted, SameNews
<1>3. \A roles : Nobody(roles, a)' <=> Nobody(roles, a)
  BY DEF Halted, Nobody
<1>4. \A roles : AtMostOne(roles, a)' <=> AtMostOne(roles, a)
  BY DEF Halted, AtMostOne
<1>5. Doomed(a) => Doomed(a)'
  BY <1>1, <1>2, <1>3 DEF Doomed, Halted, SameField, HandledAssignment
<1>6. Plain(a)'
  BY <1>1, <1>2, <1>3, <1>4, <1>5 DEF Own, Plain, Halted, AfterDispatch, SameField,
     HandledAssignment, SavePc, OrderPc
<1>7. /\ Ready(a) => Exclusive(a)'
      /\ ~Ready(a) => Held(a)'
  BY <1>2, <1>3, <1>4 DEF Own, Exclusive, Held, Halted, AfterDispatch, SameField,
     HandledAssignment
<1>8. ~Succeeded(a) /\ Quiet(a)
  BY DEF Succeeded, Quiet, Untouched, Shelved, Halted, AfterDispatch
<1>9. NotEnded(a) => NotEnded(a)'
  BY <1>2, <1>3 DEF NotEnded, OtherEnds, HandledAssignment
<1> QED
  BY <1>5, <1>6, <1>7, <1>8, <1>9 DEF Kept

\* An assignment that is put on a list was untouched, or waits.
LEMMA MarkedKept ==
  ASSUME NEW a \in Asg, NEW p \in Asg, NEW h \in Handler, Sound(a), Own(a),
         OthersKeep(h, a),
         Marked(a, p, h), Untouched(a) \/ ~Ready(a)
  PROVE  Kept(a) /\ EndKept(a) /\ (Untouched(a) => Exclusive(a)')
<1>1. Permitted(a, done) => Permitted(a, done)'
  BY DEF Permitted, Sound
<1>2. \A s \in HandledAssignment : News(a, s)' = News(a, s)
  BY DEF Marked, SameNews
<1>3. /\ Status(a) \in {"not_ready_to_dispatch", "wait_dependencies"} /\ Status(a)' = Status(a)
      /\ sent[a] = 0 /\ sent'[a] = 0 /\ News(a, "to_dispatch") = 0 /\ News(a, "canceling") = 0
      /\ Nobody(OrderPc \cup {"markExecuting", "markCanceled"}, a)
      /\ ~Doomed(a) /\ a \notin done /\ agent[a] = "none"
  BY DEF Own, Plain, Held, Untouched, Doomed, Sound, Marked, SameField, SameRow, Nobody
<1>4. \A g \in Handler : Role(g, a)' = IF g = h THEN "mark" ELSE Role(g, a)
  BY DEF OthersKeep, Marked, Turns
<1>5. Role(h, a) = "-" /\ handler'[h].todo[a] = "wait_dependencies"
  BY DEF Marked, Turns
<1>6. Plain(a)'
  BY <1>1, <1>2, <1>3, <1>4, <1>5 DEF Own, Plain, OthersKeep, Marked, SameField,
     Nobody, AtMostOne,
     HandledAssignment, SavePc, OrderPc
<1>7. Untouched(a) => Exclusive(a)'
  BY <1>2, <1>3, <1>4 DEF Untouched, Exclusive, Nobody, AtMostOne, HandledAssignment,
     OrderPc
<1>8. ~Ready(a) => Held(a)'
  BY <1>2, <1>3, <1>4 DEF Own, Held, Nobody, HandledAssignment, OrderPc, SavePc
<1>9. ~Succeeded(a)
  BY <1>3 DEF Succeeded
<1>10. EndKept(a)
  BY <1>2, <1>4, <1>5 DEF EndKept, NotEnded, Stopped, Nobody, OtherEnds,
     HandledAssignment, WrapPc
<1> QED
  BY <1>3, <1>6, <1>7, <1>8, <1>9, <1>10 DEF Kept

----------------------------------------------------------------------------
(* The invariant is kept *)

\* No computation comes to the second half of a cleanup.
NoNewCleanup ==
  \A g \in Handler : handler'[g].pc = "cancelRunningAssignments"
                       => handler[g].pc = "cancelRunningAssignments"

\* h follows p up with a.
Follows(a, p, h) == Marked(a, p, h) /\ Listed(p, h) /\ OthersKeep(h, a) /\ OthersKeep(h, p)

StepOf(h) ==
  \A a \in Asg : \/ Still(a)
                 \/ OthersKeep(h, a) /\ Moves(a, h)
                 \/ \E p \in Asg : Follows(a, p, h)

Drops ==
  \A a \in Asg :
    \/ Still(a) /\ Status(a) \notin BeforeDispatch
    \/ Dropped(a) /\ \E h \in Handler : handler[h].pc = "cancelWaitingAssignments"

Halts ==
  \A a \in Asg :
    \/ Still(a)
    \/ Halted(a) /\ \E h \in Handler : handler[h].pc = "cancelRunningAssignments"

\* What a step does about all assignments.
Advance ==
  /\ done \subseteq done'
  /\ \/ NoNewCleanup /\ \E h \in Handler : StepOf(h)
     \/ Drops
     \/ NoNewCleanup /\ Halts

\* What PlanInvariant says of each.
LEMMA SoundPlan ==
  ASSUME PlanOfOne, PlanInvariant, done \subseteq done', NEW a \in Asg
  PROVE  Sound(a)
<1>1. \A s \in HandledAssignment : AssignmentEvent(a, s) \in Event
  BY DEF Event
<1>2. \A s \in HandledAssignment : News(a, s) \in Nat
  BY <1>1 DEF PlanInvariant, TypeOK, News
<1>3. Permitted(a, done) => Ready(a)
  BY DEF Permitted, Ready, PlanOfOne
<1>4. News(a, "succeeded") > 0 => a \in done
  BY DEF PlanInvariant, EventsPermitted, News
<1>5. News(a, "to_dispatch") > 0 \/ sent[a] > 0 => Permitted(a, done)
  BY DEF PlanInvariant, EventsPermitted, News, SentAfterDependencies, Permitted
<1> QED
  BY <1>2, <1>3, <1>4, <1>5 DEF Sound

\* The next assignments are assignments.
LEMMA NextAreAssignments == \A p \in Asg : NextAsg[p] \subseteq Asg
BY AssignmentAssumption

\* Whatever a computation does about a, ...
LEMMA MovesKept ==
  ASSUME AgentsReportEnds, NEW a \in Asg, NEW h \in Handler, Sound(a), Own(a),
         OthersKeep(h, a),
         Moves(a, h)
  PROVE  Kept(a) /\ Quiet(a) /\ EndKept(a)
BY TakenKept, OrderedKept, LostKept, LossSavedKept, NotedKept, ReportedKept,
   SavedKept, SuccessTakenKept,
   EndTakenKept, StopTakenKept, CanceledKept, WrappedOnKept, ListedKept, ActivatedKept, FreedKept
   DEF Moves

\* An assignment that is followed up was untouched, or waits.
LEMMA FollowedFresh ==
  ASSUME OneStart, NEW a \in Asg, NEW p \in Asg, NEW h \in Handler, Follows(a, p, h)
  PROVE  Untouched(a) \/ ~Ready(a)
<1>1. a \in NextAsg[p] /\ Status(a) # "canceled" /\ Role(h, p) \in WrapPc
  BY DEF Follows, Marked, WrapPc
<1>2. Going(p) \/ Barren(p) \/ Doomed(p) \/ Wrapping(p)
  BY DEF OneStart, Settled
<1>3. ~Going(p) /\ ~Barren(p)
  BY <1>1 DEF Going, NotEnded, Nobody, Barren, Shelved
<1>4. CASE Doomed(p)
  BY <1>1, <1>4 DEF Doomed, Ready
<1>5. CASE Wrapping(p)
  BY <1>1, <1>5 DEF Wrapping, ToList, Nobody
<1> QED
  BY <1>2, <1>3, <1>4, <1>5

\* ... by one computation ...
LEMMA StepKept ==
  ASSUME PlanOfOne, AgentsReportEnds, PlanInvariant, OneStart, done \subseteq done',
         NEW h \in Handler, StepOf(h), NEW a \in Asg
  PROVE  Kept(a) /\ EndKept(a) /\ (Quiet(a) \/ \E p \in Asg : Follows(a, p, h))
<1>1. Sound(a) /\ Own(a)
  BY SoundPlan DEF OneStart
<1>2. CASE Still(a)
  BY <1>1, <1>2, StillKept
<1>3. CASE OthersKeep(h, a) /\ Moves(a, h)
  BY <1>1, <1>3, MovesKept
<1>4. ASSUME NEW p \in Asg, Follows(a, p, h)
      PROVE  Kept(a) /\ EndKept(a)
  BY <1>1, <1>4, FollowedFresh, MarkedKept DEF Follows
<1> QED
  BY <1>2, <1>3, <1>4 DEF StepOf

\* ... or by a cleanup.
LEMMA CleanupKept ==
  ASSUME PlanOfOne, PlanInvariant, OneStart, done \subseteq done', NEW a \in Asg,
         Still(a) \/ Dropped(a) \/ Halted(a)
  PROVE  Kept(a) /\ Quiet(a)
<1>1. Sound(a) /\ Own(a)
  BY SoundPlan DEF OneStart
<1> QED
  BY <1>1, StillKept, DroppedKept, HaltedKept

\* In every step.
LEMMA AdvanceKept ==
  ASSUME PlanOfOne, AgentsReportEnds, PlanInvariant, OneStart, Advance, NEW a \in Asg
  PROVE  /\ Kept(a)
         /\ Quiet(a) \/ \E p \in Asg, h \in Handler : Follows(a, p, h)
BY StepKept, CleanupKept DEF Advance, Drops, Halts

\* What has settled stays so: only a wrap-up puts assignments on a list, and
\* it has done with it then.
LEMMA SettledStays ==
  ASSUME PlanOfOne, AgentsReportEnds, PlanInvariant, OneStart, Advance, NEW p \in Asg
  PROVE  /\ Barren(p) => Barren(p)'
         /\ Doomed(p) => Doomed(p)'
         /\ Settled(p) => Settled(p)'
<1>1. \A b \in NextAsg[p] : b \in Asg /\ (Quiet(b) \/ \E q \in Asg, h \in Handler : Follows(b, q, h))
  BY AdvanceKept, NextAreAssignments
<1>2. Barren(p) => Barren(p)'
  BY <1>1 DEF Barren, Shelved, Quiet, Follows, Marked
<1>3. Doomed(p) => Doomed(p)'
  BY AdvanceKept DEF Kept
<1>4. ASSUME Wrapping(p)
      PROVE  Wrapping(p)'
  <2>1. Succeeded(p)' /\ (ToList(p)' => ToList(p))
    BY <1>4, AdvanceKept DEF Kept, Wrapping
  <2>2. ASSUME NEW h \in Handler, Listed(p, h), OthersKeep(h, p)
        PROVE  ~ToList(p)'
    <3>1. News(p, "succeeded") = 0 /\ News(p, "succeeded")' = News(p, "succeeded")
      BY <1>4, <2>2 DEF Wrapping, Succeeded, Listed, SameNews, HandledAssignment,
         Turns, Nobody, WrapPc
    <3>2. Nobody(WrapPc, p)'
      BY <1>4, <2>2 DEF Wrapping, Succeeded, Listed, OthersKeep, Turns, Nobody,
         AtMostOne, WrapPc
    <3> QED
      BY <3>1, <3>2 DEF ToList
  <2>3. ASSUME ToList(p)', NEW b \in NextAsg[p]
        PROVE  Untouched(b)'
    <3>1. Untouched(b)
      BY <1>4, <2>1, <2>3 DEF Wrapping
    <3>2. ASSUME NEW q \in Asg, NEW h \in Handler, Follows(b, q, h)
          PROVE  FALSE
      BY <1>1, <2>2, <2>3, <3>2 DEF Follows, Marked, PlanOfOne
    <3> QED
      BY <1>1, <3>1, <3>2 DEF Quiet
  <2> QED
    BY <2>1, <2>3 DEF Wrapping
<1> QED
  BY <1>2, <1>3, <1>4 DEF Settled

\* What has not is still going, or settles.
LEMMA GoingStays ==
  ASSUME PlanOfOne, AgentsReportEnds, PlanInvariant, OneStart, Advance, NEW p \in Asg,
         Going(p)
  PROVE  Going(p)' \/ Settled(p)'
<1>1. \A b \in NextAsg[p] : b \in Asg /\ Untouched(b)
  BY NextAreAssignments DEF Going
<1>2. CASE Drops
  <2>1. ASSUME NEW b \in NextAsg[p]
        PROVE  Shelved(b)'
    <3>1. Untouched(b)'
      BY <1>1, <1>2, CleanupKept DEF Drops, Quiet, Advance
    <3>2. Status(b)' = "canceled"
      BY <1>1, <1>2 DEF Drops, Dropped, Still, SameRow, Untouched, BeforeDispatch
    <3> QED
      BY <3>1, <3>2 DEF Shelved
  <2> QED
    BY <2>1 DEF Barren, Settled
<1>3. ASSUME NEW h \in Handler, StepOf(h)
      PROVE  Going(p)' \/ Settled(p)'
  <2>1. EndKept(p)
    BY <1>3, StepKept DEF Advance
  <2>2. ASSUME NEW b \in NextAsg[p]
        PROVE  Untouched(b)'
    <3>1. ASSUME NEW q \in Asg, Follows(b, q, h)
          PROVE  FALSE
      BY <1>1, <3>1 DEF Follows, Marked, PlanOfOne, Going, NotEnded, Nobody, WrapPc
    <3> QED
      BY <1>1, <1>3, <3>1, StepKept DEF Quiet, Advance
  <2>3. CASE Stopped(p)
    BY <2>3, SettledStays DEF OneStart, Settled
  <2> QED
    BY <2>1, <2>2, <2>3 DEF EndKept, Going, Settled, Wrapping
<1>4. CASE Halts
  <2>1. Sound(p) /\ Own(p)
    BY SoundPlan DEF OneStart, Advance
  <2>2. (NotEnded(p)' \/ Doomed(p)' \/ Succeeded(p)') \/ Stopped(p)
    BY <1>4, <2>1, StillKept, HaltedKept DEF Halts, EndKept, Going
  <2>3. \A b \in NextAsg[p] : Untouched(b)'
    BY <1>1, <1>4, CleanupKept DEF Halts, Quiet, Advance
  <2>4. CASE Stopped(p)
    BY <2>4, SettledStays DEF OneStart, Settled
  <2> QED
    BY <2>2, <2>3, <2>4 DEF Going, Settled, Wrapping
<1> QED
  BY <1>2, <1>3, <1>4 DEF Advance

\* When the assignment before a is done, nothing was done about a.
LEMMA OwnKept ==
  ASSUME PlanOfOne, AgentsReportEnds, PlanInvariant, OneStart, Advance, NEW a \in Asg
  PROVE  Own(a)'
<1>1. Kept(a)
  BY AdvanceKept
<1>2. Ready(a) => Ready(a)'
  BY DEF Advance, Ready
<1>3. ASSUME ~Ready(a), Ready(a)'
      PROVE  Exclusive(a)'
  <2>1. PICK p \in Asg : a \in NextAsg[p] /\ p \notin done /\ p \in done'
    BY <1>3 DEF Ready
  <2>2. ~SameField(p)
    BY <2>1 DEF SameField
  <2>3. PICK h \in Handler : StepOf(h)
    BY <2>2 DEF Advance, Drops, Halts, Still, Dropped, Halted
  <2>4. Reported(p, h)
    BY <2>1, <2>2, <2>3 DEF StepOf, Follows, Marked, Still, Moves, Taken, Ordered,
       Lost, LossSaved, Noted, Saved,
       SuccessTaken, EndTaken, StopTaken, Canceled, WrappedOn, Listed, Activated, Freed
  <2>5. agent[p] \in {"working", "stopping"}
    BY <2>4 DEF Reported
  <2>6. Untouched(a)
    BY <2>1, <2>5 DEF OneStart, Going, Settled, Barren, Shelved, Doomed, Wrapping,
       Succeeded
  <2>7. ASSUME NEW q \in Asg, Follows(a, q, h)
        PROVE  FALSE
    BY <2>1, <2>2, <2>7 DEF Follows, Marked, Listed, PlanOfOne
  <2>8. Untouched(a)'
    BY <2>3, <2>6, <2>7, StepKept DEF Quiet, Advance
  <2> QED
    BY <2>8 DEF Untouched, Exclusive, Nobody, AtMostOne, OrderPc
<1> QED
  BY <1>1, <1>2, <1>3 DEF Own, Kept

\* The start of each assignment stays at one place.
LEMMA AdvanceOnce ==
  ASSUME PlanOfOne, AgentsReportEnds, PlanInvariant, OneStart, Advance
  PROVE  OneStart'
<1> SUFFICES ASSUME NEW a \in Asg
             PROVE  /\ Own(a)'
                    /\ Going(a)' \/ Settled(a)'
                    /\ Stopped(a)' => Barren(a)' \/ Doomed(a)'
                    /\ \A h \in Handler : handler'[h].pc = "cancelRunningAssignments" => Settled(a)'
  BY DEF OneStart
<1>1. Own(a)'
  BY OwnKept
<1>2. Going(a)' \/ Settled(a)'
  BY GoingStays, SettledStays DEF OneStart
<1>3. ASSUME Stopped(a)'
      PROVE  Barren(a)' \/ Doomed(a)'
  <2>1. CASE Stopped(a)
    BY <2>1, SettledStays DEF OneStart
  <2>2. CASE Halts /\ Halted(a) /\ ~Still(a)
    <3>1. Settled(a) /\ ~Succeeded(a)
      BY <2>2 DEF OneStart, Halts, Halted, Succeeded, AfterDispatch
    <3> QED
      BY <3>1, SettledStays DEF Settled, Wrapping
  <2>3. CASE ~Stopped(a) /\ ~(Halts /\ Halted(a) /\ ~Still(a))
    <3>1. Sound(a) /\ Own(a)
      BY SoundPlan DEF OneStart, Advance
    <3>2. Stopped(a)' => Stopped(a)
      BY <2>3, <3>1, StepKept, StillKept, DroppedKept DEF Advance, Drops, Halts, EndKept
    <3> QED
      BY <1>3, <2>3, <3>2
  <2> QED
    BY <2>1, <2>2, <2>3
<1>4. ASSUME NEW h \in Handler, handler'[h].pc = "cancelRunningAssignments"
      PROVE  Settled(a)'
  <2>1. CASE Drops
    <3>1. CASE Going(a)
      <4>1. ASSUME NEW b \in NextAsg[a]
            PROVE  Shelved(b)'
        <5>1. b \in Asg /\ Untouched(b)
          BY <3>1, NextAreAssignments DEF Going
        <5>2. Untouched(b)'
          BY <2>1, <5>1, CleanupKept DEF Drops, Quiet, Advance
        <5>3. Status(b)' = "canceled"
          BY <2>1, <5>1 DEF Drops, Dropped, Still, SameRow, Untouched, BeforeDispatch
        <5> QED
          BY <5>2, <5>3 DEF Shelved
      <4> QED
        BY <4>1 DEF Barren, Settled
    <3> QED
      BY <3>1, SettledStays DEF OneStart
  <2>2. CASE NoNewCleanup
    BY <1>4, <2>2, SettledStays DEF NoNewCleanup, OneStart
  <2> QED
    BY <2>1, <2>2 DEF Advance
<1> QED
  BY <1>1, <1>2, <1>3, <1>4

----------------------------------------------------------------------------
(* Every step is one of these *)

RolePc == OrderPc \cup SavePc \cup WrapPc \cup {"markExecuting", "markCanceled"}

\* The computation that takes the step goes on with t.
LEMMA OthersKeepTheirs ==
  ASSUME PlanInvariant, NEW h \in Handler, NEW t, Becomes(h, t)
  PROVE  handler'[h] = t /\ (\A a : OthersKeep(h, a)) /\ \A g \in Handler \ {h} : handler'[g] = handler[g]
<1>1. \A g \in Handler : handler'[g] = IF g = h THEN t ELSE handler[g]
  BY DEF Becomes, PlanInvariant, TypeOK
<1> QED
  BY <1>1 DEF OthersKeep, Role

\* What a statement does to the events about a.
LEMMA NewsStep ==
  ASSUME PlanInvariant, NEW taken, NEW left, TakeAndLeave(taken, left),
         NEW a \in Asg, NEW s \in HandledAssignment
  PROVE  /\ News(a, s) \in Nat
         /\ News(a, s)' = (IF AssignmentEvent(a, s) \in taken THEN News(a, s) - 1 ELSE News(a, s))
                            + (IF AssignmentEvent(a, s) \in left THEN 1 ELSE 0)
<1>1. AssignmentEvent(a, s) \in Event
  BY DEF Event
<1> QED
  BY <1>1 DEF PlanInvariant, TypeOK, News, TakeAndLeave

\* Events are those of one assignment and one status.
LEMMA OneEvent ==
  \A a, b, s, u : AssignmentEvent(a, s) = AssignmentEvent(b, u) => a = b /\ s = u
BY DEF AssignmentEvent

\* The statement that only takes the event s of r.
LEMMA TakenNews ==
  ASSUME PlanInvariant, NEW r \in Asg, NEW s \in HandledAssignment,
         Queued(AssignmentEvent(r, s)), TakeAndLeave({AssignmentEvent(r, s)}, {})
  PROVE  /\ News(r, s) > 0 /\ News(r, s)' = News(r, s) - 1 /\ SameNews(r, {s})
         /\ \A a \in Asg \ {r} : SameNews(a, {})
<1>1. \A a \in Asg, u \in HandledAssignment : AssignmentEvent(a, u) \in {AssignmentEvent(r, s)} <=> a = r /\ u = s
  BY OneEvent
<1>2. \A a \in Asg, u \in HandledAssignment :
        /\ News(a, u) \in Nat
        /\ News(a, u)' = IF a = r /\ u = s THEN News(a, u) - 1 ELSE News(a, u)
  BY <1>1, NewsStep
<1> QED
  BY <1>2 DEF SameNews, Queued, News

\* The statement that writes s into rows.
LEMMA WrittenNews ==
  ASSUME PlanInvariant, NEW rows \in SUBSET Asg, NEW s, SetAssignments(rows, s, {}),
         NEW a \in Asg
  PROVE  /\ a \in rows => Status(a)' = s
         /\ a \notin rows => SameRow(a) /\ SameNews(a, {})
         /\ SameNews(a, {s})
         /\ s \notin HandledAssignment => SameNews(a, {})
         /\ s \in HandledAssignment => News(a, s)' \in {News(a, s), News(a, s) + 1}
         /\ s \in HandledAssignment /\ a \in rows /\ Status(a) # s => News(a, s)' = News(a, s) + 1
<1> DEFINE left == {AssignmentEvent(b, s) : b \in {c \in rows : assignments[c] # s}}
<1>1. TakeAndLeave({}, left)
  BY DEF SetAssignments
<1>2. \A u \in HandledAssignment : AssignmentEvent(a, u) \in left <=> a \in rows /\ u = s /\ Status(a) # s
  BY OneEvent DEF Status
<1> HIDE DEF left
<1>3. \A u \in HandledAssignment :
        /\ News(a, u) \in Nat
        /\ News(a, u)' = News(a, u) + (IF a \in rows /\ u = s /\ Status(a) # s THEN 1 ELSE 0)
  BY <1>1, <1>2, NewsStep
<1>4. Status(a)' = IF a \in rows THEN s ELSE Status(a)
  BY DEF SetAssignments, Status
<1> QED
  BY <1>3, <1>4 DEF SameNews, SameRow

\* The statement that writes s into the row of r.
LEMMA RowWritten ==
  ASSUME PlanInvariant, NEW r \in Asg, NEW s, SetAssignments({r}, s, {})
  PROVE  /\ Status(r)' = s /\ SameNews(r, {s})
         /\ s \notin HandledAssignment => SameNews(r, {})
         /\ \A a \in Asg \ {r} : SameRow(a) /\ SameNews(a, {})
<1>1. {r} \in SUBSET Asg
  OBVIOUS
<1>2. \A a \in Asg : /\ a \in {r} => Status(a)' = s
                     /\ a \notin {r} => SameRow(a) /\ SameNews(a, {})
                     /\ SameNews(a, {s})
                     /\ s \notin HandledAssignment => SameNews(a, {})
  BY <1>1, WrittenNews
<1> QED
  BY <1>2

\* A computation that has ended does nothing.
LEMMA IdleRole ==
  ASSUME PlanInvariant, NEW h \in Handler, Becomes(h, Idle), NEW a
  PROVE  Role(h, a)' = "-"
<1>1. handler'[h] = Idle
  BY OthersKeepTheirs
<1>2. TaskRole(Idle, a) = "-"
  BY DEF TaskRole, Idle, OrderPc, SavePc, WrapPc
<1> QED
  BY <1>1, <1>2 DEF Role

\* A step of a computation about assignment r, and no other.
LEMMA OneAdvances ==
  ASSUME PlanInvariant, NEW h \in Handler, NEW t, Becomes(h, t), NEW r \in Asg,
         handler[h].pc # "activate", t.pc \notin {"activate", "cancelRunningAssignments"},
         handler[h].pc \in RolePc => handler[h].row = r,
         t.pc \in RolePc => t.row = r,
         \A a \in Asg \ {r} : SameField(a) /\ SameRow(a) /\ SameNews(a, {}),
         Moves(r, h), done \subseteq done'
  PROVE  Advance
<1>1. handler'[h] = t /\ (\A a : OthersKeep(h, a)) /\ \A g \in Handler \ {h} : handler'[g] = handler[g]
  BY OthersKeepTheirs
<1>2. \A a \in Asg \ {r} : Role(h, a) = "-" /\ Role(h, a)' = "-"
  BY <1>1 DEF Role, TaskRole, RolePc
<1>3. \A a \in Asg \ {r} : Still(a)
  BY <1>1, <1>2 DEF Still, OthersKeep, SavePc
<1>4. StepOf(h)
  BY <1>1, <1>3 DEF StepOf
<1>5. NoNewCleanup
  BY <1>1 DEF NoNewCleanup
<1> QED
  BY <1>4, <1>5 DEF Advance

\* A step about none.
LEMMA NoneAdvances ==
  ASSUME PlanInvariant, NEW h \in Handler, NEW t, Becomes(h, t),
         handler[h].pc \notin RolePc \cup {"activate"},
         t.pc \notin RolePc \cup {"activate", "cancelRunningAssignments"},
         \A a \in Asg : SameField(a) /\ SameRow(a) /\ SameNews(a, {}), done \subseteq done'
  PROVE  Advance
<1>1. handler'[h] = t /\ (\A a : OthersKeep(h, a)) /\ \A g \in Handler \ {h} : handler'[g] = handler[g]
  BY OthersKeepTheirs
<1>2. \A a \in Asg : Role(h, a) = "-" /\ Role(h, a)' = "-"
  BY <1>1 DEF Role, TaskRole, RolePc
<1>3. \A a \in Asg : Still(a)
  BY <1>1, <1>2 DEF Still, OthersKeep, SavePc
<1>4. StepOf(h) /\ NoNewCleanup
  BY <1>1, <1>3 DEF StepOf, NoNewCleanup
<1> QED
  BY <1>4 DEF Advance

\* Events that are not about assignments.
LEMMA ElsewhereNews ==
  ASSUME PlanInvariant, NEW taken, NEW left, TakeAndLeave(taken, left),
         \A e \in taken \cup left : e.channel # "assignments_status_update"
  PROVE  \A a \in Asg : SameNews(a, {})
<1>1. \A a \in Asg, s \in HandledAssignment :
        AssignmentEvent(a, s) \notin taken /\ AssignmentEvent(a, s) \notin left
  BY DEF AssignmentEvent
<1>2. \A a \in Asg, s \in HandledAssignment : News(a, s) \in Nat /\ News(a, s)' = News(a, s)
  BY <1>1, NewsStep
<1> QED
  BY <1>2 DEF SameNews

\* A statement about the mission.
LEMMA MissionNews ==
  ASSUME PlanInvariant, NEW s, NEW allowed, NEW taken,
         \A e \in taken : e.channel = "work_processes_update",
         SetMission(s, taken) \/ SetMissionWhere(allowed, s, taken)
  PROVE  \A a \in Asg : SameNews(a, {})
<1>1. PICK left : TakeAndLeave(taken, left) /\ left \subseteq {MissionEvent(s)}
  <2>1. CASE SetMission(s, taken)
    BY <2>1 DEF SetMission
  <2>2. CASE SetMissionWhere(allowed, s, taken) /\ ~SetMission(s, taken)
    BY <2>2 DEF SetMissionWhere
  <2> QED
    BY <2>1, <2>2
<1>2. \A e \in taken \cup left : e.channel # "assignments_status_update"
  BY <1>1 DEF MissionEvent
<1> QED
  BY <1>1, <1>2, ElsewhereNews

\* Tables and agents that are left alone.
LEMMA SameTables ==
  /\ UNCHANGED field => done \subseteq done' /\ \A a : SameField(a)
  /\ UNCHANGED assignments => \A a : SameRow(a)
  /\ UNCHANGED events_queue => \A a : SameNews(a, {})
BY DEF field, SameField, SameRow, Status, SameNews, News

\* Orders, the notes about them, and what the agents have reported.
LEMMA OrderingAdvances ==
  ASSUME PlanInvariant, AgentsReportEnds, NEW h \in Handler, Ordering(h)
  PROVE  Advance
<1>1. TaskPermitted(handler[h], done)
  BY InvariantOf
<1>2. handler[h].pc \in {"order", "orderFailed", "markExecuting", "saveReport", "saveReportWhere", "markCanceled"}
  BY DEF Ordering, SendOrder, OrderFails, SaveOrderFailure, MarkExecuting, SaveReport,
     SaveReportWhere,
         MarkCanceled, IsAt
<1>3. PICK r \in Asg : r = handler[h].row
  BY <1>1, <1>2 DEF TaskPermitted, AssignmentPc
<1>4. Role(h, r) = handler[h].pc
  BY <1>2, <1>3 DEF Role, TaskRole, OrderPc, SavePc
<1>5. /\ \A t : t.pc \in RolePc /\ t.row = r => TaskRole(t, r) = t.pc
      /\ TaskRole(Idle, r) = "-"
  BY DEF TaskRole, Idle, RolePc, OrderPc, SavePc, WrapPc
<1>6. \A pc, val : At(pc, r, val).pc = pc /\ At(pc, r, val).row = r
  BY DEF At
<1>7. Idle.pc = "idle"
  BY DEF Idle
<1>8. CASE SendOrder(h)
  <2> DEFINE t == At("markExecuting", r, "-")
  <2>1. Becomes(h, t)
    BY <1>3, <1>8 DEF SendOrder
  <2>2. \A a \in Asg : (a # r => SameField(a)) /\ SameRow(a) /\ SameNews(a, {})
    BY <1>3, <1>8, SameTables DEF SendOrder, SameField, PlanInvariant, TypeOK
  <2>3. /\ sent'[r] = sent[r] + 1 /\ agent'[r] = "working" /\ done' = done
        /\ handler[h].pc = "order"
    BY <1>3, <1>8 DEF SendOrder, PlanInvariant, TypeOK, IsAt
  <2>4. Role(h, r)' = "markExecuting"
    BY <1>5, <1>6, <2>1, OthersKeepTheirs DEF Role, RolePc
  <2>5. Ordered(r, h)
    BY <1>3, <1>4, <2>2, <2>3, <2>4 DEF Ordered, Turns
  <2> QED
    BY <1>3, <1>6, <2>1, <2>2, <2>3, <2>5, OneAdvances DEF Moves, RolePc
<1>9. CASE OrderFails(h)
  <2> DEFINE t == At("orderFailed", r, "-")
  <2>1. Becomes(h, t) /\ handler[h].pc = "order"
    BY <1>3, <1>9 DEF OrderFails, IsAt
  <2>2. done \subseteq done' /\ \A a \in Asg : SameField(a) /\ SameRow(a) /\ SameNews(a, {})
    BY <1>3, <1>9, SameTables DEF OrderFails
  <2>3. Role(h, r)' = "orderFailed"
    BY <1>5, <1>6, <2>1, OthersKeepTheirs DEF Role, RolePc, OrderPc
  <2>4. Lost(r, h)
    BY <1>3, <1>4, <2>1, <2>2, <2>3 DEF Lost, Turns
  <2> QED
    BY <1>3, <1>6, <2>1, <2>2, <2>4, OneAdvances DEF Moves, RolePc, OrderPc
<1>10. CASE SaveOrderFailure(h)
  <2> DEFINE t == At("markExecuting", r, "-")
  <2>1. Becomes(h, t) /\ handler[h].pc = "orderFailed" /\ SetAssignments({r}, "failed", {})
    BY <1>3, <1>10 DEF SaveOrderFailure, IsAt
  <2>2. done \subseteq done' /\ \A a \in Asg : SameField(a)
    BY <1>3, <1>10, SameTables DEF SaveOrderFailure
  <2>3. /\ Status(r)' = "failed" /\ SameNews(r, {"failed"})
        /\ \A a \in Asg \ {r} : SameRow(a) /\ SameNews(a, {})
    BY <1>3, <2>1, RowWritten
  <2>4. Role(h, r)' = "markExecuting"
    BY <1>5, <1>6, <2>1, OthersKeepTheirs DEF Role, RolePc
  <2>5. LossSaved(r, h)
    BY <1>3, <1>4, <2>1, <2>2, <2>3, <2>4 DEF LossSaved, Turns, SameNews, OtherEnds
  <2> QED
    BY <1>3, <1>6, <2>1, <2>2, <2>3, <2>5, OneAdvances DEF Moves, RolePc, OrderPc
<1>11. CASE MarkExecuting(h)
  <2>1. Becomes(h, Idle) /\ handler[h].pc = "markExecuting" /\ SetAssignments({r}, "executing", {})
    BY <1>3, <1>11 DEF MarkExecuting, IsAt
  <2>2. done \subseteq done' /\ \A a \in Asg : SameField(a)
    BY <1>3, <1>11, SameTables DEF MarkExecuting
  <2>3. /\ Status(r)' = "executing" /\ SameNews(r, {})
        /\ \A a \in Asg \ {r} : SameRow(a) /\ SameNews(a, {})
    BY <1>3, <2>1, RowWritten DEF HandledAssignment
  <2>4. Role(h, r)' = "-"
    BY <2>1, IdleRole
  <2>5. Noted(r, h)
    BY <1>3, <1>4, <2>1, <2>2, <2>3, <2>4 DEF Noted, Turns
  <2> QED
    BY <1>3, <1>7, <2>1, <2>2, <2>3, <2>5, OneAdvances DEF Moves, RolePc, OrderPc,
       SavePc, WrapPc
<1>12. CASE MarkCanceled(h)
  <2>1. Becomes(h, Idle) /\ handler[h].pc = "markCanceled" /\ SetAssignments({r}, "canceled", {})
    BY <1>3, <1>12 DEF MarkCanceled, IsAt
  <2>2. done \subseteq done' /\ \A a \in Asg : SameField(a)
    BY <1>3, <1>12, SameTables DEF MarkCanceled
  <2>3. /\ Status(r)' = "canceled" /\ SameNews(r, {"canceled"})
        /\ \A a \in Asg \ {r} : SameRow(a) /\ SameNews(a, {})
    BY <1>3, <2>1, RowWritten
  <2>4. Role(h, r)' = "-"
    BY <2>1, IdleRole
  <2>5. Canceled(r, h)
    BY <1>3, <1>4, <2>1, <2>2, <2>3, <2>4 DEF Canceled, Turns
  <2> QED
    BY <1>3, <1>7, <2>1, <2>2, <2>3, <2>5, OneAdvances DEF Moves, RolePc, OrderPc,
       SavePc, WrapPc
<1>13. CASE SaveReport(h) \/ SaveReportWhere(h)
  <2>1. /\ Becomes(h, Idle) /\ handler[h].pc \in SavePc
        /\ handler[h].val \in Reports
    BY <1>1, <1>13 DEF SaveReport, SaveReportWhere, IsAt, TaskPermitted, SavePc
  <2>2. PICK s \in Reports : s = handler[h].val
    BY <2>1
  <2>3. PICK rows \in SUBSET Asg : rows \subseteq {r} /\ SetAssignments(rows, s, {})
    <3>1. PICK rows \in SUBSET {r} : SetAssignments(rows, s, {})
      BY <1>3, <1>13, <2>2 DEF SaveReport, SaveReportWhere
    <3> QED
      BY <1>3, <3>1
  <2>4. done \subseteq done' /\ \A a \in Asg : SameField(a)
    BY <1>3, <1>13, SameTables DEF SaveReport, SaveReportWhere
  <2>5. s \in HandledAssignment
    BY AssignmentAssumption DEF HandledAssignment, AgentsReportEnds, AfterDispatch
  <2>6. \A a \in Asg \ rows : SameRow(a) /\ SameNews(a, {})
    BY <1>3, <2>3, WrittenNews
  <2>7. r \in rows => /\ Status(r)' = s /\ SameNews(r, {s})
                      /\ News(r, s)' \in {News(r, s), News(r, s) + 1}
    BY <1>3, <2>3, <2>5, WrittenNews
  <2>8. Role(h, r)' = "-"
    BY <2>1, IdleRole
  <2>9. Saved(r, h)
    BY <1>3, <1>4, <2>1, <2>2, <2>4, <2>6, <2>7, <2>8 DEF Saved
  <2> QED
    BY <1>3, <1>7, <2>1, <2>3, <2>4, <2>6, <2>9, OneAdvances DEF Moves, RolePc,
       OrderPc, SavePc, WrapPc
<1> QED
  BY <1>3, <1>8, <1>9, <1>10, <1>11, <1>12, <1>13 DEF Ordering

\* The agent reports.
LEMMA ReportAdvances ==
  ASSUME PlanInvariant, AgentsReportEnds, OneStart, NEW h \in Handler, NEW a \in Asg,
         AgentReports(h, a)
  PROVE  Advance
<1>1. PICK s \in Reports :
        /\ IsAt(h, "idle") /\ agent[a] \in {"working", "stopping"}
        /\ QuickAgents \/ \A g \in Handler : ~(IsAt(g, "markExecuting") /\ handler[g].row = a)
        /\ agent' = [agent EXCEPT ![a] = IF s \in AfterDispatch THEN @ ELSE "over"]
        /\ done' = IF s = "succeeded" THEN done \cup {a} ELSE done
        /\ \/ Becomes(h, Idle) \/ Becomes(h, At("saveReport", a, s))
           \/ Becomes(h, At("saveReportWhere", a, s))
        /\ UNCHANGED <<mission, service_requests, assignments, events_queue, released, sent>>
  BY DEF AgentReports
<1>2. PICK t : /\ Becomes(h, t)
               /\ t \in {Idle, At("saveReport", a, s), At("saveReportWhere", a, s)}
  BY <1>1
<1>3. t.pc \in {"idle", "saveReport", "saveReportWhere"} /\ (t.pc # "idle" => t.row = a /\ t.val = s)
  BY <1>2 DEF Idle, At
<1>4. handler'[h] = t
  BY <1>2, OthersKeepTheirs
<1>5. /\ agent'[a] = "over" /\ sent' = sent /\ done \subseteq done'
      /\ \A b \in Asg \ {a} : SameField(b)
  BY <1>1 DEF AgentsReportEnds, AfterDispatch, PlanInvariant, TypeOK, SameField
<1>6. \A b \in Asg : SameRow(b) /\ SameNews(b, {})
  BY <1>1, SameTables
<1>7. Nobody({"markExecuting"}, a)
  BY <1>1 DEF AgentsReportEnds, Nobody, Role, TaskRole, IsAt
<1>8. Role(h, a) = "-"
  BY <1>1 DEF Role, TaskRole, IsAt, OrderPc, SavePc, WrapPc
<1>9. Role(h, a)' = "-" \/ (Role(h, a)' \in SavePc /\ handler'[h].val = s)
  BY <1>3, <1>4 DEF Role, TaskRole, OrderPc, SavePc, WrapPc
<1>10. s = "succeeded" <=> a \in done'
  BY <1>1 DEF OneStart, Own, Plain
<1>11. Reported(a, h)
  BY <1>1, <1>5, <1>6, <1>7, <1>8, <1>9, <1>10 DEF Reported
<1> QED
  BY <1>1, <1>2, <1>3, <1>5, <1>6, <1>11, OneAdvances DEF Moves, RolePc, OrderPc,
     SavePc, WrapPc, IsAt

\* An event about an assignment is handled.
LEMMA HandleAdvances ==
  ASSUME PlanInvariant, NEW h \in Handler, Handle(h)
  PROVE  Advance
<1>1. PICK a \in Asg : \/ HandleToDispatch(h, a) \/ HandleSucceeded(h, a) \/ HandleCanceled(h, a)
                       \/ HandleAssignmentCanceling(h, a) \/ HandleAssignmentFailure(h, a)
  BY DEF Handle
<1>2. handler[h].pc = "idle"
  BY <1>1 DEF HandleToDispatch, HandleSucceeded, HandleCanceled,
     HandleAssignmentCanceling,
              HandleAssignmentFailure, Starts, IsAt
<1>3. Role(h, a) = "-"
  BY <1>2 DEF Role, TaskRole, OrderPc, SavePc, WrapPc
<1>4. \A pc, val : /\ At(pc, a, val).pc = pc /\ At(pc, a, val).row = a
                   /\ pc # "activate" => TaskRole(At(pc, a, val), a) = IF pc \in RolePc THEN pc ELSE "-"
  BY DEF At, TaskRole, RolePc
<1>5. CASE HandleToDispatch(h, a)
  <2>1. /\ Becomes(h, At("order", a, "-"))
        /\ Queued(AssignmentEvent(a, "to_dispatch"))
        /\ TakeAndLeave({AssignmentEvent(a, "to_dispatch")}, {})
    BY <1>5 DEF HandleToDispatch, Starts
  <2>2. done \subseteq done' /\ \A b \in Asg : SameField(b) /\ SameRow(b)
    BY <1>5, SameTables DEF HandleToDispatch
  <2>3. /\ News(a, "to_dispatch") > 0 /\ News(a, "to_dispatch")' = News(a, "to_dispatch") - 1
        /\ SameNews(a, {"to_dispatch"}) /\ \A b \in Asg \ {a} : SameNews(b, {})
    BY <2>1, TakenNews DEF HandledAssignment
  <2>4. Role(h, a)' = "order"
    BY <1>4, <2>1, OthersKeepTheirs DEF Role, RolePc, OrderPc
  <2>5. Taken(a, h)
    BY <1>3, <2>2, <2>3, <2>4 DEF Taken, Turns
  <2> QED
    BY <1>2, <1>4, <2>1, <2>2, <2>3, <2>5, OneAdvances DEF Moves, RolePc, OrderPc,
       SavePc, WrapPc
<1>6. CASE HandleSucceeded(h, a)
  <2>1. /\ Becomes(h, At("checkServices", a, "-"))
        /\ Queued(AssignmentEvent(a, "succeeded"))
        /\ SetAssignments({a}, "completed", {AssignmentEvent(a, "succeeded")})
    BY <1>6 DEF HandleSucceeded, Starts
  <2>2. done \subseteq done' /\ \A b \in Asg : SameField(b)
    BY <1>6, SameTables DEF HandleSucceeded
  <2> DEFINE left == {AssignmentEvent(b, "completed") : b \in {c \in {a} : assignments[c] # "completed"}}
  <2>3. TakeAndLeave({AssignmentEvent(a, "succeeded")}, left)
    BY <2>1 DEF SetAssignments
  <2>4. \A b \in Asg, u \in HandledAssignment :
          AssignmentEvent(b, u) \notin left
    BY OneEvent DEF HandledAssignment
  <2> HIDE DEF left
  <2>5. \A b \in Asg, u \in HandledAssignment :
          AssignmentEvent(b, u) \in {AssignmentEvent(a, "succeeded")} <=> b = a /\ u = "succeeded"
    BY OneEvent
  <2>6. \A b \in Asg, u \in HandledAssignment :
          /\ News(b, u) \in Nat
          /\ News(b, u)' = IF b = a /\ u = "succeeded" THEN News(b, u) - 1 ELSE News(b, u)
    BY <2>3, <2>4, <2>5, NewsStep
  <2>7. /\ News(a, "succeeded") > 0 /\ News(a, "succeeded")' = News(a, "succeeded") - 1
        /\ SameNews(a, {"succeeded"}) /\ \A b \in Asg \ {a} : SameNews(b, {})
    BY <2>1, <2>6 DEF SameNews, HandledAssignment, Queued, News
  <2>8. Status(a)' = "completed" /\ \A b \in Asg \ {a} : SameRow(b)
    BY <2>1 DEF SetAssignments, Status, SameRow
  <2>9. Role(h, a)' = "checkServices"
    BY <1>4, <2>1, OthersKeepTheirs DEF Role, RolePc, WrapPc
  <2>10. SuccessTaken(a, h)
    BY <1>3, <2>2, <2>7, <2>8, <2>9 DEF SuccessTaken, Turns
  <2> QED
    BY <1>2, <1>4, <2>1, <2>2, <2>7, <2>8, <2>10, OneAdvances DEF Moves, RolePc,
       OrderPc, SavePc, WrapPc
<1>7. CASE HandleCanceled(h, a) \/ HandleAssignmentFailure(h, a)
  <2>1. PICK s \in OtherEnds, pc \in {"checkServices", "failMission"} :
          /\ Becomes(h, At(pc, a, "-"))
          /\ Queued(AssignmentEvent(a, s)) /\ TakeAndLeave({AssignmentEvent(a, s)}, {})
    BY <1>7 DEF HandleCanceled, HandleAssignmentFailure, Starts, OtherEnds
  <2>2. done \subseteq done' /\ \A b \in Asg : SameField(b) /\ SameRow(b)
    BY <1>7, SameTables DEF HandleCanceled, HandleAssignmentFailure
  <2>3. /\ News(a, s) > 0 /\ News(a, s)' = News(a, s) - 1
        /\ SameNews(a, {s}) /\ \A b \in Asg \ {a} : SameNews(b, {})
    BY <2>1, TakenNews DEF HandledAssignment, OtherEnds
  <2>4. Role(h, a)' \in {"-", "checkServices"}
    <3>1. TaskRole(At(pc, a, "-"), a) \in {"-", "checkServices"}
      BY <1>4, <2>1 DEF RolePc, OrderPc, SavePc, WrapPc
    <3> QED
      BY <2>1, <3>1, OthersKeepTheirs DEF Role
  <2>5. EndTaken(a, h)
    BY <1>3, <2>2, <2>3, <2>4 DEF EndTaken
  <2> QED
    BY <1>2, <1>4, <2>1, <2>2, <2>3, <2>5, OneAdvances DEF Moves, RolePc, OrderPc,
       SavePc, WrapPc
<1>8. CASE HandleAssignmentCanceling(h, a)
  <2>1. /\ Becomes(h, At("markCanceled", a, "-"))
        /\ Queued(AssignmentEvent(a, "canceling"))
        /\ TakeAndLeave({AssignmentEvent(a, "canceling")}, {})
        /\ agent' = [agent EXCEPT ![a] = IF @ = "working" THEN "stopping" ELSE @]
        /\ UNCHANGED <<assignments, sent, done>>
    BY <1>8 DEF HandleAssignmentCanceling, Starts
  <2>2. /\ done \subseteq done' /\ \A b \in Asg : SameRow(b)
        /\ \A b \in Asg \ {a} : SameField(b)
        /\ agent'[a] = IF agent[a] = "working" THEN "stopping" ELSE agent[a]
    BY <2>1 DEF SameField, SameRow, Status, PlanInvariant, TypeOK
  <2>3. /\ News(a, "canceling") > 0 /\ News(a, "canceling")' = News(a, "canceling") - 1
        /\ SameNews(a, {"canceling"}) /\ \A b \in Asg \ {a} : SameNews(b, {})
    BY <2>1, TakenNews DEF HandledAssignment
  <2>4. Role(h, a)' = "markCanceled"
    BY <1>4, <2>1, OthersKeepTheirs DEF Role, RolePc
  <2>5. StopTaken(a, h)
    BY <1>3, <2>1, <2>2, <2>3, <2>4 DEF StopTaken, Turns
  <2> QED
    BY <1>2, <1>4, <2>1, <2>2, <2>3, <2>5, OneAdvances DEF Moves, RolePc, OrderPc,
       SavePc, WrapPc
<1> QED
  BY <1>1, <1>5, <1>6, <1>7, <1>8

\* The wrap-up of an assignment: the last of its statements lists what is
\* next, and the rows of the list are written one by one.
LEMMA WrappingUpAdvances ==
  ASSUME PlanOfOne, PlanInvariant, OneStart, NEW h \in Handler, WrappingUp(h)
  PROVE  Advance
<1>1. handler[h] \in Task /\ TaskPermitted(handler[h], done)
  BY InvariantOf
<1>2. PICK p \in Asg : p = handler[h].row
  BY <1>1 DEF WrappingUp, CheckServices, CheckAssignments, CompleteMission,
     FailMission, ListNextAssignments,
              Unblock, ActivateAssignment, IsAt, TaskPermitted, AssignmentPc
<1>3. \A pc, val : /\ At(pc, p, val).pc = pc /\ At(pc, p, val).row = p
                   /\ pc # "activate" => TaskRole(At(pc, p, val), p) = IF pc \in RolePc THEN pc ELSE "-"
  BY DEF At, TaskRole, RolePc
<1>4. CASE CheckServices(h) \/ CheckAssignments(h) \/ CompleteMission(h)
  <2>1. PICK pc \in WrapPc : Becomes(h, At(pc, p, "-"))
    BY <1>2, <1>4 DEF CheckServices, CheckAssignments, CompleteMission, WrapPc
  <2>2. handler[h].pc \in WrapPc
    BY <1>4 DEF CheckServices, CheckAssignments, CompleteMission, WrapPc, IsAt
  <2>3. done \subseteq done' /\ \A b \in Asg : SameField(b) /\ SameRow(b)
    BY <1>4, SameTables DEF CheckServices, CheckAssignments, CompleteMission
  <2>4. \A b \in Asg : SameNews(b, {})
    BY <1>4, SameTables, MissionNews DEF CheckServices, CheckAssignments,
       CompleteMission
  <2>5. Role(h, p) \in WrapPc /\ Role(h, p)' \in WrapPc
    BY <1>2, <1>3, <2>1, <2>2, OthersKeepTheirs DEF Role, TaskRole, RolePc, WrapPc
  <2>6. WrappedOn(p, h)
    BY <2>3, <2>4, <2>5 DEF WrappedOn
  <2> QED
    BY <1>2, <1>3, <2>1, <2>2, <2>3, <2>4, <2>6, OneAdvances DEF Moves, RolePc, WrapPc
<1>5. CASE FailMission(h)
  <2>1. done \subseteq done' /\ \A b \in Asg : SameField(b) /\ SameRow(b)
    BY <1>5, SameTables DEF FailMission
  <2>2. \A b \in Asg : SameNews(b, {})
    BY <1>5, MissionNews DEF FailMission
  <2> QED
    BY <1>5, <2>1, <2>2, NoneAdvances DEF FailMission, IsAt, Idle, RolePc, OrderPc,
       SavePc, WrapPc
<1>6. CASE Unblock(h)
  <2>1. Becomes(h, Idle) /\ handler[h].pc = "unblock" /\ Permitted(p, done)
    BY <1>1, <1>2, <1>6 DEF Unblock, IsAt, TaskPermitted
  <2>2. done \subseteq done' /\ \A b \in Asg : SameField(b)
    BY <1>6, SameTables DEF Unblock
  <2>3. SetAssignments({b \in {p} : assignments[b] = "wait_dependencies"}, "to_dispatch", {})
    BY <1>2, <1>6 DEF Unblock
  <2>4. Role(h, p) = "-" /\ Role(h, p)' = "-"
    BY <2>1, IdleRole DEF Role, TaskRole, OrderPc, SavePc, WrapPc
  <2>5. CASE Status(p) = "wait_dependencies"
    <3>1. {b \in {p} : assignments[b] = "wait_dependencies"} = {p}
      BY <2>5 DEF Status
    <3>2. SetAssignments({p}, "to_dispatch", {}) /\ {p} \in SUBSET Asg
      BY <2>3, <3>1
    <3>3. Status(p)' = "to_dispatch" /\ SameNews(p, {"to_dispatch"})
          /\ \A a \in Asg \ {p} : SameRow(a) /\ SameNews(a, {})
      BY <3>2, RowWritten
    <3>4. News(p, "to_dispatch")' = News(p, "to_dispatch") + 1
      BY <2>5, <3>2, WrittenNews DEF HandledAssignment
    <3>5. Freed(p, h)
      BY <2>1, <2>2, <2>4, <2>5, <3>3, <3>4 DEF Freed, Turns
    <3> QED
      BY <2>1, <2>2, <3>3, <3>5, OneAdvances DEF Moves, RolePc, OrderPc, SavePc,
         WrapPc, Idle
  <2>6. CASE Status(p) # "wait_dependencies"
    <3>1. {b \in {p} : assignments[b] = "wait_dependencies"} = {}
      BY <2>6 DEF Status
    <3>2. SetAssignments({}, "to_dispatch", {}) /\ {} \in SUBSET Asg
      BY <2>3, <3>1
    <3>3. \A a \in Asg : SameRow(a) /\ SameNews(a, {})
      BY <3>2, WrittenNews
    <3> QED
      BY <2>1, <2>2, <3>3, NoneAdvances DEF RolePc, OrderPc, SavePc, WrapPc, Idle
  <2> QED
    BY <2>5, <2>6
<1>7. CASE ListNextAssignments(h)
  <2> DEFINE next == {b \in NextAsg[p] : assignments[b] # "canceled"}
             mark(b) == IF DependsAsg[b] = {} THEN "to_dispatch" ELSE "wait_dependencies"
             todo == [x \in Row |-> IF x \in next THEN mark(x) ELSE "-"]
             t == IF next = {} THEN Idle ELSE [At("activate", p, "-") EXCEPT !.todo = todo]
  <2>1. Becomes(h, t) /\ handler[h].pc = "listNextAssignments"
    BY <1>2, <1>7 DEF ListNextAssignments, IsAt
  <2>2. /\ done \subseteq done'
        /\ \A b \in Asg : SameField(b) /\ SameRow(b) /\ SameNews(b, {})
    BY <1>7, SameTables DEF ListNextAssignments
  <2>3. next \subseteq Asg /\ p \notin next /\ \A b \in next : mark(b) = "wait_dependencies"
    BY NextAreAssignments DEF PlanOfOne
  <2>4. \A a \in Asg : TaskRole(t, a) = IF a \in next THEN "mark" ELSE "-"
    <3>1. CASE next = {}
      BY <3>1 DEF TaskRole, Idle, OrderPc, SavePc, WrapPc
    <3>2. CASE next # {}
      <4>1. t.pc = "activate" /\ t.todo = todo
        BY <3>2 DEF At
      <4>2. \A a \in Asg : t.todo[a] # "-" <=> a \in next
        BY <2>3, <4>1 DEF Row
      <4> HIDE DEF t
      <4> QED
        BY <4>1, <4>2 DEF TaskRole
    <3> QED
      BY <3>1, <3>2
  <2>5. \A a \in next : t.todo[a] = "wait_dependencies"
    <3>1. next # {} => t.todo = todo
      BY DEF At
    <3>2. \A a \in next : todo[a] = "wait_dependencies"
      BY <2>3 DEF Row
    <3> QED
      BY <3>1, <3>2
  <2>6. t.pc \in {"idle", "activate"}
    BY DEF Idle, At
  <2> HIDE DEF t
  <2>7. handler'[h] = t /\ (\A a : OthersKeep(h, a)) /\ \A g \in Handler \ {h} : handler'[g] = handler[g]
    BY <2>1, OthersKeepTheirs
  <2>8. \A a \in Asg : Role(h, a) = IF a = p THEN "listNextAssignments" ELSE "-"
    BY <1>2, <2>1 DEF Role, TaskRole, WrapPc
  <2>9. \A a \in Asg : Role(h, a)' = IF a \in next THEN "mark" ELSE "-"
    BY <2>4, <2>7 DEF Role
  <2>10. Listed(p, h)
    BY <2>2, <2>3, <2>8, <2>9 DEF Listed, Turns
  <2>11. ASSUME NEW a \in Asg
         PROVE  \/ Still(a)
                \/ OthersKeep(h, a) /\ Moves(a, h)
                \/ \E q \in Asg : Follows(a, q, h)
    <3>1. CASE a = p
      BY <2>7, <2>10, <3>1 DEF Moves
    <3>2. CASE a \in next
      <4>1. /\ a \in NextAsg[p] /\ Status(a) # "canceled" /\ a # p
            /\ handler'[h].todo[a] = "wait_dependencies"
        BY <2>3, <2>5, <2>7, <3>2 DEF Status
      <4>2. Marked(a, p, h)
        BY <2>2, <2>8, <2>9, <3>2, <4>1 DEF Marked, Turns
      <4> QED
        BY <2>7, <2>10, <4>2 DEF Follows
    <3>3. CASE a # p /\ a \notin next
      <4>1. Role(h, a) = "-" /\ Role(h, a)' = "-"
        BY <2>8, <2>9, <3>3
      <4>2. Still(a)
        BY <2>2, <2>7, <4>1 DEF Still, OthersKeep, SavePc
      <4> QED
        BY <4>2
    <3> QED
      BY <3>1, <3>2, <3>3
  <2>12. StepOf(h) /\ NoNewCleanup
    BY <2>6, <2>7, <2>11 DEF StepOf, NoNewCleanup
  <2> QED
    BY <2>2, <2>12 DEF Advance
<1>8. ASSUME NEW b \in Asg, ActivateAssignment(h, b)
      PROVE  Advance
  <2>1. handler[h].pc = "activate" /\ handler[h].todo[b] # "-" /\ DoneWith(h, b, Idle)
    BY <1>8 DEF ActivateAssignment, IsAt
  <2>2. \A a \in Asg : Role(h, a) = IF handler[h].todo[a] # "-" THEN "mark" ELSE "-"
    BY <2>1 DEF Role, TaskRole
  <2>3. handler[h].todo[b] = "wait_dependencies"
    BY <2>1, <2>2 DEF OneStart, Own, Plain
  <2>4. SetAssignments({b}, "wait_dependencies", {})
    BY <1>8, <2>3 DEF ActivateAssignment
  <2>5. /\ Status(b)' = "wait_dependencies" /\ SameNews(b, {})
        /\ \A a \in Asg \ {b} : SameRow(a) /\ SameNews(a, {})
    BY <2>4, RowWritten DEF HandledAssignment
  <2>6. done \subseteq done' /\ \A a \in Asg : SameField(a)
    BY <1>8, SameTables DEF ActivateAssignment
  <2>7. PICK t : /\ Becomes(h, t)
                 /\ t = IF Todo(h) \subseteq {b} THEN Idle ELSE [handler[h] EXCEPT !.todo[b] = "-"]
    BY <2>1 DEF DoneWith
  <2>8. handler'[h] = t /\ (\A a : OthersKeep(h, a)) /\ \A g \in Handler \ {h} : handler'[g] = handler[g]
    BY <2>7, OthersKeepTheirs
  <2>9. /\ t.pc \in {"idle", "activate"}
        /\ TaskRole(t, b) = "-"
        /\ \A a \in Asg \ {b} : /\ TaskRole(t, a) = Role(h, a)
                                /\ Role(h, a) = "mark" => t.todo[a] = handler[h].todo[a]
    <3>1. CASE Todo(h) \subseteq {b}
      <4>1. t = Idle
        BY <2>7, <3>1
      <4>2. \A a : TaskRole(Idle, a) = "-"
        BY DEF TaskRole, Idle, OrderPc, SavePc, WrapPc
      <4>3. \A a \in Asg \ {b} : handler[h].todo[a] = "-"
        BY <3>1 DEF Todo, Row
      <4> QED
        BY <2>2, <4>1, <4>2, <4>3 DEF Idle
    <3>2. CASE ~(Todo(h) \subseteq {b})
      <4>1. t = [handler[h] EXCEPT !.todo[b] = "-"]
        BY <2>7, <3>2
      <4>2. handler[h].todo \in [Row -> Mark]
        BY <1>1 DEF Task
      <4>3. /\ t.pc = "activate" /\ t.todo[b] = "-"
            /\ \A a \in Asg \ {b} : t.todo[a] = handler[h].todo[a]
        BY <1>1, <2>1, <4>1, <4>2 DEF Task, Row
      <4> QED
        BY <2>2, <4>3 DEF TaskRole
    <3> QED
      BY <3>1, <3>2
  <2>10. Activated(b, h)
    BY <2>1, <2>2, <2>5, <2>6, <2>8, <2>9 DEF Activated, Turns, Role
  <2>11. ASSUME NEW a \in Asg \ {b}
         PROVE  Still(a)
    <3>1. Role(h, a)' = Role(h, a) /\ Role(h, a) \in {"mark", "-"}
      BY <2>2, <2>8, <2>9 DEF Role
    <3>2. Role(h, a) = "mark" => handler'[h].todo[a] = handler[h].todo[a]
      BY <2>8, <2>9
    <3> QED
      BY <2>5, <2>6, <2>8, <3>1, <3>2 DEF Still, OthersKeep, SavePc
  <2>12. StepOf(h) /\ NoNewCleanup
    BY <2>8, <2>9, <2>10, <2>11 DEF StepOf, NoNewCleanup, Moves
  <2> QED
    BY <2>6, <2>12 DEF Advance
<1> QED
  BY <1>4, <1>5, <1>6, <1>7, <1>8 DEF WrappingUp

\* The watcher only decides.
LEMMA WatchAdvances ==
  ASSUME PlanInvariant, NEW h \in Handler, Watch(h)
  PROVE  Advance
<1>1. PICK b \in Asg : FindUnblocked(h, b)
  BY DEF Watch
<1>2. done \subseteq done' /\ \A a \in Asg : SameField(a) /\ SameRow(a) /\ SameNews(a, {})
  BY <1>1, SameTables DEF FindUnblocked
<1> QED
  BY <1>1, <1>2, NoneAdvances DEF FindUnblocked, IsAt, At, RolePc, OrderPc, SavePc,
     WrapPc

\* What a computation of the mission does about assignments: nothing.
LEMMA WorkRoles ==
  ASSUME PlanInvariant, NEW h \in Handler, NEW t, Becomes(h, t),
         handler[h].pc \in WorkProcessPc, t.pc \in WorkProcessPc
  PROVE  \A a \in Asg : /\ \A g \in Handler : Role(g, a)' = Role(g, a)
                        /\ \A g \in Handler : /\ Role(g, a) \in SavePc => handler'[g].val = handler[g].val
                                              /\ Role(g, a) = "mark" => handler'[g].todo[a] = handler[g].todo[a]
<1>1. handler'[h] = t /\ \A g \in Handler \ {h} : handler'[g] = handler[g]
  BY OthersKeepTheirs
<1>2. \A a : Role(h, a) = "-" /\ Role(h, a)' = "-"
  BY <1>1 DEF Role, TaskRole, WorkProcessPc, OrderPc, SavePc, WrapPc
<1> QED
  BY <1>1, <1>2 DEF Role, SavePc

\* The end of the mission, with its two cleanups of assignments.
LEMMA MissionEndsAdvances ==
  ASSUME PlanInvariant, NEW h \in Handler, MissionEnds(h)
  PROVE  Advance
<1>1. done \subseteq done' /\ \A a \in Asg : SameField(a)
  BY SameTables DEF MissionEnds
<1>2. CASE CancelWaitingAssignments(h)
  <2>1. /\ SetAssignments(AssignmentsIn(BeforeDispatch), "canceled", {})
        /\ handler[h].pc = "cancelWaitingAssignments" /\ handler[h].pc \in WorkProcessPc
    BY <1>2 DEF CancelWaitingAssignments, IsAt, WorkProcessPc
  <2>2. PICK t : Becomes(h, t) /\ t.pc \in WorkProcessPc
    BY <1>2 DEF CancelWaitingAssignments, WorkProcessPc, At
  <2>3. \A a \in Asg : /\ \A g \in Handler : Role(g, a)' = Role(g, a)
                       /\ \A g \in Handler : /\ Role(g, a) \in SavePc => handler'[g].val = handler[g].val
                                             /\ Role(g, a) = "mark" => handler'[g].todo[a] = handler[g].todo[a]
    BY <2>1, <2>2, WorkRoles
  <2>4. PICK rows \in SUBSET Asg : rows = AssignmentsIn(BeforeDispatch)
    BY DEF AssignmentsIn
  <2>5. \A a \in Asg : /\ a \in rows <=> Status(a) \in BeforeDispatch
                       /\ a \in rows => Status(a)' = "canceled"
                       /\ a \notin rows => SameRow(a) /\ SameNews(a, {})
                       /\ SameNews(a, {"canceled"})
    BY <2>1, <2>4, WrittenNews DEF AssignmentsIn, Status
  <2>6. Drops
    BY <1>1, <2>1, <2>3, <2>5 DEF Drops, Dropped, Still
  <2> QED
    BY <1>1, <2>6 DEF Advance
<1>3. CASE CancelRunningAssignments(h)
  <2>1. /\ SetAssignments(AssignmentsIn(AfterDispatch), "canceling", {})
        /\ handler[h].pc = "cancelRunningAssignments"
    BY <1>3 DEF CancelRunningAssignments, IsAt
  <2>2. PICK t : Becomes(h, t) /\ t.pc = "onWorkProcessEnd"
    BY <1>3 DEF CancelRunningAssignments, At
  <2>3. \A a \in Asg : /\ \A g \in Handler : Role(g, a)' = Role(g, a)
                       /\ \A g \in Handler : /\ Role(g, a) \in SavePc => handler'[g].val = handler[g].val
                                             /\ Role(g, a) = "mark" => handler'[g].todo[a] = handler[g].todo[a]
    BY <2>1, <2>2, WorkRoles DEF WorkProcessPc
  <2>4. PICK rows \in SUBSET Asg : rows = AssignmentsIn(AfterDispatch)
    BY DEF AssignmentsIn
  <2>5. \A a \in Asg : /\ a \in rows <=> Status(a) \in AfterDispatch
                       /\ a \in rows => Status(a)' = "canceling"
                       /\ a \notin rows => SameRow(a) /\ SameNews(a, {})
                       /\ SameNews(a, {"canceling"})
    BY <2>1, <2>4, WrittenNews DEF AssignmentsIn, Status
  <2>6. Halts
    BY <1>1, <2>1, <2>3, <2>5 DEF Halts, Halted, Still
  <2>7. NoNewCleanup
    BY <2>2, OthersKeepTheirs DEF NoNewCleanup
  <2> QED
    BY <1>1, <2>6, <2>7 DEF Advance
<1>4. CASE ~CancelWaitingAssignments(h) /\ ~CancelRunningAssignments(h)
  <2>1. assignments' = assignments
    BY <1>4 DEF MissionEnds, WorkProcessHandler, HandleCanceling, HandleFailure,
       HandleCompleted, EndMission,
       CancelRequests, OnWorkProcessEnd
  <2>2. handler[h].pc \in {"idle"} \cup WorkProcessPc
    BY <1>4 DEF MissionEnds, WorkProcessHandler, HandleCanceling, HandleFailure,
       HandleCompleted, EndMission,
       CancelRequests, OnWorkProcessEnd, Starts, IsAt, WorkProcessPc
  <2>3. PICK t : Becomes(h, t) /\ t.pc \in ({"idle"} \cup WorkProcessPc) \ {"cancelRunningAssignments"}
    BY <1>4 DEF MissionEnds, WorkProcessHandler, HandleCanceling, HandleFailure,
       HandleCompleted, EndMission,
       CancelRequests, OnWorkProcessEnd, WorkProcessPc, At, Idle
  <2>4. \A a \in Asg : SameNews(a, {})
    <3>1. CASE HandleCanceling(h) \/ HandleFailure(h) \/ EndMission(h)
      <4>1. \A s : \A e \in {MissionEvent(s)} : e.channel = "work_processes_update"
        BY DEF MissionEvent
      <4>2. CASE HandleCanceling(h)
        BY <4>1, <4>2, MissionNews DEF HandleCanceling
      <4>3. CASE HandleFailure(h)
        BY <4>1, <4>3, MissionNews DEF HandleFailure
      <4>4. CASE EndMission(h)
        <5>1. PICK s : SetMission(s, {})
          BY <4>4 DEF EndMission
        <5> QED
          BY <5>1, MissionNews
      <4> QED
        BY <3>1, <4>2, <4>3, <4>4
    <3>2. CASE HandleCompleted(h)
      BY <3>2, ElsewhereNews DEF HandleCompleted, MissionEvent
    <3>3. CASE CancelRequests(h)
      <4>1. PICK left : TakeAndLeave({}, left) /\ \A e \in left : e.channel = "service_requests_update"
        BY <3>3 DEF CancelRequests, WriteRequests, RequestEvent
      <4> QED
        BY <4>1, ElsewhereNews
    <3>4. CASE OnWorkProcessEnd(h)
      BY <3>4, SameTables DEF OnWorkProcessEnd
    <3> QED
      BY <1>4, <3>1, <3>2, <3>3, <3>4 DEF MissionEnds, WorkProcessHandler
  <2>5. \A a \in Asg : SameField(a) /\ SameRow(a) /\ SameNews(a, {})
    BY <1>1, <2>1, <2>4, SameTables
  <2> QED
    BY <1>1, <2>2, <2>3, <2>5, NoneAdvances DEF RolePc, OrderPc, SavePc, WrapPc,
       WorkProcessPc
<1> QED
  BY <1>2, <1>3, <1>4

\* Computations that stay where they are.
LEMMA NobodyMoves ==
  ASSUME handler' = handler, UNCHANGED field, UNCHANGED assignments,
         \A a \in Asg : SameNews(a, {})
  PROVE  Advance
<1>1. \A a \in Asg : Still(a)
  BY SameTables DEF Still, Role
<1>2. done \subseteq done' /\ NoNewCleanup
  BY DEF field, NoNewCleanup
<1> QED
  BY <1>1, <1>2 DEF Advance, Halts

\* Every step advances.
LEMMA NextAdvances ==
  ASSUME PlanOfOne, AgentsReportEnds, PlanInvariant, OneStart, [Next]_asgVars
  PROVE  Advance
<1>1. ASSUME NEW h \in Handler, Continue(h) \/ Handle(h) \/ Watch(h) \/ MissionEnds(h)
                                  \/ \E a \in Asg : AgentReports(h, a)
      PROVE  Advance
  BY <1>1, OrderingAdvances, WrappingUpAdvances, HandleAdvances, WatchAdvances,
     MissionEndsAdvances,
     ReportAdvances DEF Continue
<1>2. CASE UserCancels /\ UNCHANGED field
  BY <1>2, MissionNews, NobodyMoves DEF UserCancels
<1>3. CASE UNCHANGED asgVars
  BY <1>3, SameTables, NobodyMoves DEF asgVars, wpVars, dbVars, field
<1> QED
  BY <1>1, <1>2, <1>3 DEF Next

\* At first the assignments that depend on none are to be dispatched, and
\* nothing else is on its way.
LEMMA OneStartInit ==
  ASSUME PlanOfOne, Init
  PROVE  OneStart
<1>1. \A a \in Asg, s \in HandledAssignment :
        News(a, s) = IF a \in FirstGroup /\ s = "to_dispatch" THEN 1 ELSE 0
  <2>1. \A a \in Asg, s \in HandledAssignment : AssignmentEvent(a, s) \in Event
    BY DEF Event
  <2>2. \A a \in Asg, s \in HandledAssignment :
          AssignmentEvent(a, s) \in {AssignmentEvent(b, "to_dispatch") : b \in FirstGroup}
            <=> a \in FirstGroup /\ s = "to_dispatch"
    BY OneEvent
  <2> QED
    BY <2>1, <2>2 DEF Init, News
<1>2. \A h \in Handler : handler[h] = Idle
  BY DEF Init
<1>3. \A h \in Handler, a \in Asg : Role(h, a) = "-"
  BY <1>2 DEF Role, TaskRole, Idle, OrderPc, SavePc, WrapPc
<1>4. ASSUME NEW a \in Asg
      PROVE  /\ \A roles : "-" \notin roles => Nobody(roles, a) /\ AtMostOne(roles, a)
             /\ sent[a] = 0 /\ agent[a] = "none" /\ a \notin done
             /\ Status(a) = IF a \in FirstGroup THEN "to_dispatch" ELSE "not_ready_to_dispatch"
  BY <1>3 DEF Nobody, AtMostOne, Init, Status
<1>5. ASSUME NEW a \in Asg
      PROVE  Own(a)
  <2>1. Plain(a)
    BY <1>1, <1>3, <1>4 DEF Plain, HandledAssignment, OrderPc, SavePc
  <2>2. Exclusive(a)
    BY <1>1, <1>4 DEF Exclusive, HandledAssignment, OrderPc
  <2>3. ~Ready(a) => Held(a)
    <3>1. ~Ready(a) => a \notin FirstGroup
      BY DEF Ready, PlanOfOne, FirstGroup
    <3> QED
      BY <1>1, <1>4, <3>1 DEF Held, HandledAssignment, OrderPc, SavePc
  <2> QED
    BY <2>1, <2>2, <2>3 DEF Own
<1>6. ASSUME NEW p \in Asg
      PROVE  Going(p)
  <2>1. ASSUME NEW b \in NextAsg[p]
        PROVE  Untouched(b)
    <3>1. b \in Asg /\ b \notin FirstGroup
      BY NextAreAssignments DEF PlanOfOne, FirstGroup
    <3> QED
      BY <1>1, <1>4, <3>1 DEF Untouched, HandledAssignment, OrderPc
  <2> QED
    BY <1>1, <1>4, <2>1 DEF Going, NotEnded, HandledAssignment, OtherEnds, WrapPc
<1>7. \A a \in Asg : ~Stopped(a)
  BY <1>1, <1>4 DEF Stopped, HandledAssignment
<1>8. \A h \in Handler : handler[h].pc # "cancelRunningAssignments"
  BY <1>2 DEF Idle
<1> QED
  BY <1>5, <1>6, <1>7, <1>8 DEF OneStart

\* Each agent is ordered once to execute an assignment, in plans that give
\* each assignment one before it, in every interleaving of reports, failures,
\* lost orders and cancels, provided that agents report ends only, and after
\* the core has noted that they execute.
THEOREM AgentsOrderedOnce ==
  ASSUME PlanOfOne, AgentsReportEnds
  PROVE  Spec => []SentOnce
<1>1. Init => PlanInvariant /\ OneStart
  BY PlanInit, OneStartInit
<1>2. PlanInvariant /\ OneStart /\ [Next]_asgVars => (PlanInvariant /\ OneStart)'
  BY PlanStep, NextAdvances, AdvanceOnce
<1>3. PlanInvariant /\ OneStart => SentOnce
  BY DEF OneStart, Own, Plain, SentOnce
<1> QED
  BY <1>1, <1>2, <1>3, PTL DEF Spec

\* How a step may change the status of an assignment.
LEMMA StatusAdvances ==
  ASSUME PlanOfOne, AgentsReportEnds, PlanInvariant, OneStart, Advance, NEW a \in Asg
  PROVE  /\ assignments[a] \in {"executing", "active"} =>
              assignments'[a] \notin {"to_dispatch", "wait_dependencies"}
         /\ assignments[a] \in {"succeeded", "completed"} =>
              assignments'[a] \notin {"to_dispatch", "wait_dependencies", "executing", "active"}
<1>1. Plain(a)
  BY DEF OneStart, Own
<1>2. CASE Still(a) \/ Dropped(a) \/ Halted(a)
  BY <1>2 DEF Still, SameRow, Dropped, Halted, BeforeDispatch, AfterDispatch, Status
<1>3. ASSUME NEW h \in Handler, Moves(a, h)
      PROVE  \/ SameRow(a)
             \/ Status(a)' \in {"failed", "completed", "canceled"} \cup Reports
             \/ Status(a)' = "executing" /\ Role(h, a) = "markExecuting"
             \/ Status(a)' = "wait_dependencies" /\ Role(h, a) = "mark"
             \/ Status(a) = "wait_dependencies"
  BY <1>3 DEF Moves, Taken, Ordered, Lost, LossSaved, Noted, Reported, Saved,
     SuccessTaken, EndTaken, StopTaken,
     Canceled, WrappedOn, Listed, Activated, Freed, Turns
<1>4. ASSUME NEW h \in Handler, Moves(a, h)
      PROVE  /\ Status(a) \in {"executing", "active"} => Status(a)' \notin {"to_dispatch", "wait_dependencies"}
             /\ Status(a) \in {"succeeded", "completed"} =>
                  Status(a)' \notin {"to_dispatch", "wait_dependencies", "executing", "active"}
  BY <1>1, <1>3, <1>4, AssignmentAssumption DEF Plain, Nobody, SameRow,
     AgentsReportEnds, AfterDispatch
<1>5. ASSUME NEW p \in Asg, NEW h \in Handler, Follows(a, p, h)
      PROVE  SameRow(a)
  BY <1>5 DEF Follows, Marked
<1> QED
  BY <1>2, <1>4, <1>5 DEF Advance, StepOf, Drops, Halts, SameRow, Status

\* No assignment goes back in its cycle: one that is executed is never
\* dispatched again, one that has succeeded is never executed again.
THEOREM CycleKept ==
  ASSUME PlanOfOne, AgentsReportEnds
  PROVE  Spec => AssignmentCycle
<1>1. Init => PlanInvariant /\ OneStart
  BY PlanInit, OneStartInit
<1>2. PlanInvariant /\ OneStart /\ [Next]_asgVars => (PlanInvariant /\ OneStart)'
  BY PlanStep, NextAdvances, AdvanceOnce
<1>3. PlanInvariant /\ OneStart /\ [Next]_asgVars =>
        [\A a \in Asg :
           /\ assignments[a] \in {"executing", "active"} =>
                assignments'[a] \notin {"to_dispatch", "wait_dependencies"}
           /\ assignments[a] \in {"succeeded", "completed"} =>
                assignments'[a] \notin {"to_dispatch", "wait_dependencies", "executing", "active"}]_asgVars
  BY NextAdvances, StatusAdvances
<1> QED
  BY <1>1, <1>2, <1>3, PTL DEF Spec, AssignmentCycle

----------------------------------------------------------------------------
(* The mission is completed when all agents have done with it.  That an    *)
(* agent has done with a is stable (Over).  Until all have, the mission is *)
(* not completed, and while it can be, nothing of it is being canceled     *)
(* (Unhurt): so the computation that finds no assignment open finds them   *)
(* all over.  When it writes the completion does not matter any more.      *)

Over(a) == a \in done \/ Doomed(a)
AllOver == \A a \in Asg : Over(a)

\* A row tells of an end only when the agent has done with it; one that is to
\* be dispatched is on its way to the agent.
Noticed(a) ==
  /\ Status(a) # "absent"
  /\ Status(a) \in {"failed", "aborted", "rejected"} => Over(a)
  /\ Status(a) = "to_dispatch" =>
       News(a, "to_dispatch") > 0 \/ ~Nobody(OrderPc, a) \/ sent[a] > 0

\* Nobody cancels a.
CalmRow(a) ==
  /\ Status(a) \notin {"canceling", "canceled"}
  /\ News(a, "canceling") = 0
  /\ agent[a] # "stopping"

HarshPc == {"cancelRequests", "cancelWaitingAssignments", "cancelRunningAssignments",
            "markCanceled", "completeMission"}

\* Computation t cancels nothing, nor has it found the mission completed.
Gentle(t) == t.pc \notin HarshPc /\ (t.pc \in SavePc => t.val # "canceled")

Unhurt ==
  /\ mission # "canceling" => ~Queued(MissionEvent("canceling"))
  /\ ~Queued(MissionEvent("assignment_failed")) /\ ~Queued(MissionEvent("planning_failed"))
  /\ \A h \in Handler : Gentle(handler[h])
  /\ \A a \in Asg : CalmRow(a)

\* The mission is not completed, nor about to be.
Early ==
  /\ mission \notin {"assignments_completed", "succeeded"}
  /\ ~Queued(Completion) /\ NobodyEnds
  /\ mission \in UncompleteMission => Unhurt

CompletedLate == (\A a \in Asg : Noticed(a)) /\ (AllOver \/ Early)

----------------------------------------------------------------------------
(* What a step does about a row *)

\* An agent has done with an assignment for good.
LEMMA OverStays ==
  ASSUME PlanOfOne, AgentsReportEnds, PlanInvariant, OneStart, Advance, NEW a \in Asg, Over(a)
  PROVE  Over(a)'
<1>1. done \subseteq done'
  BY DEF Advance
<1>2. Doomed(a) => Doomed(a)'
  BY AdvanceKept DEF Kept
<1> QED
  BY <1>1, <1>2 DEF Over

\* A lost order is noticed, and so is the end that an agent reports.
LEMMA NoticedStays ==
  ASSUME PlanOfOne, AgentsReportEnds, PlanInvariant, OneStart, Advance, NEW a \in Asg, Noticed(a)
  PROVE  Noticed(a)'
<1>1. Over(a) => Over(a)'
  BY OverStays
<1>2. Plain(a) /\ Plain(a)' /\ (Ready(a) => Exclusive(a)) /\ (~Ready(a) => Held(a))
  BY AdvanceOnce DEF OneStart, Own
<1>3. \A s \in HandledAssignment : News(a, s) \in Nat
  BY SoundPlan DEF Sound, Advance
<1>4. CASE Still(a)
  BY <1>1, <1>4 DEF Noticed, Still, SameField, SameRow, SameNews, HandledAssignment, Nobody
<1>5. CASE Dropped(a) \/ Halted(a)
  BY <1>5 DEF Noticed, Dropped, Halted
<1>6. ASSUME NEW h \in Handler, NEW p \in Asg, Follows(a, p, h)
      PROVE  Noticed(a)'
  BY <1>1, <1>6 DEF Noticed, Follows, Marked, OthersKeep, Turns, SameField, SameRow, SameNews,
                    HandledAssignment, Nobody, OrderPc
<1>7. ASSUME NEW h \in Handler, OthersKeep(h, a), Moves(a, h)
      PROVE  Noticed(a)'
  <2>1. CASE Taken(a, h)
    BY <1>1, <2>1 DEF Noticed, Taken, Turns, SameField, SameRow, Nobody, OrderPc
  <2>2. CASE Ordered(a, h)
    BY <1>1, <1>2, <2>2 DEF Noticed, Ordered, SameRow, Plain
  <2>3. CASE Lost(a, h)
    BY <1>1, <2>3 DEF Noticed, Lost, Turns, SameField, SameRow, Nobody, OrderPc
  <2>4. CASE LossSaved(a, h)
    <3>1. sent[a] = 0
      BY <1>2, <2>4 DEF LossSaved, Turns, Exclusive, Held, Nobody, OrderPc
    <3>2. sent'[a] = 0 /\ Role(h, a)' = "markExecuting"
      BY <2>4, <3>1 DEF LossSaved, Turns, SameField
    <3>3. Doomed(a)'
      BY <1>2, <3>2 DEF Plain
    <3> QED
      BY <2>4, <3>3 DEF Noticed, Over, LossSaved
  <2>5. CASE Saved(a, h)
    <3>1. agent[a] = "over" /\ Over(a)'
      BY <1>1, <1>2, <2>5 DEF Saved, Plain, Over, Doomed
    <3>2. SameRow(a) /\ SameNews(a, {}) /\ SameField(a) => Noticed(a)'
      BY <1>2, <3>1 DEF Noticed, SameRow, SameField, Plain
    <3>3. Status(a)' \in Reports => Noticed(a)'
      BY <3>1, AssignmentAssumption DEF Noticed
    <3> QED
      BY <2>5, <3>2, <3>3 DEF Saved
  <2>6. CASE Noted(a, h) \/ SuccessTaken(a, h) \/ Canceled(a, h) \/ Activated(a, h)
    BY <2>6 DEF Noticed, Noted, SuccessTaken, Canceled, Activated
  <2>7. CASE Freed(a, h)
    BY <1>3, <2>7 DEF Noticed, Freed, HandledAssignment
  <2>8. CASE Reported(a, h)
    BY <1>1, <1>2, <2>8 DEF Noticed, Reported, SameRow, Plain
  <2>9. CASE EndTaken(a, h) \/ StopTaken(a, h) \/ WrappedOn(a, h) \/ Listed(a, h)
    <3>1. SameRow(a) /\ sent'[a] = sent[a] /\ News(a, "to_dispatch")' = News(a, "to_dispatch")
      BY <2>9 DEF EndTaken, StopTaken, WrappedOn, Listed, SameField, SameNews, HandledAssignment, OtherEnds
    <3>2. Role(h, a) \notin OrderPc
      BY <2>9 DEF EndTaken, StopTaken, WrappedOn, Listed, Turns, OrderPc, WrapPc
    <3>3. Nobody(OrderPc, a)' => Nobody(OrderPc, a)
      BY <1>7, <3>2 DEF OthersKeep, Nobody
    <3> QED
      BY <1>1, <3>1, <3>3 DEF Noticed, SameRow
  <2> QED
    BY <1>7, <2>1, <2>2, <2>3, <2>4, <2>5, <2>6, <2>7, <2>8, <2>9 DEF Moves
<1> QED
  BY <1>4, <1>5, <1>6, <1>7 DEF Advance, StepOf, Drops, Halts

\* While nothing is canceled, nobody cancels a row.
LEMMA RowsCalm ==
  ASSUME PlanInvariant, Advance, Unhurt, NEW a \in Asg
  PROVE  CalmRow(a)'
<1>1. CalmRow(a) /\ \A h \in Handler : Gentle(handler[h])
  BY DEF Unhurt
<1>2. CASE Still(a)
  BY <1>1, <1>2 DEF CalmRow, Still, SameField, SameRow, SameNews, HandledAssignment
<1>3. ASSUME NEW h \in Handler, NEW p \in Asg, Follows(a, p, h)
      PROVE  CalmRow(a)'
  BY <1>1, <1>3 DEF CalmRow, Follows, Marked, SameField, SameRow, SameNews, HandledAssignment
<1>4. ASSUME NEW h \in Handler, Moves(a, h)
      PROVE  CalmRow(a)'
  <2>1. CASE Saved(a, h)
    <3>1. handler[h].pc \in SavePc
      BY <2>1 DEF Saved, Role, TaskRole, SavePc
    <3>2. handler[h].val # "canceled"
      BY <1>1, <3>1 DEF Gentle
    <3> QED
      BY <1>1, <2>1, <3>2, AssignmentAssumption
      DEF CalmRow, Saved, SameField, SameRow, SameNews, HandledAssignment
  <2>2. CASE StopTaken(a, h)
    BY <1>1, <2>2 DEF CalmRow, StopTaken
  <2>3. CASE Canceled(a, h)
    <3>1. handler[h].pc = "markCanceled"
      BY <2>3 DEF Canceled, Turns, Role, TaskRole
    <3> QED
      BY <1>1, <3>1 DEF Gentle, HarshPc
  <2>4. CASE Taken(a, h) \/ Ordered(a, h) \/ Lost(a, h) \/ LossSaved(a, h) \/ Noted(a, h)
    BY <1>1, <2>4 DEF CalmRow, Taken, Ordered, Lost, LossSaved, Noted,
                      SameField, SameRow, SameNews, HandledAssignment, OtherEnds
  <2>5. CASE Reported(a, h) \/ SuccessTaken(a, h) \/ EndTaken(a, h) \/ WrappedOn(a, h)
               \/ Listed(a, h) \/ Activated(a, h) \/ Freed(a, h)
    BY <1>1, <2>5 DEF CalmRow, Reported, SuccessTaken, EndTaken, WrappedOn, Listed, Activated, Freed,
                      SameField, SameRow, SameNews, HandledAssignment, OtherEnds
  <2> QED
    BY <1>4, <2>1, <2>2, <2>3, <2>4, <2>5 DEF Moves
<1>5. ~(\E h \in Handler : handler[h].pc \in {"cancelWaitingAssignments", "cancelRunningAssignments"})
  BY <1>1 DEF Gentle, HarshPc
<1> QED
  BY <1>2, <1>3, <1>4, <1>5 DEF Advance, StepOf, Drops, Halts

----------------------------------------------------------------------------
(* What a step does about the mission *)

\* A mission that is canceled, that fails or that has ended is not to be completed.
LEMMA MissionGroups ==
  /\ \A s \in {"canceled", "failed", "assignment_failed"} :
       s \notin UncompleteMission /\ s \notin {"assignments_completed", "succeeded"}
  /\ "canceling" \in UncompleteMission
  /\ RunningMission \subseteq UncompleteMission
  /\ "assignments_completed" \notin UncompleteMission
BY Zenon DEF RunningMission, UncompleteMission

\* No event about the mission is added.
MissionSilent ==
  \A e \in Event : events_queue'[e] > 0 => events_queue[e] > 0 \/ e.channel # "work_processes_update"

LEMMA SilentQueues ==
  /\ UNCHANGED events_queue => MissionSilent
  /\ \A taken, left : TypeOK /\ Apart(left) /\ TakeAndLeave(taken, left) => MissionSilent
<1>1. ASSUME NEW taken, NEW left, TypeOK, Apart(left), TakeAndLeave(taken, left),
             NEW e \in Event, events_queue'[e] > 0
      PROVE  events_queue[e] > 0 \/ e.channel # "work_processes_update"
  <2>1. events_queue[e] \in Nat
    BY <1>1 DEF TypeOK
  <2>2. e \in left => e.channel # "work_processes_update"
    BY <1>1 DEF Apart
  <2>3. events_queue'[e] = (IF e \in taken THEN events_queue[e] - 1 ELSE events_queue[e])
                             + (IF e \in left THEN 1 ELSE 0)
    BY <1>1 DEF TakeAndLeave
  <2> QED
    BY <1>1, <2>1, <2>2, <2>3
<1> QED
  BY <1>1 DEF MissionSilent

\* A statement about assignments or requests adds none.
LEMMA SilentStatements ==
  ASSUME TypeOK, NEW rows, NEW s, NEW taken,
         SetAssignments(rows, s, taken) \/ WriteRequests(rows, s, taken)
  PROVE  MissionSilent
<1>1. /\ Apart({AssignmentEvent(a, s) : a \in {b \in rows : assignments[b] # s}})
      /\ Apart({RequestEvent(r, s[r].status, s[r].assignment_dispatched) : r \in rows})
  BY DEF Apart, AssignmentEvent, RequestEvent
<1> QED
  BY <1>1, SilentQueues DEF SetAssignments, WriteRequests

\* The events of the mission that its earliness is about.
LEMMA MissionEvents ==
  /\ MissionEvent("canceling") \in Event /\ MissionEvent("assignment_failed") \in Event
  /\ MissionEvent("planning_failed") \in Event
  /\ \A s, u : MissionEvent(s).channel = "work_processes_update"
               /\ (MissionEvent(s) = MissionEvent(u) => s = u)
<1>1. {"canceling", "assignment_failed", "planning_failed"} \subseteq HandledMission
  BY DEF HandledMission
<1>2. \A s, u : MissionEvent(s).channel = "work_processes_update"
                /\ (MissionEvent(s) = MissionEvent(u) => s = u)
  BY DEF MissionEvent
<1> QED
  BY <1>1, <1>2 DEF Event

\* A step that leaves the mission alone.
LEMMA QuietEarly ==
  ASSUME PlanInvariant, Advance, Early, NEW h \in Handler, NEW t, Becomes(h, t),
         ~Ends(t), mission \in UncompleteMission => Gentle(t), UNCHANGED mission, MissionSilent
  PROVE  Early'
<1>1. \A g \in Handler : handler'[g] = IF g = h THEN t ELSE handler[g]
  BY DEF PlanInvariant, TypeOK, Becomes
<1>2. NobodyEnds'
  BY <1>1 DEF Early, NobodyEnds
<1>3. \A s : Queued(MissionEvent(s))' => Queued(MissionEvent(s))
  BY MissionEvents DEF Queued, MissionSilent
<1>4. ~Queued(Completion)'
  BY <1>3 DEF Early, Completion
<1>5. ASSUME mission \in UncompleteMission
      PROVE  Unhurt'
  <2>1. Unhurt
    BY <1>5 DEF Early
  <2>2. \A a \in Asg : CalmRow(a)'
    BY <2>1, RowsCalm
  <2>3. \A g \in Handler : Gentle(handler'[g])
    BY <1>1, <1>5, <2>1 DEF Unhurt
  <2> QED
    BY <1>3, <2>1, <2>2, <2>3 DEF Unhurt
<1> QED
  BY <1>2, <1>4, <1>5 DEF Early

\* A step that cancels the mission, or fails it.
LEMMA EndedEarly ==
  ASSUME PlanInvariant, Early, NEW h \in Handler, NEW t, Becomes(h, t), ~Ends(t),
         NEW s \in {"canceled", "failed", "assignment_failed"}, NEW taken, SetMission(s, taken)
  PROVE  Early'
<1>1. \A g \in Handler : handler'[g] = IF g = h THEN t ELSE handler[g]
  BY DEF PlanInvariant, TypeOK, Becomes
<1>2. NobodyEnds'
  BY <1>1 DEF Early, NobodyEnds
<1>3. PICK left : TakeAndLeave(taken, left) /\ left \subseteq {MissionEvent(s)} /\ mission' = s
  BY DEF SetMission
<1>4. Completion \notin left /\ events_queue[Completion] \in Nat /\ ~(events_queue[Completion] > 0)
  BY <1>3, CompletionEvent DEF Completed, Early, Queued, PlanInvariant, TypeOK
<1>5. ~(events_queue'[Completion] > 0)
  BY <1>3, <1>4, CompletionEvent DEF TakeAndLeave
<1> QED
  BY <1>2, <1>3, <1>5, MissionGroups DEF Early, Queued

\* Where a computation goes that cancels nothing.
LEMMA GentleTasks ==
  /\ Gentle(Idle)
  /\ \A pc, row, val : pc \notin HarshPc \cup SavePc => Gentle(At(pc, row, val))
  /\ \A row, val, v : Gentle([At("activate", row, val) EXCEPT !.todo = v])
BY DEF Gentle, At, Idle, HarshPc, SavePc

----------------------------------------------------------------------------
(* Every step leaves the mission early, or all agents have done *)

\* Orders and the notes about them.
LEMMA OrderingEarly ==
  ASSUME PlanInvariant, Advance, Early, NEW h \in Handler, Ordering(h)
  PROVE  Early'
<1>1. UNCHANGED mission
  BY DEF Ordering, SendOrder, OrderFails, SaveOrderFailure, MarkExecuting, SaveReport, SaveReportWhere,
         MarkCanceled
<1>2. PICK t : Becomes(h, t) /\ ~Ends(t) /\ Gentle(t)
  <2>1. \E t \in {Idle, At("markExecuting", handler[h].row, "-"), At("orderFailed", handler[h].row, "-")} :
          Becomes(h, t)
    BY DEF Ordering, SendOrder, OrderFails, SaveOrderFailure, MarkExecuting, SaveReport, SaveReportWhere,
           MarkCanceled
  <2> QED
    BY <2>1, GentleTasks, ElsewhereTasks DEF HarshPc, SavePc
<1>3. MissionSilent
  <2>1. CASE SendOrder(h) \/ OrderFails(h)
    BY <2>1, SilentQueues DEF SendOrder, OrderFails
  <2>2. CASE ~(SendOrder(h) \/ OrderFails(h))
    <3>1. PICK rows, s : SetAssignments(rows, s, {})
      BY <2>2, Zenon DEF Ordering, SaveOrderFailure, MarkExecuting, SaveReport, SaveReportWhere, MarkCanceled
    <3> QED
      BY <3>1, SilentStatements DEF PlanInvariant
  <2> QED
    BY <2>1, <2>2
<1> QED
  BY <1>1, <1>2, <1>3, QuietEarly

\* When no assignment is open, and none is canceled, all agents have done.
LEMMA NoneOpen ==
  ASSUME PlanInvariant, OneStart, \A a \in Asg : Noticed(a), Unhurt,
         AssignmentsIn(UncompleteAssignment) = {}
  PROVE  AllOver
<1> SUFFICES ASSUME NEW a \in Asg PROVE Over(a)
  BY DEF AllOver
<1>1. Status(a) \notin UncompleteAssignment
  BY DEF AssignmentsIn, Status
<1>2. Status(a) \in AssignmentStatus \cup {"absent"}
  BY DEF PlanInvariant, TypeOK, Status
<1>3. Noticed(a) /\ CalmRow(a) /\ Plain(a)
  BY DEF Unhurt, OneStart, Own
<1>4. Status(a) \in {"succeeded", "completed", "failed", "aborted", "rejected"}
  BY <1>1, <1>2, <1>3 DEF Noticed, CalmRow, UncompleteAssignment, BeforeDispatch, AfterDispatch,
                          AssignmentStatus
<1> QED
  BY <1>3, <1>4 DEF Noticed, Plain, Over

\* The wrap-up: it is about to complete the mission only when all have done.
LEMMA WrappingUpEarly ==
  ASSUME PlanInvariant, OneStart, \A a \in Asg : Noticed(a), Advance, Early,
         NEW h \in Handler, WrappingUp(h)
  PROVE  Early' \/ AllOver
<1>1. handler[h] \in Task
  BY InvariantOf
<1>2. CASE CheckServices(h) \/ ListNextAssignments(h)
  <2>1. UNCHANGED mission /\ MissionSilent
    BY <1>2, SilentQueues DEF CheckServices, ListNextAssignments
  <2>2. \/ \E pc \in {"checkAssignments", "listNextAssignments"} :
             Becomes(h, At(pc, handler[h].row, "-"))
        \/ Becomes(h, Idle)
        \/ \E v : Becomes(h, [At("activate", handler[h].row, "-") EXCEPT !.todo = v])
    BY <1>2 DEF CheckServices, ListNextAssignments
  <2>3. PICK t : Becomes(h, t) /\ ~Ends(t) /\ Gentle(t)
    BY <2>2, GentleTasks, ElsewhereTasks DEF HarshPc, SavePc
  <2> QED
    BY <2>1, <2>3, QuietEarly
<1>3. CASE CheckAssignments(h)
  <2>1. UNCHANGED mission /\ MissionSilent
    BY <1>3, SilentQueues DEF CheckAssignments
  <2>2. CASE AssignmentsIn(UncompleteAssignment) = {}
    <3>1. Becomes(h, At("completeMission", handler[h].row, "-"))
      BY <1>3, <2>2 DEF CheckAssignments
    <3>2. ~Ends(At("completeMission", handler[h].row, "-"))
      BY ElsewhereTasks
    <3>3. CASE mission \in UncompleteMission
      BY <2>2, <3>3, NoneOpen DEF Early
    <3>4. CASE mission \notin UncompleteMission
      BY <2>1, <3>1, <3>2, <3>4, QuietEarly
    <3> QED
      BY <3>3, <3>4
  <2>3. CASE AssignmentsIn(UncompleteAssignment) # {}
    <3>1. Becomes(h, At("listNextAssignments", handler[h].row, "-"))
      BY <1>3, <2>3 DEF CheckAssignments
    <3>2. ~Ends(At("listNextAssignments", handler[h].row, "-"))
          /\ Gentle(At("listNextAssignments", handler[h].row, "-"))
      BY GentleTasks, ElsewhereTasks DEF HarshPc, SavePc
    <3> QED
      BY <2>1, <3>1, <3>2, QuietEarly
  <2> QED
    BY <2>2, <2>3
<1>4. CASE CompleteMission(h)
  <2>1. /\ handler[h].pc = "completeMission"
        /\ SetMissionWhere(UncompleteMission, "assignments_completed", {})
        /\ Becomes(h, At("listNextAssignments", handler[h].row, "-"))
    BY <1>4 DEF CompleteMission, IsAt
  <2>2. mission \notin UncompleteMission
    BY <2>1 DEF Early, Unhurt, Gentle, HarshPc
  <2>3. UNCHANGED mission /\ TakeAndLeave({}, {})
    BY <2>1, <2>2 DEF SetMissionWhere
  <2>4. MissionSilent
    BY <2>3, SilentQueues, NothingApart DEF PlanInvariant
  <2>5. ~Ends(At("listNextAssignments", handler[h].row, "-"))
    BY ElsewhereTasks
  <2> QED
    BY <2>1, <2>2, <2>3, <2>4, <2>5, QuietEarly
<1>5. CASE FailMission(h)
  <2>1. SetMissionWhere(RunningMission, "assignment_failed", {}) /\ Becomes(h, Idle)
    BY <1>5 DEF FailMission
  <2>2. ~Ends(Idle) /\ Gentle(Idle)
    BY GentleTasks, ElsewhereTasks
  <2>3. CASE mission \in RunningMission
    <3>1. SetMission("assignment_failed", {})
      BY <2>1, <2>3 DEF SetMissionWhere
    <3> QED
      BY <2>1, <2>2, <3>1, EndedEarly
  <2>4. CASE mission \notin RunningMission
    <3>1. UNCHANGED mission /\ TakeAndLeave({}, {})
      BY <2>1, <2>4 DEF SetMissionWhere
    <3>2. MissionSilent
      BY <3>1, SilentQueues, NothingApart DEF PlanInvariant
    <3> QED
      BY <2>1, <2>2, <3>1, <3>2, QuietEarly
  <2> QED
    BY <2>3, <2>4
<1>6. CASE Unblock(h)
  <2>1. UNCHANGED mission /\ Becomes(h, Idle)
    BY <1>6 DEF Unblock
  <2>2. PICK rows : SetAssignments(rows, "to_dispatch", {})
    BY <1>6 DEF Unblock
  <2>3. MissionSilent
    BY <2>2, SilentStatements DEF PlanInvariant
  <2> QED
    BY <2>1, <2>3, GentleTasks, ElsewhereTasks, QuietEarly
<1>7. ASSUME NEW b \in Asg, ActivateAssignment(h, b)
      PROVE  Early'
  <2>1. UNCHANGED mission /\ SetAssignments({b}, handler[h].todo[b], {})
    BY <1>7 DEF ActivateAssignment
  <2>2. Becomes(h, Idle) \/ Becomes(h, [handler[h] EXCEPT !.todo[b] = "-"])
    BY <1>7 DEF ActivateAssignment, DoneWith
  <2>3. [handler[h] EXCEPT !.todo[b] = "-"].pc = "activate"
    BY <1>1, <1>7, TodoKeepsPlace DEF ActivateAssignment, IsAt
  <2>4. PICK t : Becomes(h, t) /\ ~Ends(t) /\ Gentle(t)
    BY <2>2, <2>3, GentleTasks, ElsewhereTasks DEF Ends, Gentle, HarshPc, SavePc
  <2>5. MissionSilent
    BY <2>1, SilentStatements DEF PlanInvariant
  <2> QED
    BY <2>1, <2>4, <2>5, QuietEarly
<1> QED
  BY <1>2, <1>3, <1>4, <1>5, <1>6, <1>7 DEF WrappingUp

\* Events of assignments, ticks of the watcher and reports of agents: none
\* is about a cancel while the mission is unhurt.
LEMMA HandleEarly ==
  ASSUME PlanInvariant, Advance, Early, NEW h \in Handler, NEW a \in Asg,
         \/ HandleToDispatch(h, a) \/ HandleSucceeded(h, a) \/ HandleCanceled(h, a)
         \/ HandleAssignmentCanceling(h, a) \/ HandleAssignmentFailure(h, a)
         \/ FindUnblocked(h, a) \/ AgentReports(h, a)
  PROVE  Early'
<1>1. UNCHANGED mission
  BY DEF HandleToDispatch, HandleSucceeded, HandleCanceled, HandleAssignmentCanceling,
         HandleAssignmentFailure, FindUnblocked, AgentReports
<1>2. MissionSilent
  <2>1. CASE HandleSucceeded(h, a)
    BY <2>1, SilentStatements DEF HandleSucceeded, PlanInvariant
  <2>2. CASE FindUnblocked(h, a) \/ AgentReports(h, a)
    BY <2>2, SilentQueues DEF FindUnblocked, AgentReports
  <2>3. ASSUME HandleToDispatch(h, a) \/ HandleCanceled(h, a) \/ HandleAssignmentCanceling(h, a)
                 \/ HandleAssignmentFailure(h, a)
        PROVE  MissionSilent
    <3>1. PICK s : TakeAndLeave({AssignmentEvent(a, s)}, {})
      BY <2>3 DEF HandleToDispatch, HandleCanceled, HandleAssignmentCanceling, HandleAssignmentFailure
    <3> QED
      BY <3>1, NothingApart, SilentQueues DEF PlanInvariant
  <2> QED
    BY <2>1, <2>2, <2>3
<1>3. CASE HandleAssignmentCanceling(h, a)
  <2>1. News(a, "canceling") > 0 /\ Becomes(h, At("markCanceled", a, "-"))
    BY <1>3 DEF HandleAssignmentCanceling, Starts, Queued, News
  <2>2. mission \notin UncompleteMission
    BY <2>1 DEF Early, Unhurt, CalmRow
  <2>3. ~Ends(At("markCanceled", a, "-"))
    BY ElsewhereTasks
  <2> QED
    BY <1>1, <1>2, <2>1, <2>2, <2>3, QuietEarly
<1>4. CASE AgentReports(h, a)
  <2>1. PICK s : /\ s = "canceled" => agent[a] = "stopping"
                 /\ Becomes(h, Idle) \/ Becomes(h, At("saveReport", a, s))
                      \/ Becomes(h, At("saveReportWhere", a, s))
    BY <1>4 DEF AgentReports
  <2>2. mission \in UncompleteMission => s # "canceled"
    BY <2>1 DEF Early, Unhurt, CalmRow
  <2>3. s # "canceled" => \A pc \in SavePc : Gentle(At(pc, a, s))
    BY DEF Gentle, At, HarshPc, SavePc
  <2>4. PICK t : Becomes(h, t) /\ ~Ends(t) /\ (mission \in UncompleteMission => Gentle(t))
    BY <2>1, <2>2, <2>3, GentleTasks, ElsewhereTasks DEF SavePc
  <2> QED
    BY <1>1, <1>2, <2>4, QuietEarly
<1>5. CASE ~HandleAssignmentCanceling(h, a) /\ ~AgentReports(h, a)
  <2>1. PICK pc \in {"order", "checkServices", "failMission", "unblock"} : Becomes(h, At(pc, a, "-"))
    BY <1>5 DEF HandleToDispatch, HandleSucceeded, HandleCanceled, HandleAssignmentFailure, FindUnblocked
  <2>2. ~Ends(At(pc, a, "-")) /\ Gentle(At(pc, a, "-"))
    BY <2>1, GentleTasks, ElsewhereTasks DEF HarshPc, SavePc
  <2> QED
    BY <1>1, <1>2, <2>1, <2>2, QuietEarly
<1> QED
  BY <1>3, <1>4, <1>5

\* The handlers that end the mission find no completion; those that clean up
\* after it do so when it has left the statuses that can be completed.
LEMMA MissionEndsEarly ==
  ASSUME PlanInvariant, Advance, Early, NEW h \in Handler, WorkProcessHandler(h)
  PROVE  Early'
<1>1. ASSUME NEW s \in {"canceling", "assignment_failed", "planning_failed"},
             NEW o \in {"canceled", "failed"}, NEW val, Queued(MissionEvent(s)),
             SetMissionWhere({s}, o, {MissionEvent(s)}), Becomes(h, At("cancelRequests", NoRow, val))
      PROVE  Early'
  <2>1. ~Ends(At("cancelRequests", NoRow, val))
    BY ElsewhereTasks
  <2>2. CASE mission = s
    <3>1. SetMission(o, {MissionEvent(s)})
      BY <1>1, <2>2 DEF SetMissionWhere
    <3> QED
      BY <1>1, <2>1, <3>1, EndedEarly
  <2>3. CASE mission # s
    <3>1. UNCHANGED mission /\ TakeAndLeave({MissionEvent(s)}, {})
      BY <1>1, <2>3 DEF SetMissionWhere
    <3>2. MissionSilent
      BY <3>1, SilentQueues, NothingApart DEF PlanInvariant
    <3>3. mission \notin UncompleteMission
      BY <1>1, <2>3 DEF Early, Unhurt
    <3> QED
      BY <1>1, <2>1, <3>1, <3>2, <3>3, QuietEarly
  <2> QED
    BY <2>2, <2>3
<1>2. CASE HandleCanceling(h)
  BY <1>1, <1>2 DEF HandleCanceling, Starts
<1>3. CASE HandleFailure(h)
  <2>1. PICK s \in {"assignment_failed", "planning_failed"} :
          /\ Queued(MissionEvent(s)) /\ SetMissionWhere({s}, "failed", {MissionEvent(s)})
          /\ Becomes(h, At("cancelRequests", NoRow, s))
    BY <1>3 DEF HandleFailure, Starts
  <2> QED
    BY <1>1, <2>1
<1>4. ~HandleCompleted(h) /\ ~EndMission(h)
  BY DEF HandleCompleted, EndMission, Starts, Early, NobodyEnds, Ends, IsAt, Completion, Completed
<1>5. CASE CancelRequests(h) \/ CancelWaitingAssignments(h) \/ CancelRunningAssignments(h)
  <2>1. UNCHANGED mission /\ handler[h].pc \in HarshPc
    BY <1>5 DEF CancelRequests, CancelWaitingAssignments, CancelRunningAssignments, IsAt, HarshPc
  <2>2. mission \notin UncompleteMission
    BY <2>1 DEF Early, Unhurt, Gentle
  <2>3. PICK pc \in {"cancelWaitingAssignments", "cancelRunningAssignments", "onWorkProcessEnd"} :
          Becomes(h, At(pc, NoRow, handler[h].val))
    BY <1>5 DEF CancelRequests, CancelWaitingAssignments, CancelRunningAssignments
  <2>4. ~Ends(At(pc, NoRow, handler[h].val))
    BY <2>3, ElsewhereTasks
  <2>5. MissionSilent
    <3>1. PICK rows, s : SetAssignments(rows, s, {}) \/ WriteRequests(rows, s, {})
      BY <1>5 DEF CancelRequests, CancelWaitingAssignments, CancelRunningAssignments
    <3> QED
      BY <3>1, SilentStatements DEF PlanInvariant
  <2> QED
    BY <2>1, <2>2, <2>3, <2>4, <2>5, QuietEarly
<1>6. CASE OnWorkProcessEnd(h)
  <2>1. UNCHANGED mission /\ MissionSilent /\ Becomes(h, Idle)
    BY <1>6, SilentQueues DEF OnWorkProcessEnd
  <2> QED
    BY <2>1, GentleTasks, ElsewhereTasks, QuietEarly
<1> QED
  BY <1>2, <1>3, <1>4, <1>5, <1>6 DEF WorkProcessHandler

\* The user may cancel what is not completed: nothing has come of it yet.
LEMMA UserCancelsEarly ==
  ASSUME PlanInvariant, Advance, Early, UserCancels
  PROVE  Early'
<1>1. mission \in UncompleteMission
  <2>1. mission \in Cancelable /\ mission # "assignments_completed"
    BY DEF UserCancels, Early
  <2>2. mission \in RunningMission
    BY <2>1, CancelableAssumption, Zenon DEF RunningMission
  <2> QED
    BY <2>2, MissionGroups
<1>2. Unhurt
  BY <1>1 DEF Early
<1>3. \A a \in Asg : CalmRow(a)'
  BY <1>2, RowsCalm
<1>4. PICK left : /\ TakeAndLeave({}, left) /\ left \subseteq {MissionEvent("canceling")}
                  /\ mission' = "canceling" /\ handler' = handler
  BY DEF UserCancels, SetMission
<1>5. ASSUME NEW s, s # "canceling", ~Queued(MissionEvent(s))
      PROVE  ~Queued(MissionEvent(s))'
  <2>1. MissionEvent(s) \notin left
    BY <1>4, <1>5, MissionEvents
  <2> QED
    BY <1>4, <1>5, <2>1 DEF Queued, TakeAndLeave, PlanInvariant, TypeOK
<1>6. Unhurt'
  BY <1>2, <1>3, <1>4, <1>5 DEF Unhurt
<1>7. NobodyEnds' /\ ~Queued(Completion)'
  BY <1>4, <1>5 DEF Early, NobodyEnds, Completion, Completed
<1> QED
  BY <1>4, <1>6, <1>7 DEF Early

\* Every step.
LEMMA CompletedLateStep ==
  ASSUME PlanOfOne, AgentsReportEnds, PlanInvariant, OneStart, CompletedLate, [Next]_asgVars
  PROVE  CompletedLate'
<1>1. Advance
  BY NextAdvances
<1>2. \A a \in Asg : Noticed(a)'
  BY <1>1, NoticedStays DEF CompletedLate
<1>3. AllOver => AllOver'
  BY <1>1, OverStays DEF AllOver
<1>4. ASSUME Early
      PROVE  Early' \/ AllOver
  <2>1. CASE UserCancels
    BY <1>1, <1>4, <2>1, UserCancelsEarly
  <2>2. ASSUME NEW h \in Handler, Continue(h)
        PROVE  Early' \/ AllOver
    BY <1>1, <1>4, <2>2, OrderingEarly, WrappingUpEarly DEF Continue, CompletedLate
  <2>3. ASSUME NEW h \in Handler, Handle(h) \/ Watch(h) \/ \E a \in Asg : AgentReports(h, a)
        PROVE  Early'
    BY <1>1, <1>4, <2>3, HandleEarly DEF Handle, Watch
  <2>4. ASSUME NEW h \in Handler, MissionEnds(h)
        PROVE  Early'
    BY <1>1, <1>4, <2>4, MissionEndsEarly DEF MissionEnds
  <2>5. CASE UNCHANGED asgVars
    BY <1>4, <2>5 DEF asgVars, wpVars, dbVars, Early, Unhurt, Queued, NobodyEnds, Gentle, CalmRow,
                      Status, News
  <2> QED
    BY <2>1, <2>2, <2>3, <2>4, <2>5 DEF Next
<1> QED
  BY <1>2, <1>3, <1>4 DEF CompletedLate

\* At first nothing has ended.
LEMMA CompletedLateInit ==
  ASSUME Init
  PROVE  CompletedLate
<1>1. \A e \in Event : events_queue[e] > 0 => \E a \in FirstGroup : e = AssignmentEvent(a, "to_dispatch")
  BY DEF Init
<1>2. \A s : ~Queued(MissionEvent(s))
  BY <1>1 DEF Queued, MissionEvent, AssignmentEvent
<1>3. \A h \in Handler : handler[h] = Idle
  BY DEF Init
<1>4. ASSUME NEW a \in Asg
      PROVE  Noticed(a) /\ CalmRow(a)
  <2>1. /\ Status(a) = IF a \in FirstGroup THEN "to_dispatch" ELSE "not_ready_to_dispatch"
        /\ agent[a] = "none"
    BY DEF Init, Status
  <2>2. AssignmentEvent(a, "to_dispatch") \in Event /\ AssignmentEvent(a, "canceling") \in Event
    BY DEF Event, HandledAssignment
  <2>3. a \in FirstGroup => News(a, "to_dispatch") = 1
    BY <2>2 DEF Init, News
  <2>4. AssignmentEvent(a, "canceling") \notin {AssignmentEvent(b, "to_dispatch") : b \in FirstGroup}
    BY OneEvent
  <2>5. News(a, "canceling") = 0
    BY <2>2, <2>4 DEF Init, News
  <2> QED
    BY <2>1, <2>3, <2>5 DEF Noticed, CalmRow
<1>5. NobodyEnds /\ \A h \in Handler : Gentle(handler[h])
  BY <1>3, GentleTasks, ElsewhereTasks DEF NobodyEnds
<1>6. mission = "executing"
  BY DEF Init
<1> QED
  BY <1>2, <1>4, <1>5, <1>6 DEF CompletedLate, Early, Unhurt, Completion

\* The mission is completed only when no agent is at work for it and no
\* assignment waits for its first order: the look at all assignments comes
\* before the write of the completion, with any number of handlers, reports,
\* failures, lost orders and cancels in between, also of a mission that is
\* already completed.
THEOREM CompletedWhenOver ==
  ASSUME PlanOfOne, AgentsReportEnds
  PROVE  Spec => []NoEarlyCompletion
<1>1. Init => PlanInvariant /\ OneStart /\ CompletedLate
  BY PlanInit, OneStartInit, CompletedLateInit
<1>2. PlanInvariant /\ OneStart /\ CompletedLate /\ [Next]_asgVars
        => (PlanInvariant /\ OneStart /\ CompletedLate)'
  BY PlanStep, NextAdvances, AdvanceOnce, CompletedLateStep
<1>3. PlanInvariant /\ OneStart /\ CompletedLate => NoEarlyCompletion
  <2> SUFFICES ASSUME PlanInvariant, OneStart, CompletedLate,
                      mission \in {"assignments_completed", "succeeded"}, NEW a \in Asg
               PROVE  /\ agent[a] \notin {"working", "stopping"}
                      /\ agent[a] = "none" => assignments[a] \notin BeforeDispatch
    BY DEF NoEarlyCompletion
  <2>1. Over(a) /\ Noticed(a) /\ Plain(a)
    BY DEF CompletedLate, Early, AllOver, OneStart, Own
  <2> QED
    BY <2>1 DEF Over, Noticed, Plain, Doomed, BeforeDispatch, Status, Nobody
<1> QED
  BY <1>1, <1>2, <1>3, PTL DEF Spec

=============================================================================
