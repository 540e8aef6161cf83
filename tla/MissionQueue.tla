---------------------------- MODULE MissionQueue ----------------------------
(***************************************************************************)
(* Several missions that compete for agents: the mission queue that starts *)
(* one after the other (missionqueue_db_events_handler.ts, and the end of  *)
(* onWorkProcessEnd in assignment_orchestration.ts), the preparation of a  *)
(* mission up to the insertion of its requests (the insertion and          *)
(* dispatched branches of workprocess_db_events_handler.ts and             *)
(* prepareServicesPipelineForWorkProcess), and the reservation and release *)
(* of its agents (agent_communication.ts).                                 *)
(*                                                                         *)
(* What the requests and assignments of a mission do between its planning  *)
(* and its end is module Orchestration; here it is three steps per         *)
(* mission.  A step is one SQL statement, one publication or one tick of a *)
(* timer of one computation, as in MissionDB.  agents.work_process_id,     *)
(* which is written at two places and read at none, is left out: the two   *)
(* writes are awaits without an effect.                                    *)
(***************************************************************************)
EXTENDS Naturals, Sequences, SequencesExt, DataModels

CONSTANTS
  Queue,        \* the missions of the queue, in run_order
  Direct,       \* missions in no queue, inserted as dispatched
  Agent,
  AgentsOf,     \* agent_ids of each mission
  Handler,      \* computations that may be in flight at the same time
  NoWp,         \* "no mission"
  WithSettings, \* missions whose recipe has settings
  NoWait,       \* missions with wait_free_agent = false
  Unplannable,  \* missions whose requests cannot be created
  HalfPlanned,  \* those among them of which some requests can be inserted
  MissingAgent, \* missions with agents that do not exist
  Acknowledges, \* agents with acknowledge_reservation
  Cancelable,   \* statuses a mission may have when the user cancels it
  CancelsQueue, \* the user may cancel the queue
  LateAgents    \* waits for agents may time out

Wp == Range(Queue) \cup Direct

ASSUME QueueAssumption ==
  /\ Queue \in Seq(Range(Queue)) /\ IsInjective(Queue)
  /\ Range(Queue) \cap Direct = {} /\ NoWp \notin Wp
  /\ AgentsOf \in [Wp -> SUBSET Agent]
  /\ WithSettings \cup NoWait \cup Unplannable \cup MissingAgent \subseteq Wp
  /\ HalfPlanned \subseteq Unplannable
  /\ Acknowledges \subseteq Agent
  /\ Cancelable \subseteq MissionStatus
  /\ CancelsQueue \in BOOLEAN /\ LateAgents \in BOOLEAN

VARIABLES
  mission,       \* work_processes.status of each mission
  queue,         \* mission_queue.status ("none" when it was inserted without one)
  events_queue,  \* how many copies of each event wait
  handler,       \* what each computation in flight does next
  agent,         \* the mission each agent reports to be ready for (NoWp: it is free)
  inbox,         \* instant actions on their way to each agent
  planned,       \* missions whose requests have been inserted and not canceled
  runs           \* places of the queue behind which the user has started it

vars == <<mission, queue, events_queue, handler, agent, inbox, planned, runs>>

EndStatus == {"succeeded", "failed", "canceled"}
Underway(w) == mission[w] \notin EndStatus \cup {"draft"}

\* The events some handler reacts to.
HandledMission == {"dispatched", "canceling", "assignment_failed", "planning_failed",
                   "assignments_completed"}

Event == [kind: {"insertion"} \cup HandledMission, wp: Wp] \cup [kind: {"run", "cancel"}, wp: {NoWp}]

MissionEvent(s, w) == [kind |-> s, wp |-> w]
QueueEvent(s) == [kind |-> s, wp |-> NoWp]

TakeAndLeave(taken, left) ==
  events_queue' = [e \in Event |->
                     (IF e \in taken THEN events_queue[e] - 1 ELSE events_queue[e])
                       + (IF e \in left THEN 1 ELSE 0)]

\* UPDATE work_processes: the trigger reports a status that is distinct.
SetMission(w, s, taken) ==
  /\ mission' = [mission EXCEPT ![w] = s]
  /\ TakeAndLeave(taken, IF s = mission[w] THEN {} ELSE {MissionEvent(s, w)})

SetMissionWhere(w, allowed, s, taken) ==
  IF mission[w] \in allowed
    THEN SetMission(w, s, taken)
    ELSE TakeAndLeave(taken, {}) /\ UNCHANGED mission

\* UPDATE mission_queue: the trigger reports every update.
SetQueue(s) == queue' = s /\ TakeAndLeave({}, {QueueEvent(s)})

\* One publication per agent; a queue of the broker keeps their order.
SendTo(agents, type, w) ==
  inbox' = [a \in Agent |-> IF a \in agents THEN Append(inbox[a], [type |-> type, wp |-> w])
                                            ELSE inbox[a]]

----------------------------------------------------------------------------
(* Computations in flight *)

QueuePc == {"setRunning", "startNext", "stopQueue", "cancelMissions"}
PreparePc == {"prepare", "settings", "waitFree", "reserve", "waitReady", "decideReady",
              "failPreparation", "createRequests", "failPlanning", "markCalculating"}
EndPc == {"endMission", "cleanUp", "readEnded", "release", "selectNext"}

Task == [pc: {"idle"} \cup QueuePc \cup PreparePc \cup EndPc, wp: Wp \cup {NoWp},
         val: {"-", "ready", "waiting"} \cup EndStatus \cup MissionStatus, todo: SUBSET Wp]

At(pc, w, val) == [pc |-> pc, wp |-> w, val |-> val, todo |-> {}]
Idle == At("idle", NoWp, "-")
IsAt(h, pc) == handler[h].pc = pc
Becomes(h, task) == handler' = [handler EXCEPT ![h] = task]
Starts(h, e) == IsAt(h, "idle") /\ e \in Event /\ events_queue[e] > 0

agents == <<agent, inbox>>

----------------------------------------------------------------------------
(* The mission queue *)

\* The places in run_order of the missions with status s.
Listed(s) == {i \in DOMAIN Queue : mission[Queue[i]] = s}

\* The user is disciplined: the queue is started once, and then once for each
\* mission at which it stopped because that one ended without success.
UserRuns ==
  \E i \in ({0} \cup Listed("failed") \cup Listed("canceled")) \ runs :
    /\ \A j \in DOMAIN Queue : j > i => mission[Queue[j]] = "draft"
    /\ runs' = runs \cup {i}
    /\ SetQueue("run")
    /\ UNCHANGED <<mission, handler, agents, planned>>

UserCancelsQueue ==
  /\ CancelsQueue
  /\ queue = "running"
  /\ SetQueue("cancel")
  /\ UNCHANGED <<mission, handler, agents, planned, runs>>

UserCancels(w) ==
  /\ mission[w] \in Cancelable
  /\ SetMission(w, "canceling", {})
  /\ UNCHANGED <<queue, handler, agents, planned, runs>>

\* The first draft mission is taken, if there is one.
TakesNext(h, pc, otherwise) ==
  \/ Listed("draft") = {} /\ Becomes(h, otherwise)
  \/ \E i \in Listed("draft") : /\ \A j \in Listed("draft") : i <= j
                                /\ Becomes(h, At(pc, Queue[i], "-"))

\* run: the first draft mission is read ...
HandleRun(h) ==
  LET e == QueueEvent("run") IN
  /\ Starts(h, e)
  /\ TakeAndLeave({e}, {})
  /\ TakesNext(h, "setRunning", Idle)
  /\ UNCHANGED <<mission, queue, agents, planned, runs>>

SetRunning(h) ==
  /\ IsAt(h, "setRunning")
  /\ SetQueue("running")
  /\ Becomes(h, At("startNext", handler[h].wp, "-"))
  /\ UNCHANGED <<mission, agents, planned, runs>>

\* ... and dispatched, whatever it has become.
StartNext(h) ==
  /\ IsAt(h, "startNext")
  /\ SetMission(handler[h].wp, "dispatched", {})
  /\ Becomes(h, Idle)
  /\ UNCHANGED <<queue, agents, planned, runs>>

\* cancel: the executing missions are read ...
HandleQueueCancel(h) ==
  LET e == QueueEvent("cancel")
      executing == {Queue[i] : i \in Listed("executing")} IN
  /\ Starts(h, e)
  /\ TakeAndLeave({e}, {})
  /\ Becomes(h, IF executing = {} THEN Idle
                ELSE [At("stopQueue", NoWp, "-") EXCEPT !.todo = executing])
  /\ UNCHANGED <<mission, queue, agents, planned, runs>>

\* ... the queue is stopped (also at the end of its last mission) ...
StopQueue(h) ==
  /\ IsAt(h, "stopQueue")
  /\ SetQueue("stopped")
  /\ Becomes(h, IF handler[h].todo = {} THEN Idle ELSE [handler[h] EXCEPT !.pc = "cancelMissions"])
  /\ UNCHANGED <<mission, agents, planned, runs>>

\* ... and each of them is set to canceling.
CancelMission(h, w) ==
  /\ IsAt(h, "cancelMissions")
  /\ w \in handler[h].todo
  /\ SetMission(w, "canceling", {})
  /\ Becomes(h, IF handler[h].todo = {w} THEN Idle ELSE [handler[h] EXCEPT !.todo = @ \ {w}])
  /\ UNCHANGED <<queue, agents, planned, runs>>

----------------------------------------------------------------------------
(* The preparation of a mission *)

\* A new mission is set to preparing without a condition.
HandleInsertion(h, w) ==
  LET e == [kind |-> "insertion", wp |-> w] IN
  /\ Starts(h, e)
  /\ SetMission(w, "preparing resources", {e})
  /\ Becomes(h, At("prepare", w, "-"))
  /\ UNCHANGED <<queue, agents, planned, runs>>

\* A mission that was dispatched is prepared, whatever it has become.
HandleDispatched(h, w) ==
  LET e == MissionEvent("dispatched", w) IN
  /\ Starts(h, e)
  /\ TakeAndLeave({e}, {})
  /\ Becomes(h, At("prepare", w, "-"))
  /\ UNCHANGED <<mission, queue, agents, planned, runs>>

FirstWait(w) == IF w \in NoWait \/ AgentsOf[w] = {} THEN At("createRequests", w, "-")
                                                    ELSE At("waitFree", w, "-")

Prepare(h) ==
  LET w == handler[h].wp IN
  /\ IsAt(h, "prepare")
  /\ Becomes(h, CASE w \in MissingAgent -> At("failPreparation", w, "-")
                  [] w \notin MissingAgent /\ w \in WithSettings -> At("settings", w, "-")
                  [] OTHER -> FirstWait(w))
  /\ UNCHANGED <<mission, queue, events_queue, agents, planned, runs>>

\* The settings of the recipe are written together with the status.
WriteSettings(h) ==
  LET w == handler[h].wp IN
  /\ IsAt(h, "settings")
  /\ SetMission(w, "preparing resources", {})
  /\ Becomes(h, FirstWait(w))
  /\ UNCHANGED <<queue, agents, planned, runs>>

\* waitAgentStatusForWorkProcess('FREE', null): a tick that finds all agents
\* free; without an id the mission's status is not looked at.
AgentsAreFree(h) ==
  LET w == handler[h].wp IN
  /\ IsAt(h, "waitFree")
  /\ \A a \in AgentsOf[w] : agent[a] = NoWp
  /\ Becomes(h, At("reserve", w, "-"))
  /\ UNCHANGED <<mission, queue, events_queue, agents, planned, runs>>

SendGetReady(h) ==
  LET w == handler[h].wp IN
  /\ IsAt(h, "reserve")
  /\ SendTo(AgentsOf[w], "reserve", w)
  /\ Becomes(h, At("waitReady", w, "-"))
  /\ UNCHANGED <<mission, queue, events_queue, agent, planned, runs>>

\* Mutant of ReadAgents: ready for any mission.
ReadAgentsMutant(h) ==
  LET w == handler[h].wp
      cleared == \A a \in AgentsOf[w] \cap Acknowledges : agent[a] # NoWp IN
  /\ IsAt(h, "waitReady")
  /\ Becomes(h, At("decideReady", w, IF cleared THEN "ready" ELSE "waiting"))
  /\ UNCHANGED <<mission, queue, events_queue, agents, planned, runs>>

\* waitAgentStatusForWorkProcess('READY', id): a tick reads the agents ...
ReadAgents(h) ==
  LET w == handler[h].wp
      cleared == \A a \in AgentsOf[w] \cap Acknowledges : agent[a] = w IN
  /\ IsAt(h, "waitReady")
  /\ Becomes(h, At("decideReady", w, IF cleared THEN "ready" ELSE "waiting"))
  /\ UNCHANGED <<mission, queue, events_queue, agents, planned, runs>>

\* ... and then the mission, and decides.
DecideReady(h) ==
  LET w == handler[h].wp IN
  /\ IsAt(h, "decideReady")
  /\ Becomes(h, At(CASE mission[w] \in {"canceled", "failed"} -> "failPreparation"
                     [] mission[w] \notin {"canceled", "failed"} /\ handler[h].val = "ready" -> "createRequests"
                     [] OTHER -> "waitReady",
                   w, "-"))
  /\ UNCHANGED <<mission, queue, events_queue, agents, planned, runs>>

\* A tick finds that the period of the wait is over.
WaitTimesOut(h) ==
  /\ LateAgents
  /\ handler[h].pc \in {"waitFree", "decideReady"}
  /\ Becomes(h, At("failPreparation", handler[h].wp, "-"))
  /\ UNCHANGED <<mission, queue, events_queue, agents, planned, runs>>

\* Mutant of FailPreparation: the error is only logged.
FailPreparationMutant(h) ==
  /\ IsAt(h, "failPreparation")
  /\ Becomes(h, Idle)
  /\ UNCHANGED <<mission, queue, events_queue, agents, planned, runs>>

\* The preparation ends with an update that no handler follows up.
FailPreparation(h) ==
  /\ IsAt(h, "failPreparation")
  /\ SetMission(handler[h].wp, "failed", {})
  /\ Becomes(h, Idle)
  /\ UNCHANGED <<queue, agents, planned, runs>>

\* The requests are created and inserted; when one of several inserts fails
\* the others are there.
CreateRequests(h) ==
  LET w == handler[h].wp IN
  /\ IsAt(h, "createRequests")
  /\ planned' = IF w \in Unplannable \ HalfPlanned THEN planned ELSE planned \cup {w}
  /\ Becomes(h, At(IF w \in Unplannable THEN "failPlanning" ELSE "markCalculating", w, "-"))
  /\ UNCHANGED <<mission, queue, events_queue, agents, runs>>

FailPlanning(h) ==
  /\ IsAt(h, "failPlanning")
  /\ SetMission(handler[h].wp, "planning_failed", {})
  /\ Becomes(h, Idle)
  /\ UNCHANGED <<queue, agents, planned, runs>>

MarkCalculating(h) ==
  /\ IsAt(h, "markCalculating")
  /\ SetMissionWhere(handler[h].wp, {"preparing resources", "dispatched", "executing"}, "calculating", {})
  /\ Becomes(h, Idle)
  /\ UNCHANGED <<queue, agents, planned, runs>>

PrepareSteps(h) ==
  \/ Prepare(h) \/ WriteSettings(h) \/ AgentsAreFree(h) \/ SendGetReady(h) \/ ReadAgents(h)
  \/ DecideReady(h) \/ FailPreparation(h) \/ CreateRequests(h) \/ FailPlanning(h)
  \/ MarkCalculating(h)

----------------------------------------------------------------------------
(* What module Orchestration refines, for a mission whose requests exist *)

PipelineExecutes(w) ==
  /\ w \in planned
  /\ mission[w] = "calculating"
  /\ SetMission(w, "executing", {})
  /\ UNCHANGED <<queue, handler, agents, planned, runs>>

PipelineFails(w) ==
  \E s \in {"assignment_failed", "planning_failed"} :
    /\ w \in planned
    /\ mission[w] \in RunningMission
    /\ SetMission(w, s, {})
    /\ UNCHANGED <<queue, handler, agents, planned, runs>>

PipelineCompletes(w) ==
  /\ w \in planned
  /\ mission[w] \in UncompleteMission
  /\ SetMission(w, "assignments_completed", {})
  /\ UNCHANGED <<queue, handler, agents, planned, runs>>

----------------------------------------------------------------------------
(* The end of a mission (module WorkProcess has the statements one by one) *)

HandleCanceling(h, w) ==
  LET e == MissionEvent("canceling", w) IN
  /\ Starts(h, e)
  /\ SetMissionWhere(w, {"canceling"}, "canceled", {e})
  /\ Becomes(h, At("cleanUp", w, "-"))
  /\ UNCHANGED <<queue, agents, planned, runs>>

HandleFailure(h, w) ==
  \E s \in {"assignment_failed", "planning_failed"} :
    LET e == MissionEvent(s, w) IN
    /\ Starts(h, e)
    /\ SetMissionWhere(w, {s}, "failed", {e})
    /\ Becomes(h, At("cleanUp", w, "-"))
    /\ UNCHANGED <<queue, agents, planned, runs>>

\* Whether the mission has canceled assignments is not modelled: either outcome.
HandleCompleted(h, w) ==
  \E s \in {"succeeded", "canceled"} :
    LET e == MissionEvent("assignments_completed", w) IN
    /\ Starts(h, e)
    /\ TakeAndLeave({e}, {})
    /\ Becomes(h, At("endMission", w, s))
    /\ UNCHANGED <<mission, queue, agents, planned, runs>>

EndMission(h) ==
  /\ IsAt(h, "endMission")
  /\ SetMission(handler[h].wp, handler[h].val, {})
  /\ Becomes(h, At("readEnded", handler[h].wp, "-"))
  /\ UNCHANGED <<queue, agents, planned, runs>>

\* cancelRequestsToMicroservicesByWPId and cancelWorkProcessAssignments
CleanUp(h) ==
  /\ IsAt(h, "cleanUp")
  /\ planned' = planned \ {handler[h].wp}
  /\ Becomes(h, At("readEnded", handler[h].wp, "-"))
  /\ UNCHANGED <<mission, queue, events_queue, agents, runs>>

\* onWorkProcessEnd reads the mission ...
ReadEnded(h) ==
  /\ IsAt(h, "readEnded")
  /\ Becomes(h, At("release", handler[h].wp, mission[handler[h].wp]))
  /\ UNCHANGED <<mission, queue, events_queue, agents, planned, runs>>

\* Mutant of Release: whatever the mission's outcome.
ReleaseMutant(h) ==
  LET w == handler[h].wp IN
  /\ IsAt(h, "release")
  /\ SendTo(AgentsOf[w], "release", w)
  /\ Becomes(h, IF w \in Range(Queue) THEN At("selectNext", w, "-") ELSE Idle)
  /\ UNCHANGED <<mission, queue, events_queue, agent, planned, runs>>

\* ... releases its agents ...
Release(h) ==
  LET w == handler[h].wp IN
  /\ IsAt(h, "release")
  /\ SendTo(AgentsOf[w], "release", w)
  /\ Becomes(h, IF w \in Range(Queue) /\ handler[h].val = "succeeded"
                  THEN At("selectNext", w, "-") ELSE Idle)
  /\ UNCHANGED <<mission, queue, events_queue, agent, planned, runs>>

\* ... and starts the next mission of the queue, if the one that ended had
\* succeeded when it was read.
SelectNext(h) ==
  /\ IsAt(h, "selectNext")
  /\ TakesNext(h, "startNext", At("stopQueue", NoWp, "-"))
  /\ UNCHANGED <<mission, queue, events_queue, agents, planned, runs>>

EndSteps(h) ==
  \/ EndMission(h) \/ CleanUp(h) \/ ReadEnded(h) \/ Release(h) \/ SelectNext(h)

----------------------------------------------------------------------------
(* The agents: a reservation is accepted by a free agent, and only a       *)
(* release from the same mission frees it.  Its report is saved at once.   *)

AgentActs(a) ==
  LET msg == Head(inbox[a]) IN
  /\ inbox[a] # <<>>
  /\ inbox' = [inbox EXCEPT ![a] = Tail(@)]
  /\ agent' = [agent EXCEPT ![a] =
       CASE msg.type = "reserve" /\ @ = NoWp -> msg.wp
         [] msg.type = "release" /\ @ = msg.wp -> NoWp
         [] OTHER -> @]
  /\ UNCHANGED <<mission, queue, events_queue, handler, planned, runs>>

----------------------------------------------------------------------------
QueueSteps(h) ==
  \/ SetRunning(h) \/ StartNext(h) \/ StopQueue(h) \/ \E w \in Wp : CancelMission(h, w)

Handle(h) ==
  \/ HandleRun(h) \/ HandleQueueCancel(h)
  \/ \E w \in Wp : \/ HandleInsertion(h, w) \/ HandleDispatched(h, w) \/ HandleCanceling(h, w)
                   \/ HandleFailure(h, w) \/ HandleCompleted(h, w)

Continue(h) == QueueSteps(h) \/ PrepareSteps(h) \/ EndSteps(h)

Init ==
  /\ mission = [w \in Wp |-> IF w \in Direct THEN "dispatched" ELSE "draft"]
  /\ queue = "none"
  /\ events_queue = [e \in Event |-> IF e.kind = "insertion" /\ e.wp \in Direct THEN 1 ELSE 0]
  /\ handler = [h \in Handler |-> Idle]
  /\ agent = [a \in Agent |-> NoWp]
  /\ inbox = [a \in Agent |-> <<>>]
  /\ planned = {}
  /\ runs = {}

Next ==
  \/ UserRuns \/ UserCancelsQueue
  \/ \E w \in Wp : \/ UserCancels(w) \/ PipelineExecutes(w) \/ PipelineFails(w)
                   \/ PipelineCompletes(w)
  \/ \E h \in Handler : Handle(h) \/ Continue(h) \/ WaitTimesOut(h)
  \/ \E a \in Agent : AgentActs(a)

Spec == Init /\ [][Next]_vars

(* Fairness: events are notified, computations go on, agents and pipelines *)
(* answer.  A wait counts its ticks, so it cannot go on for ever: its      *)
(* time-out is strongly fair because a tick is two steps.                  *)
Fairness ==
  /\ \A h \in Handler : /\ WF_vars(Handle(h)) /\ WF_vars(Continue(h))
                        /\ SF_vars(WaitTimesOut(h))
  /\ \A w \in Wp : WF_vars(PipelineFails(w) \/ PipelineCompletes(w))
  /\ \A a \in Agent : WF_vars(AgentActs(a))

FairSpec == Spec /\ Fairness

----------------------------------------------------------------------------
(* Properties *)

TypeOK ==
  /\ mission \in [Wp -> MissionStatus]
  /\ queue \in {"none", "run", "running", "stopped", "cancel"}
  /\ events_queue \in [Event -> Nat]
  /\ handler \in [Handler -> Task]
  /\ agent \in [Agent -> Wp \cup {NoWp}]
  /\ inbox \in [Agent -> Seq([type: {"reserve", "release"}, wp: Wp])]
  /\ planned \subseteq Wp
  /\ runs \subseteq 0..Len(Queue)

\* An agent is never at work for two missions: while a mission that waited
\* for its agents calculates or executes, no other one that shares an
\* acknowledging agent with it does.
ExclusiveAgents ==
  \A v, w \in Wp \ NoWait :
    /\ v # w
    /\ mission[v] \in {"calculating", "executing"}
    /\ mission[w] \in {"calculating", "executing"}
    => AgentsOf[v] \cap AgentsOf[w] \cap Acknowledges = {}

\* Every mission that is under way ends, also when another one holds its
\* agents and waits for more, when agents are late, when its requests cannot
\* be created, and whatever is going on with its queue at the time.  (A cancel
\* of a dispatched mission refutes this: the insertion overwrites it, and the
\* clean-up of the cancel takes the requests away that the mission waits for.)
MissionsEnd == \A w \in Wp : Underway(w) ~> ~Underway(w)

\* The agents of a mission that has ended are not kept reserved for it:
\* onWorkProcessEnd is to release the agents reserved by the work process.
AgentsReleased ==
  \A w \in Wp, a \in Agent : mission[w] \in EndStatus /\ agent[a] = w ~> agent[a] # w

\* The queue as its users see it: one mission after the other, the next one
\* when the one before has succeeded or when the queue is started again.
StageOf(s) ==
  CASE s = "draft" -> "waiting"
    [] s = "succeeded" -> "succeeded"
    [] s \in {"failed", "canceled"} -> "stopped"
    [] s \notin EndStatus \cup {"draft"} -> "underway"

Stage == [i \in DOMAIN Queue |-> StageOf(mission[Queue[i]])]

Sequence == INSTANCE SequentialQueue WITH Length <- Len(Queue), stage <- Stage

\* The events, handlers and computations of a queue implement that sequence,
\* in safety and in progress.
RunsInSequence == Sequence!Spec
=============================================================================
