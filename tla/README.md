# helyOS core: specifications, model checks and proofs

helyOS core runs *missions* (`work_processes`). A mission type has a *recipe*: an ordered list
of microservices to call. Each call is a row of `service_requests`; the answer of a *planner*
is turned into rows of `assignments`, which agents (vehicles, robots) carry out. All state is
in PostgreSQL; triggers write every change that matters into the table `events_queue` and
notify the node processes, whose handlers write the next change. Several nodes may run the
same handlers and the same one-second watchers over the same database, so a mission is a
distributed program whose only synchronisation is the `WHERE` clause of its updates. Around it
the nodes share Redis (roles, cached agents), RabbitMQ (agents) and web sockets (front end).
That program is what this directory specifies.

Source paths below are relative to `src/helyos_server/src/`; `SQL` means `src/helyos_database/`.

## 1. Inventory

| Component (source) | State | Operations | Hard parts | What makes it correct | Module |
|---|---|---|---|---|---|
| Service-request pipeline (`microservice_db_events_handler.ts`, `modules/microservice_orchestration.ts`, `microservice_communication.ts`, `microservice_event_watcher.ts`) | `service_requests`: status, processed, response | claim, call, save answer, poll, time out, fail, skip, activate next, release waiting, cancel | handlers of several events and watchers of several nodes overlap; reads before awaits | called once, after its dependencies; status sequence; completion only at the end; no job left at its microservice | `ServicePipeline` |
| End of a mission (`workprocess_db_events_handler.ts`, `modules/assignment_orchestration.ts`) | `work_processes.status` | cancel, fail, complete, clean up, release agents, start the next of the queue | cancel, failure and completion race | one outcome, released after it, always reached | `WorkProcess`, `MissionQueue` |
| Assignment pipeline (`assignment_db_events_handler.ts`, `modules/assignment_orchestration.ts`, `status_event_handler.ts`, watcher) | `assignments.status` | dispatch, report, succeed, cancel, fail, wrap up, activate next, release waiting | agents report while the core writes; unconditional updates | ordered once and after its dependencies; mission waits for the agents | `AssignmentPipeline` |
| Application of planner results (`microservice_event_handlers/*`) | rows it inserts, `assignment_dispatched` | createAssignment in three modes | not atomic; concurrent with both pipelines and with the mission's end | agents follow the plan | `Orchestration` |
| Mission preparation (`prepareServicesPipelineForWorkProcess`, insertion handler, `agent_communication.ts`) | mission, reserved agents, requests | insert, reserve, wait, create the requests | waits of 20 s racing a cancel; unconditional statuses; agents shared by missions | no agent at work for two missions; every mission ends | `MissionQueue` |
| Mission queue (`missionqueue_db_events_handler.ts`) | `mission_queue`, missions in it | run, cancel, start the next | read-then-write by two handlers | one mission at a time, in order | `MissionQueue`, `SequentialQueue` |
| Events queue and triggers (`database_event_subscriber.ts`, SQL) | `events_queue` | trigger, notify, pop, handle | unordered pops, no acknowledgement, crash, backlog | an event handled by one node; none waits for ever | `EventQueue`, `MissionDB` |
| Web socket notifications (`socket_services.ts`, `web_socket_communication.ts`) | a buffer per node | buffer, publish, dispatch | only the broadcaster's timer dispatches | no event lost or told twice | `EventQueue` |
| Role manager (`role_manager.ts`, `initialization.ts`) | two Redis keys, beliefs of each node | become leader, renew, announce, step down | lease expiry, read-then-renew, rejected calls | at most one leader acts; a dead leader is replaced | `RoleAssigner` |
| In-memory database (`mem_database_service.ts`, `redis_access_layer.ts`, `in_mem_db_flusher.ts`) | tables and buffers, Redis hashes, pending flushes | update, delete, flush, getData, reload | a count of promises, a time-out that adapts, two MULTIs, stale copies | no report lost without being counted; bounded backlog; caches catch up | `InMemDB` |
| Agent state reports (`rabbitmq_event_subscriber.ts`, `status_event_handler.ts`) | deliveries, the agent's row, its assignment | deliver, look up, update, ack, nack | prefetch, handlers of deliveries interleave, failing queries | every report delivered; those let pass settled | `AgentGateway` |
| Agent check-in and check-out (`checkin_event_handler.ts`, `checkout_event_handler.ts`) | the agent's row and broker account | insert, update, create account, answer | two first check-ins at once; deletion meanwhile | every check-in answered | `AgentGateway` |
| Agent requests and map results (`database_request_handler.ts`, `mission_request_handler.ts`, `yard_update_event_handler.ts`, `microservice_map_result.ts`) | `map_objects`: rows, cached and buffered copies | query, create, patch, delete, report, replace the map | two connections and a buffer that shares objects with queries; late selects | every request answered; rows settle at the newest version | `YardMap` |
| Start-up and configuration (`index.ts`, `initialization.ts`, `read_config_yml.ts`, `utils.ts`) | rows it registers, progress of each process | register services, missions, agents, configuration; exit, fork | several processes at once; crash between two inserts | no duplicates; no recipe abandoned; every process starts | `StartUp` |
| Message broker access (`services/message_broker/*`, `rbmq_topology.ts`) | accounts, connections, channels, queues | create accounts, connect, declare, reconnect | broker not up, interrupted, refusing | a channel to send with, again | `StartUp` |
| Database layer and schema (`services/database/*`, SQL) | tables | update, updateByConditions, updateMany, constraints | one statement is what is atomic | - | inside all of them |
| Contexts, instant actions, HTTP client, GraphQL plugin, dashboard, logging | - | I/O and data | - | - | section 7 |

How they interact: a handler never calls another component's handler; it writes a row, the
trigger queues an event, some node pops it. Direct calls exist inside one handler only
(handler -> orchestrator -> communication). Agents and microservices are reached over RabbitMQ
and HTTP and answer asynchronously or are polled. Roles decide which node consumes the agents'
queues, flushes the in-memory database and dispatches to the front end.

The hazards this makes are listed, with their lines and the properties about them, in
`PROJECT.json`.

## 2. Modules and how they correspond to the code

    DataModels            statuses and their groups (modules/data_models.ts)
      MissionDB           tables, events_queue, computations in flight, SQL statements
        WorkProcess       end of a mission
          ServicePipeline          requests      -> ServicePipeline_proofs, MCService
          AssignmentPipeline       assignments   -> AssignmentPipeline_proofs, MCAssignment
          Orchestration            both, and createAssignment between them
                                                 -> Orchestration_proofs, MCOrchestration
      MissionQueue        queue, preparation, reservation, several missions
                                                 -> MissionQueue_proofs, MCQueue
        implements SequentialQueue (abstract)
      AgentGateway        reports, check-in and check-out of an agent -> MCGateway
    YardMap               map objects, requests of agents, new maps   -> MCGateway
    EventQueue            events_queue over several nodes, front end  -> EventQueue_proofs
    RoleAssigner          leader and broadcaster leases               -> RoleAssigner_proofs
    InMemDB               cache and write-behind of one agent -> InMemDB_proofs, MCMemDB
    StartUp               processes, registration, broker     -> StartUp_proofs, MCStartUp

`Orchestration` instantiates the two pipelines (`Svc == INSTANCE ServicePipeline`,
`Asm == INSTANCE AssignmentPipeline`) over the same variables, so every action of theirs is an
action of the composition. The other modules are about different state and meet these at one
action each: what an event's handler does (`EventQueue`, `Handle`), what the pipelines do to a
mission between planning and end (`MissionQueue`, `PipelineExecutes`, `PipelineFails`,
`PipelineCompletes`), who is broadcaster (`EventQueue`, changed by any step) and who flushes
(`InMemDB`, `Leader`).

### The pipelines of a mission

**State.** `mission`, `service_requests`, `assignments` are the rows of one mission, reduced to
the columns that guards read. `events_queue` is a bag of the events that some handler reacts to.
`handler` holds the asynchronous computations in flight: `pc` names the SQL statement or call
that comes next, `row` the row it is about, `val` and `todo` what was read or received before an
`await` and is used after it. `calls`/`answered` and `sent`/`agent`/`done` are the outside world:
jobs given to microservices and their results, orders given to agents and what agents do.
`released` counts releases of the mission's agents.

**Steps.** One step is one SQL statement (or one call to the outside) together with the events
its triggers write: that is what the code makes atomic. A handler of *n* statements is *n*
actions, and the statements of other handlers come in between. A popped event that has done
nothing is not distinguishable from a queued one, so a handler's first statement takes its event.
Statements that a computation issues together without awaiting in between reach the server in
the order of issue (one `pg` client per node), and are modelled in that order where it matters
(`WriteAssignment`, stage by stage).

**Handlers.** `Handler` is the set of computations that may be in flight at the same time, over
all nodes; which node runs one makes no difference to the database.

Abstractions, each with its reason:

* A SQL statement does not fail; HTTP calls (`error` in `Replies`) and orders (`OrdersFail`) do.
* `determineServiceRequestStatus` (several selects and no write) is one step, `DetermineNext`:
  the statuses it looks for (`ready`, `skipped`, `completed`) are mostly stable. The mission status
  and the remaining requests that `wrapUpMicroserviceCall` reads around its update are read in
  one step each (`AfterReady`, `WrapUp`).
* The inserts of one plan are one step; the columns `next_assignments` and
  `depend_on_assignments` are there from the start (constants).
* What a response contains (`allow_dependent_steps`) is chosen when it is saved.
* A call that ends in an HTTP error gave no job to the microservice (`calls` counts jobs).
* A `RELEASE` failure action is, for this mission, a `CONTINUE`; the fallback mission, the
  missions it creates, instant actions and single assignments inserted by hand are left out.
* Columns no guard reads (`context`, `request`, `fetched`, dates) are left out, with the updates
  that write only them (`updateRequestContext`). The event these updates cause repeats a status
  whose handler the request has passed or has yet to pass.
* The early return for a service whose `service_type` is spelled like the class
  `Assignment planner` is left out: types are chosen by recipes.
* The pipelines start after the requests of the mission are inserted; `MissionQueue` is about
  what comes before. Nodes do not crash in them; `EventQueue` is about what a crash loses.

### MissionQueue and SequentialQueue

`mission` and `queue` are the statuses of several missions and of their queue, `handler` the
computations in flight as above, `agent` the mission each agent reports to be ready for (the
columns `status`, `wp_clearance` of its row), `inbox` the instant actions on their way to it,
`planned` the missions whose requests are inserted. The insertion handler (`HandleInsertion`),
`prepareServicesPipelineForWorkProcess` (`HandleDispatched`, `Prepare`, `WriteSettings`,
`FirstWait`, `SendGetReady`, `CreateRequests`, `MarkCalculating`, and the catch branches
`FailPreparation`, `FailPlanning`), each tick of `waitAgentStatusForWorkProcess` in its two steps
(`ReadAgents`, `DecideReady`), and the end of a mission (`EndMission`, `CleanUp`, `Release`, and
the start of the next mission) are separate statements. RUN and CANCEL of the queue are
`HandleRun`/`SetRunning`/`StartNext` and `HandleQueueCancel`/`StopQueue`/`CancelMission`. What
requests and assignments do in between is three steps. `agents.work_process_id`, written at two
places and read nowhere, is left out.

`SequentialQueue` is the promise: missions run one at a time, in their order, a success is
followed by the next mission, after anything else the user starts the queue again.
`RunsInSequence == Sequence!Spec` with the mapping `stage` from statuses to `waiting`,
`underway`, `succeeded`, `stopped` says that the events, handlers and computations implement it, with its
fairness. The user is a disciplined one (`UserRuns`): the queue is started once, and then once for
each mission at which it has stopped because that one ended without success (`runs` holds the places).

### EventQueue

A trigger inserts a row and notifies every listening node (`Trigger`); a notification makes a
node run `DELETE ... FOR UPDATE SKIP LOCKED` (`LockEvent`, and its commit), which returns any
unlocked row or none; the callback handles it, buffers or publishes it (`Handle`); a timer
dispatches the broadcaster's buffer (`Tick`), and every node's urgent events take its buffer along (`Publish`). A process may die at any point, with the row
locked (the row comes back) or popped (it is lost), and is forked again. `behind` counts, for
each node, the rows that waited when it began to listen and the queries that died.

### RoleAssigner

`leader` and `broadcaster` are the Redis keys; `node` holds, for each node, what it believes
(`amILeader`, `role`, `consuming`) and where its two loops are. The statements between two
awaits are the actions: `SET NX`, the callback `becomingLeader` (which opens consumers), the
`GET` and the renewing `SET` as two steps, `becomingFollower`. Time is abstracted: a key whose
holder is gone may expire; under a live holder it may expire at most `MaxLate` times; at most
`MaxErrors` calls are rejected.

### InMemDB

One agent with two versioned fields: `pose` (reported by messages) and `account` (changed in
the row by users, which fires `change_agent_security`). `update()` and `delete()` are two steps
(`UpdateBuffer`, the second part after the await); a flush is the read and the delete
of the shared buffer, the limit (`DispatchUpdatePromise`), the time-out of the next statement
(`DynamicallyChooseTimeout`) and the settled promise (`FlushDone`). The queries of a connection
are a sequence, since a `pg` client runs them in order. `Configs` are the deployments (with and
without Redis, realtime or buffered) with their loads; Init chooses one.

### AgentGateway

`queue` is the broker's state queue, `report` how far each delivery is, `client` the queries the
leader has sent and the server has yet to run, `cached` whether the leader's table knows the
agent; `getData` may ask the database again at any report (the code does so every two seconds).
`ValidateMessageSender` is the check of the account a report was sent with (`Content[m].sender`): the agent's own,
that of the agent which leads it, a stranger's, or one with a wrong signature or protocol. Every failing query (`QueryFails`)
takes the path of the code: ack, nack or neither ("ignored"). Check-ins run on any node: `ChecksIn` is the handler query by query, with the
insertion refused by the unique `uuid`, the anonymous account, the refusals (for want of the token, or by the
agent's row), failing look-ups and the reply;
`ChecksOut` and the deletion of the agent by a user run beside them.

### YardMap

`row` is the table `map_objects` of one yard, `memory` and `buffer` the node's copies, `connection` the
queries on its main connection, `flushed` those on the short one. A version stands for the content of
an object. A patch (`QueryDataBase`) is given to the in-memory database and to the row by the same
JavaScript object, from which `DatabaseLayer.update` deletes the id (`postg_access_layer.ts:204`): the
buffered copy then matches no row, which `buffer[o].id` records. `outdated` holds the objects whose newest version gave way to an older
one; a later write of the newest version, or a new one, takes an object out again. Copies of whole rows (`whole`), which
`createMapObjects` puts into the memory after its SELECT, write `deleted_at` back as null. `updateMap` marks the
old objects and inserts the new ones, one query each. `MCGateway` runs it beside `AgentGateway`, with which it
shares no state: one of the two works at a time.

### StartUp

`node` is how far each process is; each SQL statement of the registration is an action
(`SelectService`, `InsertService`, `SelectMission`, `InsertMission`, `InsertStep`, ...), refused
by the constraints of the schema (`ServiceRefused`, `MissionRefused`, `StepRefused`). `FlatServices`,
`FlatMissions`, `RecipeSteps` are `flattenServicesData` and the like: what the
code makes of the keys of a file, with its defaults. Accounts (`TryGuest`, `GuestCreatesAdmin`,
`CreateAccounts`, `CreationRefused`), connection, queues (`assertOrSubstituteQueue`) and consumers
follow; `Crash`, `BrokerStops` and `BrokerStarts` are the faults, `Resubscribe` and `Reconnect` what
the error handler of a connection does.

Bounds, all of them constants of a `.cfg`: `Handler` (computations in flight), `Req`, `Asg`,
`Cancelable` (statuses in which the user's cancel may arrive), `Replies`, `Choosers` (who may
leave out next steps), `Reports`, `QuickAgents` (may an agent report before the core has noted
that it executes), `OrdersFail`, `InvalidPlans`, `DispatchModes`; `LateAgents`; `MaxCrashes`, `MaxLate`, `MaxErrors`, `MaxCuts`, `MaxRefusals` (faults);
`MaxQueries`, and `poses`, `changes`, `deletions`, `flushes` of `Configs` (load);
`Loads`, `PREFETCH_COUNT`, `Works`, `MaxFailures` (requests of agents and failing queries). No other counter grows.

## 3. Runs

Every run passes. Deadlock is not checked: a mission that is over stops, and one that stops too
early is what the liveness properties find. `Symmetry` permutes `Handler` and is used only in runs without
liveness.

| Run | Instance | Shows |
|---|---|---|
| `service_chain` | A -> B -> C, B waits for assignments of A, A and B may leave out a next step, every reply, cancel while the mission runs | `TypeOK`, `RunsWithPermission` (the inductive form of `CalledAfterDependencies`), `NoPrematureCompletion`, `ReleasedAtEnd`, `OutcomeIsFinal` |
| `service_fork` | A -> {B, C} where C depends on A and B and is released by a watcher; replies `ready`, `pending`, `failed`, `time-out`, cancel while the services run | `CalledAfterDependencies`, `CalledOnce`, `StatusSequence`, `MissionTerminates`, `JobsEnd` |
| `assignment_plans` | planners P (a1 -> a2) and R (a3), quick agents, the order of a1 may fail, a2 and a3 continue on failure, cancel | `SentAfterDependencies`, `NoEarlyCompletion`, `OutcomeIsFinal` |
| `assignment_chain` | a1 -> a2, no quick agents, cancel | `SentOnce`, `AssignmentCycle` |
| `orchestration_chain` | planner P with a1, then service S that waits for it; invalid plans, two modes, cancel | `ServiceWaitsForAssignments`, `FollowsPlan`, `MissionTerminates` |
| `mission_queue` | queue m1, m2, m3 and a direct mission d1; m2 and d1 need a1 and a2, m1 and m3 a1; m1 and m3 cannot be planned, m3 does not wait, waits may time out, the user runs the queue again where it stops; no cancels | `RunsInSequence` (refinement of `SequentialQueue`), `MissionsEnd` |
| `mission_reservation` | m1 of a queue and d1, one agent, cancels of missions and of the queue | `ExclusiveAgents` |
| `roles_lease` | two nodes, two late renewals, one rejected call, one crash | `OneOfEach`, `StepsDown`, `LeaseTaken` |
| `event_queue` | two nodes, three events (published, buffered, neither), one crash | `HandledOnce`, `NotBehind`, `EventsTaken`, `ToldOnce` |
| `mem_db` | six deployments and loads: with and without Redis, realtime and buffered, up to five poses, changes of the account, a deletion | `PendingBounded`, `Settles`, `CachesCatchUp` |
| `gateway` | three reports (one without body, one sent by the agent's leader, one by a stranger) with a prefetch of two and one check-in, or two first check-ins, check-out and deletion; or requests of another agent: patches, creation, deletions, a mission, reported objects, a new map of the yard; one failure | `ReportsDelivered`, `ReportsSettled`, `AgentsAnswered` (`CheckInAnswered` and `RequestAnswered`), `MapSettles` |
| `start_up` | two nodes, two services of one type, a recipe of two steps, one crash, two interruptions, one refusal | `OneServiceOfType`, `RecipeInWork`, `ConnectionsDouble`, `NodesRun`, `SendsAgain` |

Why the bounds are enough. Two computations in flight: every disagreement of section 6 needs
two and is found with two, and a third only delays (the queue already holds any number of events
back). Two or three rows suffice for a chain: the code relates a request or an assignment to its
direct neighbours only, and three rows give one with both a predecessor and a successor. The fork
adds a request that waits. In it B has no next step, so the mission completes when B is
ready (see `NoPrematureCompletion` in section 6) while C waits and is called later; the properties of that
run are about the requests and the end, not about when the mission may complete. It leaves out HTTP errors,
which make its state graph seven times larger;
with `PairNext`/`PairDeps` `MissionTerminates` holds with `error` among the replies too, `JobsEnd` does not (section 6).
Three missions give one that follows and is followed, and two agents let m2 and d1 each hold the agent that the
other waits for. `MissionsEnd` with cancels is not part of a run: it holds for the instance of `mission_reservation` without the cancel of the
queue and without symmetry, and not for missions canceled while they are dispatched (section 6). Two nodes are enough
for a race for a key, a row or a name; that more of them change nothing is proved for
`EventQueue`, `RoleAssigner` and the registration in `StartUp`. `limitWaitingFlushes = 1` makes
five poses pass both thresholds (half the limit and twice it). A prefetch of two with three reports
lets the queue be blocked: by the report without body and the stranger's, or by a failed look-up and one of them. Two interruptions show that
connections double and not only grow.

Shapes with parallel rows are the ones in which the code departs from its documentation; they are
the subject of section 6, not of the runs. `OutcomeIsFinal` passes where `Cancelable` stops at `executing`,
and is refuted where it includes `assignments_completed`; `SentOnce`, `AssignmentCycle` pass for chains
with agents that are not quicker than the core; `RunsInSequence` passes where no plan is
inserted by half. The constants are the statement of what holds when.

**Mutants.** Each property comes with a mutant of one definition (`...Mutant`, next to the
definition it stands for): a dropped condition, a forgotten step, a retry. TLC finds the
property violated by it under the same `.cfg`.

## 4. Fairness

All fairness is weak but for one action, and each clause is a property of the scheduling:

* A computation in flight takes its next step (the event loop runs and statements return); a
  queued event is handled (each event has a notification of its own; `EventQueue` shows what that rests on).
* The watchers' `setInterval` ticks, so each pending request is polled, each waiting row looked at
  and each cancel sent to its microservice, per row (every tick looks at all rows). `PollService` is fair, not
  its answer: a poll saves an answer or a time-out when the service has not answered in time, so
  "still pending for ever" is excluded by the time-out of the code (`microservice_event_watcher.ts:45`)
  and not by an assumption about the service.
* `MissionQueue`: a wait counts its ticks and gives up at a limit, so `WaitTimesOut` is strongly
  fair: the agents may become ready and unready between ticks, and the wait ends all the same.
* Agents are assumed to end what they were ordered to do (`AgentEnds`, `AgentActs`,
  `PipelineFails \/ PipelineCompletes`): the core has no time-out for them.
* `RoleAssigner`: loops go on, a dead process is forked again (`cluster.on('exit')`), a key nobody
  renews expires. `EventQueue`: notifications are reacted to, timers tick.
* `InMemDB`: the flush timer ticks, statements return or time out. Messages of the agent are not
  fair: `CachesCatchUp` is stated for deployments whose agents go on sending (`reloads`), with `GetData` fair.
* `AgentGateway`, `YardMap`: the broker delivers, queries return or fail, the flush timer ticks. `StartUp`: processes go on and a
  stopped broker starts again; crashes and interruptions are never assumed.
* The user is never assumed to cancel, run or delete anything.

## 5. Proofs

All proofs hold for every value of the constants that satisfies the named assumptions of the
module, with any number of rows, nodes, computations and faults.

**ServicePipeline_proofs** (`RowAssumption`, `PipelineAssumption`, `CancelableAssumption`,
`ServiceAssumption`): `PermissionInvariant` (`RunsWithPermission`), `TypeCorrect` (`TypeOK`),
`DependenciesAnswerFirst` (`CalledAfterDependencies`: no microservice is given a job before those of
all the steps it depends on have delivered a result).
`CalledAfterDependencies` is not inductive: a job is given by a computation that looked at the
request long ago, the request was made ready by another that looked at its dependencies before
that. `RunsWithPermission` says that every place the permission can be in carries it: a row that
is ready for service, dispatched, pending or ready (`StatusPermitted`), a computation about to
send, to save an answer, to release or to write back a decision (`TaskPermitted`), and that
"ready" means the result was delivered. Because results once delivered stay delivered
(`PermissionGrows`), a decision may be as old as it likes and stays justified, which is why the
stale write-back of section 6 breaks the status sequence but not this. The proof has lemmas for
what one statement does, three kinds of steps, one lemma per group of actions with one
step per action, and a last step by temporal reasoning.

Five more theorems each name the hypothesis under which the property holds; a row of section 6 shows that
it fails without:
- `AgentsReleasedAtEnd` (`ReleasedAtEnd`) and `OutcomeStays` (`OutcomeIsFinal`), if no completed mission is
  canceled (`CanceledEarly`). `EndsOnce`: the end of the mission is at one place, in an event of its status, with one
  computation, or behind it, and where it is decides what the mission's status may be.
- `JobsGivenOnce` (`CalledOnce`) and `StatusesInSequence` (`StatusSequence`), if every request is next of one other at
  most (`Forest`). `EachOnce`: a request that waits, or a copy of which is held, is untouched (`Fresh`), the
  copy is held by the one computation that follows up the request it is next of, one event has it dispatched
  (`DispatchedOnce`), one reports its result and one computation follows that up (`ReportedOnce`). Each part needs the
  others: a second report would make a second copy, and a second copy a second job.
- `CompletedAfterAll` (`NoPrematureCompletion`), if moreover the last request depends on all others
  (`LastOfAll`). `SettledFirst`: what a request that was let run depends on is settled for good (ended, and no copy
  of it held), so that the result of the last request comes after all.

`NextAdvances` says once, for every action, what a step may do about one request (`Still`, or one of ten moves); the
last three theorems follow from that without a look at the actions.

**AssignmentPipeline_proofs** (the same row assumptions and those of the plan):
`OrderedAfterDependencies` (`SentAfterDependencies`) and `PlanTypeCorrect`. `PlanInvariant` adds
to the two that a completed row's agent is done (`done`), that events report only permitted
rows (`EventsPermitted`) and that each computation carries its permission (`TaskPermitted`): the
permission travels from the agent's report to the row, from the row to a watcher's decision or a wrap-up, to
the next row, its event, the handler and the order. `OutcomeStays` (`OutcomeIsFinal`, under `CanceledEarly`) rests on
`CompletedOnce`: here the cleanups of several failures may overlap, and only the completion of the mission is single.

`AgentsOrderedOnce` (`SentOnce`) and `CycleKept` (`AssignmentCycle`) have two hypotheses. `PlanOfOne`: an assignment follows
one other at most, and depends on that one. `AgentsReportEnds`: agents report ends only, and after `executing` has been
saved. The run `assignment_chain` satisfies both. `OneStart` says that the start of an assignment is at one place at a time
(`Exclusive`): with the wrap-up of the one before it, in its row that waits, in its event or with the computation that
orders the agent. That needs the one before it to be followed up once, which the code does not ensure by itself:
an end and a cancel of the same assignment are followed up separately. So the invariant goes by families: an
assignment goes on and nothing is done about those after it (`Going`), or they are canceled for good (`Barren`), or it has
not succeeded and never will, so that those after it wait without being started (`Doomed`), or its success is followed up
once (`Wrapping`). `Advance` says for every action what a step does about one assignment (`Still`, one of fifteen moves, or
what the cleanup does), and `AdvanceOnce` is proved from that without a look at the actions. Each hypothesis is needed:
TLC refutes `AssignmentCycle` for `JoinNext`, for a2 that does not depend on a1, and with quick agents
or reports of `executing` (three computations).

`CompletedWhenOver` (`NoEarlyCompletion`, same hypotheses) is about a look at all assignments that is acted upon later. It
rests on what stays true once it holds: an agent has done with an assignment (`Over`: it was carried out, or it is
`Doomed`). `CompletedLate` says that either all agents have done with all assignments (`AllOver`), or the mission is neither
completed nor about to be (`Early`); and in the latter case, as long as the mission has a status that the completion may write
over, nothing of it is being canceled (`Unhurt`: no event, row, agent or computation of a cancel), so that a computation
which finds no assignment open finds them succeeded or failed, hence over. `Unhurt` is needed because a canceled row counts
as complete although its agent still stops; `Noticed`, because a row that says failed must not be of an agent at work. When
the completion is written, and over which status, does not matter then; a user may also cancel a completed
mission. The chain that `assignment_chain` runs satisfies the hypotheses. Quick agents do not: with two computations, as
in `assignment_plans`, the property still holds, with three TLC refutes it for the chain. An agent reports its end before
`executing` is saved, which writes over that end; the cleanup of a canceled mission cancels the row that looks alive, the
assignment is wrapped up again and the next one, which has failed, is set back and ordered a second time. That is the
reason why `SentOnce` fails too.

**EventQueue_proofs** (`EventAssumption`, `FiniteAssumption`): `EventHandledOnce` (`HandledOnce`)
from `SafetyInvariant`, which adds that a lock is held on a row of the table by one query
(`LocksHold`) and that every inserted event is at one place only (`OnePlace`); `NeverBehind`
(`NotBehind`) counts rows, notifications, locks and `behind` with the theorems on cardinalities, one lemma
for each way a step changes the count (`BehindStep`).

**RoleAssigner_proofs** (`RoleAssumption`): `AtMostOneOfEach` (`OneOfEach`) from `LeasesHold`. What
a node believes does not follow from the keys in one step: `HoldsLeader` and `HoldsBroadcaster` tie a
belief to the place of the loop that holds it, and that place to the key, as long as nobody was late and
nothing was rejected.

**StartUp_proofs** (`StartAssumption`, `NamesAssumption`, `ListsAssumption`): `OneServiceRegistered`
(`OneServiceOfType`) and `RecipesInWork` (`RecipeInWork`), from an invariant that adds the types of the
tables and, for each place of a process, which entry of which list it is at (`Placed`).
`ConnectionsBounded` (`ConnectionsDouble`) counts what a recovery under way will add (`Load`): that at most doubles with each
interruption (`LoadBounded`). Its hypothesis `Powers` is the definition of powers of two, which none of the provers has.

**InMemDB_proofs** (`ConfigAssumption`): `FlushesBounded` (`PendingBounded`), inductive together with the types.

**MissionQueue_proofs** (`QueueAssumption`): that no agent is at work for two missions
(`ExclusiveAgents`) is proved three times, for the three reasons for which it holds.
- `ReservationSafe`: in every behaviour in which no mission comes back after its end
  (`NothingRevived`), whatever is canceled. `EndsGone` says that all that leads to a release (events that end
  a mission, computations of its end, releases in an inbox) is about a mission that is gone;
  `Reserved` that a mission not gone whose agents have been seen ready still has them.
- `ShortQueueExclusive`: for queues of at most one mission, any number of direct ones beside it and
  the cancels nothing overwrites (`CancelAssumption`), `NothingRevived` follows: each mission is inserted,
  dispatched and prepared once (`OncePrepared`), and the queue is started once (`StartedOnce`).
- `UndisturbedExclusive`: for queues of every length when nothing is canceled and planning inserts all requests
  or none (`Undisturbed`). Each mission ends once (`EndedOnce`) and not before it is planned
  (`EarlyUntilPlanned`), one thing at a time goes on with the queue (`OneAtOnce`), and what is
  started next comes after ended missions only (`StartersNext`, `InOrder`). These need one another:
  a second end of a mission would start a second successor, and two successors would end and be prepared out of order.
The restrictions are those of the code: a cancel overwritten by the insertion handler, by the settings or by the start of the
queue brings a mission back whose release is on its way, a cancel that races the completion ends a
mission twice, and a half planned mission is set to planning_failed after it succeeded (section 6).
From the last invariant (`QueueHolds`) follows `ImplementsSequence`: under `Undisturbed`, the events, handlers
and computations implement `SequentialQueue` but for its fairness, `Spec => Sequence!Safety`:
the first states map to first states, and each action to a step of the sequence or to a stutter.

`RunsOneAtATime` says what that promise means, `Sequence!Safety => []Sequence!OneAtATime`, and `MissionsOneAtATime`
carries it over the refinement to the handlers.

**Orchestration_proofs** (the assumptions of both pipelines and `PlansApart`: a planner's response orders its own
assignments only) is about the two pipelines at once, so that each invariant meets every action of both.
`TypeCorrect`, `PlanFollowed` (`FollowsPlan`) and `AssignmentsFirst` (`ServiceWaitsForAssignments`).
Every action is shown to be a `Step`: types, `Advance` (what a step may do about the row, the flag, the events, the job and the
task of one request) and `AssignmentsAdvance` (assignments turn up with their plan, succeed by an agent's report, and
stay); the two pipelines bring their own copies of the tables' statements, which are first shown to be the same. The
invariants follow from `Step` alone.
- `InOrder`, for `PlanFollowed`: a request that runs (its row, a job, a computation that holds a copy of it or is about to
  release or send it) depends on answered ones only, and all that follows from a result (`Heard`: the status
  ready, its event, the computations that insert and dispatch a plan, any trace of an assignment in the tables, the queue or at
  an agent) means that the result was delivered. It needs no hypothesis on the recipe.
- `Waits`, for `AssignmentsFirst`, needs that a service waits only for planners that are first steps and that nothing else
  leads to the service (`PlannerFirst`, as in `orchestration_chain`). A planner's assignments are inserted
  once (`PlannedOnce`: its row, the event of its result and the computation that inserts stand for that one after the
  other); before, nobody touches the service (`Untouched`); once the service runs, all its planners are done
  with inserting and all their assignments carried out (`Settled`). Without the hypothesis a copy of the planner's row that was
  read before is written back, the planner answers again and its assignments turn up after the service was called: TLC
  refutes the property for `JoinNext` (section 6).

Only model-checked: liveness and what carries fairness (of `RunsInSequence` the progress), which need `ENABLED` or
induction over data. Every safety invariant of the runs is a theorem, most of them under a named hypothesis.

## 6. Disagreements between the code and what the repository says

TLC refutes each of the following; name the property in a `.cfg` with the constants given
(defined in the MC module), the others as in the run named first; sets of rows that the changed
instance does not have are empty (`Choosers`, `WaitAssignments`; in `gateway` the check-ins and the requests), `SYMMETRY` is dropped, and
where a property without liveness is refuted `Spec` will do.

| Base | Property and constants | What happens | What a text says |
|---|---|---|---|
| `service_chain` | `StatusSequence`; `JoinNext`, `JoinDeps`, `Cancelable = {}`, `Replies = {"ready"}`, no choosers | `activateNextServicesInPipeline` reads whole rows (`microservice_orchestration.ts:548`), awaits, and writes them back without a condition (l.555): of two parallel requests, the second to finish sets a dispatched next request back, and it is called again | `microservice_db_events_handler.ts:26` "Status sequence: not_ready_for_service => wait_dependencies => ready_for_service  => pending => ready \| failed \| canceled" |
| `service_chain` | `CanceledIsFinal`; the same with `Cancelable = {"calculating"}` | the same write-back brings a canceled request back | `tests/10-cancelled-complex-mission.test.js:27` |
| `service_chain` | `NoPrematureCompletion`; `Req = {"A", "B"}`, `ParallelNext`, `ParallelDeps` | the mission is read with the column `status` only (l.449), so `wproc.id` is undefined and no uncompleted service is found (l.453): the first of two parallel services completes the mission | `microservice_orchestration.ts:426` "It checks if the work process is completed, i.e., if there any other requests to be dispatched or if there are any uncompleted assignments." |
| `service_fork` | `SkipPropagates`; `ChainNext`, `ChainDeps`, `Choosers = {"A"}` | B is skipped; nothing looks at C again, and the mission hangs | `microservice_orchestration.ts:597` "if this request has any dependent previous requests that were skipped, skip this request as well" |
| `service_fork` | `JobsEnd`; `error` added to `Replies` | a cancel or a poll that fails marks the row as failed and processed (`microservice_event_watcher.ts:62`, `92-101`); nothing tries again, and the microservice keeps the job | - |
| `service_chain` | `OutcomeIsFinal`; `PairNext`, `PairDeps`, `Cancelable = {"assignments_completed"}` | canceled, then succeeded: the completion handler writes without a condition (`workprocess_db_events_handler.ts:150`) | `tests/10-cancelled-complex-mission.test.js:46` "Mission status is canceled" |
| `assignment_chain` | `MissionTerminates` under `FairSpec`; `Continues = {"a1"}`, `Reports = {"succeeded", "failed"}` | a1 fails and is continued; a2 waits for the status completed for ever (`microservice_event_watcher.ts:138`) | `data_models.ts:6` "The system continues with the next steps despite the failure." |
| `assignment_chain` | `AssignmentCycle`; `ParallelNext`, `ParallelDeps`, `QuickAgents = TRUE` | executing is written over the agent's succeeded (`assignment_db_events_handler.ts:53`), and nothing ends the assignment | `data_models.ts:116` "TO_DISPATCH => EXECUTING => SUCCEEDED => COMPLETED" |
| `assignment_chain` | `AssignmentCycle`, `NoEarlyCompletion`; three assignments with `JoinNext`, `JoinDeps`, `OwnerP3` | `activateNextAssignmentInPipeline` sets an assignment back that already runs | the same |
| `assignment_chain` | `NoEarlyCompletion`; `QuickAgents = TRUE`, three computations (`Handler = {h1, h2, h3}`) | executing is written over completed, the cleanup of a cancel has the row wrapped up again, and the next assignment, which has failed, is ordered again | the same |
| `assignment_chain` | `ReleasedAtEnd`; `ParallelNext`, `ParallelDeps` | the agents are released twice | `tests/02-cancelled-mission.test.js:54` |
| `assignment_chain` | `CancelReachesAgent` under `CoreFairSpec` | an order sent while the mission is canceled is not followed by a cancel | `tests/02-cancelled-mission.test.js:30` |
| `orchestration_chain` | `SentAfterDependencies` (of `AssignmentPipeline`); `Req = {"P"}`, `AloneNext`, `OwnerThree`, `ThreeNext`, `ThreeDeps`, `DispatchModes = {"dispatch_order_array"}` | all assignments are set to be dispatched before the order is made (`microservice_assignment_result.ts:179`) | `docs/helyos_path_planner_services.json:205` "1st [0], 2nd [1], 3rd [2,3]" |
| `orchestration_chain` | `StatusSequence` | the update of `assignment_dispatched` reports READY a second time | as in the first row |
| `orchestration_chain` | `NoPrematureCompletion` | the assignment ends while S is in a status that `UNCOMPLETED_SERVICE_STATUS` does not hold | as in the third row |
| `orchestration_chain` | `ServiceWaitsForAssignments`; P, Q -> S (`JoinNext`, `JoinDeps`) | S looks for the assignments of P before they are inserted | - |
| `mission_queue` | `AgentsReleased` | a preparation that fails writes `failed`, which no handler reacts to: agents already reserved stay reserved (`microservice_orchestration.ts:349`, `380`) | `assignment_orchestration.ts:149`; `tests/08-failed-mission.test.js:41` |
| `mission_queue` | `RunsInSequence`; `HalfPlanned = {"m2"}` | some inserts of requests fail: the mission succeeds by the others and is then set to planning_failed | - |
| `mission_reservation` | `MissionsEnd` under `FairSpec`; `Cancelable = {"dispatched"}`, `CancelsQueue = FALSE` | the insertion handler writes over the cancel (`workprocess_db_events_handler.ts:69`) and the mission is planned; the handler of the cancel then cancels its requests, and the mission stays in calculating for ever | - |
| `event_queue` | `FrontEndTold` | what a node that is not the broadcaster has buffered waits for that node's next urgent event; without one it is never dispatched (`web_socket_communication.ts:51`) | - |
| `roles_lease` | `LeaderWorks`; `MaxLate = 0`, `MaxErrors = 0` | a node that is broadcaster never competes for the leader's key: with the other node gone there is no leader until it is back | - |
| `gateway` | `FinalStatusKept`; `Report = {1, 2}`, `Content <- Quick`, `Loads <- ReportsOnly`, `MaxErrors = 0` | the guard of `evaluateAssignmentUpdate` and its update are two queries; when `getData` asks the database again, the next report overtakes, and executing is written over succeeded (`status_event_handler.ts:36-44`, `85`) | `data_models.ts:116` |
| `start_up` | `ConsumesAgain` | `recoverCallback` gets one channel where `helyosConsumingMessages` takes an array, throws, and is not passed to the retry: after an interruption nothing consumes | `rabbitMQ_services.ts:144` "Recovering..." |

Further observations the models make, without a text that says otherwise:

* A cancel of a mission is overwritten by the insertion handler (`workprocess_db_events_handler.ts:69`, with the end above) and with
  the settings (`microservice_orchestration.ts:329`), and is ignored by the wait for free agents (`agent_communication.ts:306`).
  A cancel that races the completion starts two next missions of the queue.
* The cancel of a queue writes `canceling` without a condition and reaches executing missions only; without one the queue
  is not even marked as stopped. RUN written while it runs,
  which the user of the model does not do, dispatches the next mission beside the first. The queue stays `running` after
  a failed mission; `stop_on_failure` is read nowhere. A mission type without plan rows stays in calculating.
* A job that a call in flight hands over after its row was canceled never gets its id into the database
  (the update at `microservice_communication.ts:65` then matches no row), so nothing can cancel it: `JobsEnd` stated from the handing over of a
  job (`calls`) instead of from the status pending is refuted in `service_fork`.
* Two missions that wait for the agents of each other both time out.
* A microservice that answers `canceled` by itself leaves the mission without a next step.
* In `InMemDB`, `Settles` breaks when handling modes are mixed or the leader moves; a lock that was refused is released
  all the same; the buffered flush and `DataRetriever` write a stale account back (`mem_database_service.ts:341`, `589`),
  which the periodic reload repairs.
* A report whose agent or whose agent's leader cannot be looked up, or whose sender is refused, is neither acknowledged nor rejected
  (`rabbitmq_event_subscriber.ts:364`), as one without body (l.361); `PREFETCH_COUNT` of them stop the state queue.
  A check-in during which the agent is deleted between its two look-ups is not answered.
* `MapSettles` excuses an object while its newest version is overtaken: the SELECT of `createMapObjects` replaces a newer copy of an object by an older row, and
  so may a flush; a buffered whole row restores an object that `updateMap` has marked as deleted; two new maps at once leave the union of
  both; `deleteMapObjects` leaves the cached copies (`database_request_handler.ts:146`), where `deleteMapObjectByIds` removes them.
* The log of an error of a service without request (`parseLogData`, `systemlog.ts`) throws, so the outer catch of
  `processMicroserviceRequest` (`microservice_communication.ts:95`) does not set the request to failed.
* A second check-in that arrives during the first gets 500; two anonymous ones on two nodes may leave the agent with an
  overwritten password; refused check-ins get no reply.
* A crash between a mission type and the steps of its recipe leaves the type without them for ever; disabled services and
  `rbmq_config` rows may be duplicated; an unknown context key gives a column `undefined` and a service that is never registered.
* A queue declared before with another TTL makes every start fail (`DeclaredTtls` with a third value refutes `NodesRun`), as do
  refusals of the broker's API on every node (`MaxRefusals` equal to the number of nodes).

## 7. Not modelled, and why

* *Contexts*, *instant actions of users*, what the selects of `queryDataBase` return, the origin and the map data of a
  yard: data passed through; no status depends on them.
* *HTTP client*, *GraphQL plugin*, *logging*: I/O. What a microservice may answer is `Replies`.
* *Dashboard*: a client; its part is the user of each module.
* Inside modelled components: the fallback mission and hand-made assignments, the algorithm of
  `createServiceRequestsForWorkProcessType` (the graph of requests is a constant), map objects in Redis (the
  same code as agents), encryption and the computation of signatures (that one is refused is modelled), rate limits, rooms of the web sockets, the visualization queues,
  reconnection of `pg`.

## 8. What is left

1. `createServiceRequestsForWorkProcessType` as operators, against the graph the recipe defines, for recipes of up to
   three steps.
2. `ExclusiveAgents` for queues of several missions that are canceled at harmless moments only.
3. A leader that moves during a flush: `InMemDB` composed with `RoleAssigner`.
