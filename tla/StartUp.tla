------------------------------ MODULE StartUp ------------------------------
(***************************************************************************)
(* The start of the node processes of a cluster (index.ts): each registers *)
(* the services, missions and agents of the configuration files in the     *)
(* common database (initialization.ts, read_config_yml.ts), then creates   *)
(* the accounts of the broker, connects to it and declares the queues      *)
(* (rabbitMQ_services.ts, rbmq_topology.ts); and what becomes of a node    *)
(* when a process dies or the broker is interrupted.                       *)
(*                                                                         *)
(* A step is one SQL statement or one connection.  The nodes share the     *)
(* files and the environment, where CREATE_RBMQ_ACCOUNTS is set.  Lists of *)
(* a file are sequences of [name, entries], the entries being a function   *)
(* from yml keys.  The state queue stands for the queues with arguments.   *)
(***************************************************************************)
EXTENDS Integers, Sequences, FiniteSets, SequencesExt

CONSTANTS
  Node,
  ServicesYml, MissionsYml,  \* the files under /etc/helyos/config
  AgentKeys,                 \* the files of agent_public_keys
  Ttl,                       \* TTL_STATE_MSG, as configured
  DeclaredTtls,              \* what the queue may have been declared with before (0: not at all)
  MaxCrashes,                \* how many processes die by themselves
  MaxCuts,                   \* how often the broker is interrupted
  MaxRefusals                \* how many creations of accounts the broker's API refuses

ASSUME StartAssumption ==
  /\ ServicesYml # <<>> /\ MissionsYml # <<>> /\ AgentKeys # <<>>
  /\ Ttl \in Nat \ {0} /\ DeclaredTtls \subseteq Nat
  /\ MaxCrashes \in Nat /\ MaxCuts \in Nat /\ MaxRefusals \in Nat

\* The names are the keys of an object of the file.
ASSUME NamesAssumption ==
  /\ \A i, j \in DOMAIN ServicesYml : ServicesYml[i].name = ServicesYml[j].name => i = j
  /\ \A i, j \in DOMAIN MissionsYml : MissionsYml[i].name = MissionsYml[j].name => i = j

\* The lists, and the recipes, are sequences.
ASSUME ListsAssumption ==
  /\ ServicesYml \in Seq(Range(ServicesYml)) /\ MissionsYml \in Seq(Range(MissionsYml))
  /\ \A i \in DOMAIN MissionsYml :
       LET entries == MissionsYml[i].entries IN
       "recipe" \in DOMAIN entries => entries["recipe"] \in Seq(Range(entries["recipe"]))

VARIABLES
  services,      \* rows of services, by name
  types,         \* names of work_process_type
  plans,         \* rows of work_process_service_plan of each type
  agents,        \* rows of agents: "none", "plain" (without its key) or "keyed"
  rbmq_config,   \* how many rows rbmq_config has
  accounts,      \* the broker has no account of helyOS, the admin's, or helyos_core's too
  queueTtl,      \* x-message-ttl of the state queue (0: it does not exist)
  broker,        \* the broker answers
  node,          \* where each process is
  crashes, cuts, refusals

db == <<services, types, plans, agents, rbmq_config>>
amqp == <<accounts, queueTtl, broker>>
budget == <<crashes, cuts, refusals>>
vars == <<db, amqp, node, budget>>

----------------------------------------------------------------------------
(* The configuration files *)

ServiceColumn ==
  [domain |-> "class", type |-> "service_type", url |-> "service_url", enable |-> "enabled",
   apikey |-> "licence_key", config |-> "config", is_dummy |-> "is_dummy",
   timeout |-> "result_timeout", availability_timeout |-> "availability_timeout",
   health_endpoint |-> "health_endpoint", description |-> "description"]

ContextColumn ==
  [all_agents_data |-> "require_agents_data",
   mission_agents_data |-> "require_mission_agents_data",
   require_map_objects |-> "require_map_objects", map_data |-> "require_map_data"]

Or(f, k, default) == IF k \in DOMAIN f THEN f[k] ELSE default

\* Keys that are not known are skipped, those of a context are not checked.
FlattenService(s) ==
  [name |-> s.name,
   service_type |-> Or(s.entries, "type", "NULL"),
   enabled |-> Or(s.entries, "enable", FALSE),
   columns |-> {"name", "is_dummy"}
               \cup {ServiceColumn[k] : k \in DOMAIN s.entries \cap DOMAIN ServiceColumn}
               \cup {Or(ContextColumn, k, "undefined") : k \in Or(s.entries, "context", {})}]

FlatServices == [i \in DOMAIN ServicesYml |-> FlattenService(ServicesYml[i])]

FlattenMission(m) ==
  [name |-> m.name,
   on_assignment_failure |-> Or(m.entries, "on_assignment_failure", "FAIL_MISSION")]

FlatMissions == [i \in DOMAIN MissionsYml |-> FlattenMission(MissionsYml[i])]

\* A mission without a recipe has no step.
RecipeSteps(i) ==
  LET steps == Or(MissionsYml[i].entries, "recipe", <<>>) IN
  [j \in DOMAIN steps |->
     [step |-> steps[j].step, depends_on_steps |-> Or(steps[j], "dependencies", {})]]

----------------------------------------------------------------------------
(* The tables *)

Names(list) == {list[i].name : i \in DOMAIN list}

\* The rows the indices of the tables refuse: a second enabled service of a
\* type, a type or an agent twice, a step twice in a type.
ServiceRefused(s) ==
  \/ "undefined" \in s.columns
  \/ /\ s.enabled
     /\ \E i \in DOMAIN FlatServices : /\ FlatServices[i].enabled
                                       /\ FlatServices[i].service_type = s.service_type
                                       /\ services[FlatServices[i].name] > 0

MissionRefused(m) ==
  \/ m.name \in types
  \/ m.on_assignment_failure \notin {"FAIL_MISSION", "CONTINUE_MISSION", "RELEASE_FAILED"}

StepRefused(m, s) == \E row \in plans[m] : row.step = s.step

----------------------------------------------------------------------------
(* The processes.  conns: open connections; resubscribing, reconnecting:   *)
(* calls of connectAndOpenChannels with and without subscribe that wait    *)
(* for the broker; channel: what mainChannelPromise resolves to.           *)

NodeState ==
  [pc: {"down", "start", "selectService", "insertService", "selectMission", "insertMission",
        "insertStep", "selectAgent", "updateAgent", "insertAgent", "readConfig", "insertConfig",
        "listen", "accounts", "wait", "connect", "schema", "consume", "running"},
   at: Nat, step: Nat, asGuest: BOOLEAN, channel: {"none", "open", "lost", "rejected"},
   consuming: BOOLEAN, conns: Nat, resubscribing: Nat, reconnecting: Nat]

Down == [pc |-> "down", at |-> 1, step |-> 1, asGuest |-> FALSE, channel |-> "none",
         consuming |-> FALSE, conns |-> 0, resubscribing |-> 0, reconnecting |-> 0]

At(n, pc) == node[n].pc = pc
Sets(n, state) == node' = [node EXCEPT ![n] = state]
Goes(n, pc) == Sets(n, [node[n] EXCEPT !.pc = pc])

\* The next entry of a list, or what follows the list.
NextEntry(n, list, pc, then) ==
  Sets(n, IF node[n].at < Len(list)
            THEN [node[n] EXCEPT !.pc = pc, !.at = @ + 1, !.step = 1]
            ELSE [node[n] EXCEPT !.pc = then, !.at = 1, !.step = 1])

NextService(n) == NextEntry(n, ServicesYml, "selectService", "selectMission")
NextMission(n) == NextEntry(n, MissionsYml, "selectMission", "selectAgent")
NextAgent(n) == NextEntry(n, AgentKeys, "selectAgent", "readConfig")

\* A process is forked, when the cluster starts or for a worker that died.
Fork(n) ==
  /\ At(n, "down")
  /\ Goes(n, "start")
  /\ UNCHANGED <<db, amqp, budget>>

\* The clients of the database are connected.
Start(n) ==
  /\ At(n, "start")
  /\ Goes(n, "selectService")
  /\ UNCHANGED <<db, amqp, budget>>

SelectService(n) ==
  /\ At(n, "selectService")
  /\ IF services[FlatServices[node[n].at].name] = 0
       THEN Goes(n, "insertService") ELSE NextService(n)
  /\ UNCHANGED <<db, amqp, budget>>

\* Mutant of InsertService: the index only_one_type_enabled is ignored.
InsertServiceMutant(n) ==
  LET s == FlatServices[node[n].at] IN
  /\ At(n, "insertService")
  /\ services' = [services EXCEPT ![s.name] = @ + 1]
  /\ NextService(n)
  /\ UNCHANGED <<types, plans, agents, rbmq_config, amqp, budget>>

\* An insertion that fails is logged, and the next entry is read.
InsertService(n) ==
  LET s == FlatServices[node[n].at] IN
  /\ At(n, "insertService")
  /\ services' = IF ServiceRefused(s) THEN services ELSE [services EXCEPT ![s.name] = @ + 1]
  /\ NextService(n)
  /\ UNCHANGED <<types, plans, agents, rbmq_config, amqp, budget>>

SelectMission(n) ==
  /\ At(n, "selectMission")
  /\ IF FlatMissions[node[n].at].name \in types
       THEN NextMission(n) ELSE Goes(n, "insertMission")
  /\ UNCHANGED <<db, amqp, budget>>

\* Mutant of InsertMission: the recipe is not saved with a new type.
InsertMissionMutant(n) ==
  LET m == FlatMissions[node[n].at] IN
  /\ At(n, "insertMission")
  /\ IF MissionRefused(m)
       THEN UNCHANGED types /\ NextMission(n)
       ELSE types' = types \cup {m.name} /\ NextMission(n)
  /\ UNCHANGED <<services, plans, agents, rbmq_config, amqp, budget>>

\* The row of the type is there before those of its recipe, and an error
\* leaves the mission for the next one.
InsertMission(n) ==
  LET m == FlatMissions[node[n].at] IN
  /\ At(n, "insertMission")
  /\ IF MissionRefused(m)
       THEN UNCHANGED types /\ NextMission(n)
       ELSE /\ types' = types \cup {m.name}
            /\ IF RecipeSteps(node[n].at) = <<>> THEN NextMission(n) ELSE Goes(n, "insertStep")
  /\ UNCHANGED <<services, plans, agents, rbmq_config, amqp, budget>>

\* saveWorkProcessServicePlans: the client sends the insertions one after
\* the other, also after one that has failed.  The rows it deletes first
\* are those of a type that is new, so there are none.
InsertStep(n) ==
  LET m == FlatMissions[node[n].at].name
      s == RecipeSteps(node[n].at)[node[n].step] IN
  /\ At(n, "insertStep")
  /\ plans' = IF StepRefused(m, s) THEN plans ELSE [plans EXCEPT ![m] = @ \cup {s}]
  /\ IF node[n].step < Len(RecipeSteps(node[n].at))
       THEN Sets(n, [node[n] EXCEPT !.step = @ + 1]) ELSE NextMission(n)
  /\ UNCHANGED <<services, types, agents, rbmq_config, amqp, budget>>

\* createOrUpdateAgents
SelectAgent(n) ==
  /\ At(n, "selectAgent")
  /\ Goes(n, IF agents[AgentKeys[node[n].at]] = "none" THEN "insertAgent" ELSE "updateAgent")
  /\ UNCHANGED <<db, amqp, budget>>

UpdateAgent(n) ==
  /\ At(n, "updateAgent")
  /\ agents' = [agents EXCEPT ![AgentKeys[node[n].at]] = "keyed"]
  /\ NextAgent(n)
  /\ UNCHANGED <<services, types, plans, rbmq_config, amqp, budget>>

\* The agent's uuid is unique: a second insertion is refused, and logged.
InsertAgent(n) ==
  LET a == AgentKeys[node[n].at] IN
  /\ At(n, "insertAgent")
  /\ agents' = IF agents[a] = "none" THEN [agents EXCEPT ![a] = "keyed"] ELSE agents
  /\ NextAgent(n)
  /\ UNCHANGED <<services, types, plans, rbmq_config, amqp, budget>>

\* The row that exists is updated with the values of the environment, which
\* the nodes share.
ReadConfig(n) ==
  /\ At(n, "readConfig")
  /\ Goes(n, IF rbmq_config = 0 THEN "insertConfig" ELSE "listen")
  /\ UNCHANGED <<db, amqp, budget>>

InsertConfig(n) ==
  /\ At(n, "insertConfig")
  /\ rbmq_config' = rbmq_config + 1
  /\ Goes(n, "listen")
  /\ UNCHANGED <<services, types, plans, agents, amqp, budget>>

\* connectToDB: LISTEN on every channel.
Listen(n) ==
  /\ At(n, "listen")
  /\ Goes(n, "accounts")
  /\ UNCHANGED <<db, amqp, budget>>

----------------------------------------------------------------------------
(* The broker *)

\* The calls of the broker's API are idempotent: the accounts of helyos_core
\* and of anonymous agents, which an admin creates, and the admin's account.
createUser == "core"
guestCreate_RbmqAdmin == IF broker /\ accounts = "none" THEN "admin" ELSE accounts

CreateAccounts(n) ==
  /\ At(n, "accounts") /\ broker /\ accounts # "none"
  /\ accounts' = createUser
  /\ Goes(n, "connect")
  /\ UNCHANGED <<db, queueTtl, broker, budget>>

\* An error of createAccounts is logged there: the start goes on.
CreationRefused(n) ==
  /\ At(n, "accounts") /\ broker /\ accounts # "none"
  /\ refusals < MaxRefusals
  /\ refusals' = refusals + 1
  /\ Goes(n, "connect")
  /\ UNCHANGED <<db, amqp, crashes, cuts>>

\* Without an admin the account is created as guest, which is not awaited.
TryGuest(n) ==
  /\ At(n, "accounts") /\ (~broker \/ accounts = "none")
  /\ Sets(n, [node[n] EXCEPT !.pc = "wait", !.asGuest = TRUE])
  /\ UNCHANGED <<db, amqp, budget>>

\* Mutant of GuestCreatesAdmin: the account is created and never used.
GuestCreatesAdminMutant(n) ==
  /\ node[n].asGuest
  /\ Sets(n, [node[n] EXCEPT !.asGuest = FALSE])
  /\ UNCHANGED <<db, amqp, budget>>

GuestCreatesAdmin(n) ==
  /\ node[n].asGuest
  /\ accounts' = guestCreate_RbmqAdmin
  /\ Sets(n, [node[n] EXCEPT !.asGuest = FALSE])
  /\ UNCHANGED <<db, queueTtl, broker, budget>>

RetryAccounts(n) ==
  /\ At(n, "wait")
  /\ Goes(n, "accounts")
  /\ UNCHANGED <<db, amqp, budget>>

\* connectAndOpenChannels tries each three seconds until it is connected.
Connect(n) ==
  /\ At(n, "connect") /\ broker /\ accounts = "core"
  /\ Sets(n, [node[n] EXCEPT !.pc = "schema", !.channel = "open", !.conns = 1])
  /\ UNCHANGED <<db, amqp, budget>>

\* A queue that exists with other arguments closes the channel; the
\* difference is not seen before, and the second assertion fails on the
\* closed channel.
assertOrSubstituteQueue == queueTtl \in {0, Ttl}

\* configureRabbitMQSchema: a queue that cannot be asserted ends the start.
DeclareQueues(n) ==
  /\ At(n, "schema")
  /\ IF assertOrSubstituteQueue
       THEN queueTtl' = Ttl /\ Goes(n, "consume")
       ELSE UNCHANGED queueTtl /\ Sets(n, Down)
  /\ UNCHANGED <<db, accounts, broker, budget>>

\* helyosConsumingMessages with both channels.
ConsumeMessages(n) ==
  /\ At(n, "consume")
  /\ Sets(n, [node[n] EXCEPT !.pc = "running", !.consuming = TRUE])
  /\ UNCHANGED <<db, amqp, budget>>

\* Mutant of Resubscribe: the error of the callback is not caught.
ResubscribeMutant(n) ==
  /\ node[n].resubscribing > 0
  /\ Sets(n, [node[n] EXCEPT !.resubscribing = @ - 1,
                             !.conns = IF broker THEN @ + 1 ELSE @,
                             !.channel = IF broker THEN "rejected" ELSE @])
  /\ UNCHANGED <<db, amqp, budget>>

\* Mutant of Resubscribe: the retry subscribes, too.
ResubscribeAgainMutant(n) ==
  /\ node[n].resubscribing > 0 /\ broker
  /\ node[n].conns < 9
  /\ Sets(n, [node[n] EXCEPT !.conns = @ + 1, !.channel = "rejected"])
  /\ UNCHANGED <<db, amqp, budget>>

\* The first attempt after an error: recoverCallback, which takes an array,
\* gets a channel and throws, so that the channel's promise is rejected; the
\* connection stays.  The next attempt does not subscribe.
Resubscribe(n) ==
  /\ node[n].resubscribing > 0
  /\ Sets(n, [node[n] EXCEPT !.resubscribing = @ - 1, !.reconnecting = @ + 1,
                             !.conns = IF broker THEN @ + 1 ELSE @,
                             !.channel = IF broker THEN "rejected" ELSE @])
  /\ UNCHANGED <<db, amqp, budget>>

Reconnect(n) ==
  /\ node[n].reconnecting > 0 /\ broker
  /\ Sets(n, [node[n] EXCEPT !.reconnecting = @ - 1, !.conns = @ + 1, !.channel = "open"])
  /\ UNCHANGED <<db, amqp, budget>>

\* sendEncryptedMsg: while the channel is lost or its promise is rejected, a
\* message is logged instead of sent.
CanSend(n) == node[n].channel = "open"

----------------------------------------------------------------------------
(* Faults *)

Crash(n) ==
  /\ ~At(n, "down") /\ crashes < MaxCrashes
  /\ crashes' = crashes + 1
  /\ Sets(n, Down)
  /\ UNCHANGED <<db, amqp, cuts, refusals>>

\* Every connection of a running node reports the error; a process that is
\* still declaring or subscribing exits.
Interrupted(s) ==
  CASE s.pc \in {"schema", "consume"} -> Down
    [] s.pc = "running" ->
         [s EXCEPT !.resubscribing = @ + s.conns, !.conns = 0, !.consuming = FALSE,
                   !.channel = IF @ = "open" THEN "lost" ELSE @]
    [] OTHER -> s

BrokerStops ==
  /\ broker /\ cuts < MaxCuts
  /\ broker' = FALSE
  /\ cuts' = cuts + 1
  /\ node' = [n \in Node |-> Interrupted(node[n])]
  /\ UNCHANGED <<db, accounts, queueTtl, crashes, refusals>>

BrokerStarts ==
  /\ ~broker
  /\ broker' = TRUE
  /\ UNCHANGED <<db, accounts, queueTtl, node, budget>>

----------------------------------------------------------------------------
Register(n) ==
  \/ Fork(n) \/ Start(n) \/ SelectService(n) \/ InsertService(n)
  \/ SelectMission(n) \/ InsertMission(n) \/ InsertStep(n)
  \/ SelectAgent(n) \/ UpdateAgent(n) \/ InsertAgent(n)
  \/ ReadConfig(n) \/ InsertConfig(n) \/ Listen(n)

UseBroker(n) ==
  \/ CreateAccounts(n) \/ TryGuest(n) \/ RetryAccounts(n)
  \/ Connect(n) \/ DeclareQueues(n) \/ ConsumeMessages(n)

Init ==
  /\ services = [s \in Names(ServicesYml) |-> 0]
  /\ types = {}
  /\ plans = [m \in Names(MissionsYml) |-> {}]
  /\ agents \in [Range(AgentKeys) -> {"none", "plain"}]
  /\ rbmq_config = 0
  /\ accounts \in {"none", "core"}
  /\ queueTtl \in DeclaredTtls
  /\ broker = TRUE
  /\ node = [n \in Node |-> Down]
  /\ crashes = 0 /\ cuts = 0 /\ refusals = 0

Next ==
  \/ \E n \in Node : \/ Register(n) \/ UseBroker(n) \/ CreationRefused(n)
                     \/ GuestCreatesAdmin(n) \/ Resubscribe(n) \/ Reconnect(n) \/ Crash(n)
  \/ BrokerStops \/ BrokerStarts

Spec == Init /\ [][Next]_vars

(* Fairness: the database and the broker answer, timers fire, dead workers *)
(* are replaced, and the broker comes back.                                *)
Fairness ==
  /\ \A n \in Node : /\ WF_vars(Register(n)) /\ WF_vars(UseBroker(n))
                     /\ WF_vars(GuestCreatesAdmin(n))
                     /\ WF_vars(Resubscribe(n)) /\ WF_vars(Reconnect(n))
  /\ WF_vars(BrokerStarts)

FairSpec == Spec /\ Fairness

----------------------------------------------------------------------------
(* Properties *)

TypeOK ==
  /\ services \in [Names(ServicesYml) -> Nat]
  /\ types \subseteq Names(MissionsYml)
  /\ DOMAIN plans = Names(MissionsYml)
  /\ agents \in [Range(AgentKeys) -> {"none", "plain", "keyed"}]
  /\ rbmq_config \in Nat
  /\ accounts \in {"none", "admin", "core"}
  /\ queueTtl \in DeclaredTtls \cup {Ttl}
  /\ broker \in BOOLEAN
  /\ node \in [Node -> NodeState]

\* However many nodes register the same files at the same time, at most one
\* enabled service of each type is registered.
OneServiceOfType ==
  \A i, j \in DOMAIN FlatServices :
    /\ FlatServices[i].enabled /\ FlatServices[j].enabled
    /\ FlatServices[i].service_type = FlatServices[j].service_type
    /\ services[FlatServices[i].name] > 0 /\ services[FlatServices[j].name] > 0
    => i = j /\ services[FlatServices[i].name] = 1

Complete(i) == \A s \in Range(RecipeSteps(i)) : \E row \in plans[MissionsYml[i].name] :
                 row.step = s.step

\* A mission type whose recipe is not complete has a node that is inserting
\* the steps, unless a process has died: a node that finds the type of
\* another one may rely on the other one to complete it.
RecipeInWork ==
  \A i \in DOMAIN MissionsYml :
    MissionsYml[i].name \in types /\ ~Complete(i) =>
      crashes > 0 \/ \E n \in Node : At(n, "insertStep") /\ node[n].at = i

\* The connections of a node, and the calls that will open one or two, at
\* most double with each interruption of the broker.
ConnectionsDouble ==
  \A n \in Node :
    node[n].conns + node[n].reconnecting + 2 * node[n].resubscribing <= 2^cuts

\* Every process starts, in whichever order the nodes find the rows and
\* accounts of each other, also when the broker stops meanwhile.
NodesRun == \A n \in Node : At(n, "down") ~> At(n, "running")

\* A node that has lost its channel gets one to send messages with.
SendsAgain ==
  \A n \in Node : At(n, "running") /\ ~CanSend(n) ~> At(n, "down") \/ CanSend(n)

\* A node that has lost its channels consumes the queues again: "RabbitMQ
\* connection interrupted. Recovering..."
ConsumesAgain ==
  \A n \in Node : At(n, "running") /\ ~node[n].consuming
                    ~> At(n, "down") \/ node[n].consuming
=============================================================================
