---------------------------- MODULE AgentGateway ----------------------------
(***************************************************************************)
(* What agents ask of helyOS through the message broker, for one agent:    *)
(* its state reports, which the leader consumes with acknowledgement, and  *)
(* its check-ins and check-out, which any node consumes.                   *)
(*                                                                         *)
(* handleBrokerMessages runs once per delivery and does not wait for the   *)
(* previous one: the deliveries interleave at each await.  The queries of  *)
(* the leader's reports go through one connection, in the order in which   *)
(* they are sent.  The queries of check-ins are sent by other nodes and    *)
(* run at once.  The content of the messages, the replies' bodies and the  *)
(* positions are left out; what the buffered part of a check-in does is in *)
(* InMemDB, the other deliveries of assignments in AssignmentPipeline.     *)
(***************************************************************************)
EXTENDS Naturals, FiniteSets, Sequences, SequencesExt, DataModels

CONSTANTS
  Report,         \* the messages on the state queue, in the order 1, 2, ...
  Content,        \* Content[m]: [status, assignment, body, sender] of report m
  CheckIn,        \* check-in messages of the agent
  KnownYard,      \* those with a registered yard
  Anonymous,      \* those sent with the account `anonymous' and a valid token
  PREFETCH_COUNT, \* unacknowledged deliveries that the broker allows
  Loads,          \* what Init chooses from: are reports sent, and which check-ins
  MaxErrors       \* bound on the queries and broker requests that fail

ASSUME GatewayAssumption ==
  /\ Report = 1..Cardinality(Report) /\ IsFiniteSet(CheckIn)
  /\ Loads \subseteq [reports : BOOLEAN, checkins : SUBSET CheckIn]
  /\ \A m \in Report : Content[m].sender \in {"agent", "leader", "stranger", "unsigned"}
  /\ KnownYard \subseteq CheckIn /\ Anonymous \subseteq CheckIn
  /\ PREFETCH_COUNT \in Nat \ {0} /\ MaxErrors \in Nat

VARIABLES
  agent,      \* the agent's row: [exists, status, yard, anonymous]
  account,    \* the check-in whose password the agent's broker account has
  cached,     \* the leader's table has the agent's login
  published,  \* state reports sent by the agent so far
  queue,      \* the broker's state queue
  report,     \* how far each delivery is
  client,     \* the queries sent on the leader's connection: [m, query]
  assignment, \* status of the agent's assignment
  mission,    \* status of its work process
  checkin,    \* how far each check-in is
  checkout,   \* how far the check-out is
  deletion,   \* how far the deletion of the agent by a user is
  errors

login == <<agent, account, cached>>
states == <<published, queue, report, client, assignment, mission>>
visits == <<checkin, checkout, deletion>>
vars == <<login, states, visits, errors>>

Final == {"succeeded", "completed", "failed"}
Unsettled == {"delivered", "reading", "validating", "updating", "assignment", "evaluated", "reporting", "ignored"}
Send(m, q) == client' = Append(client, [m |-> m, query |-> q])

----------------------------------------------------------------------------
(* State reports *)

\* The agent publishes its next report.
Publish ==
  /\ published < Cardinality(Report)
  /\ published' = published + 1
  /\ queue' = Append(queue, published + 1)
  /\ UNCHANGED <<login, report, client, assignment, mission, visits, errors>>

\* Mutant of Deliver: the broker allows one delivery less than configured.
DeliverMutant ==
  /\ queue # <<>> /\ Cardinality({m \in Report : report[m] \in Unsettled}) < PREFETCH_COUNT - 1
  /\ report' = [report EXCEPT ![Head(queue)] = "delivered"]
  /\ queue' = Tail(queue)
  /\ UNCHANGED <<login, published, client, assignment, mission, visits, errors>>

\* The broker delivers while fewer than PREFETCH_COUNT are not settled.
Deliver ==
  /\ queue # <<>> /\ Cardinality({m \in Report : report[m] \in Unsettled}) < PREFETCH_COUNT
  /\ report' = [report EXCEPT ![Head(queue)] = "delivered"]
  /\ queue' = Tail(queue)
  /\ UNCHANGED <<login, published, client, assignment, mission, visits, errors>>

\* The switch of handleBrokerMessages, the sender being registered: a report
\* without body throws (and is never settled), one without status is nacked.
UpdateState(m, sent) ==
  CASE ~Content[m].body -> report' = [report EXCEPT ![m] = "ignored"] /\ client' = sent
    [] Content[m].body /\ Content[m].status = "none" ->
         report' = [report EXCEPT ![m] = "nacked"] /\ client' = sent
    [] OTHER -> /\ report' = [report EXCEPT ![m] = "updating"]
                /\ client' = Append(sent, [m |-> m, query |-> "status"])

\* validateMessageSender, by the account the message was sent with: that of the
\* agent passes, that of another agent if the row's rbmq_username names it or
\* the other agent's follower_connections name this one, that is, if it leads
\* it; a wrong protocol or signature throws at once.
ValidateMessageSender(m, sent) ==
  \/ Content[m].sender \in {"agent", "leader"} /\ UpdateState(m, sent)
  \/ /\ Content[m].sender \in {"leader", "stranger"}
     /\ report' = [report EXCEPT ![m] = "validating"]
     /\ client' = Append(sent, [m |-> m, query |-> "leader"])
  \/ /\ Content[m].sender = "unsigned"
     /\ report' = [report EXCEPT ![m] = "ignored"] /\ client' = sent

\* handleBrokerMessages up to its first query, in the order of the deliveries:
\* getData finds the agent in the leader's table, or asks the database if it
\* does not or has not done so for some time.
HandleReport(m) ==
  /\ report[m] = "delivered" /\ \A earlier \in 1..(m - 1) : report[earlier] # "delivered"
  /\ \/ cached /\ ValidateMessageSender(m, client)
     \/ Send(m, "agent") /\ report' = [report EXCEPT ![m] = "reading"]
  /\ UNCHANGED <<login, published, queue, assignment, mission, visits, errors>>

\* evaluateAssignmentUpdate: whether the status is written to the assignment.
EvaluateAssignmentUpdate(current, new) ==
  \/ current # new /\ current \notin Final
  \/ current = new /\ new \in {"active", "executing"}

\* The conditions of the UPDATE: final reports of a failure have none.
MissionAllows(new) ==
  \/ new \in {"canceled", "aborted", "failed"}
  \/ mission \in {"executing", "dispatched", "calculating", "canceling", "failed"}

\* The next query of the leader's connection and its callback.
\*   agent       getData; without a row an error is thrown, nothing settles
\*   leader      isAgentLeader; the row of a pretender leaves the table
\*   status      agents.updateByConditions, then the assignment is read
\*   assignment  get_byId: what evaluateAssignmentUpdate is called with
\*   evaluated   its UPDATE, by status of the mission
\*   report      the agent's row learns of its assignment, and ack
QueryDone ==
  /\ client # <<>>
  /\ LET m == Head(client).m
         rest == Tail(client)
         new == Content[m].assignment
         Then(step, query) == /\ report' = [report EXCEPT ![m] = step]
                              /\ client' = Append(rest, [m |-> m, query |-> query])
         Acks == report' = [report EXCEPT ![m] = "acked"] /\ client' = rest
     IN
     \/ /\ Head(client).query = "agent"
        /\ IF agent.exists THEN cached' = TRUE /\ ValidateMessageSender(m, rest)
           ELSE report' = [report EXCEPT ![m] = "ignored"] /\ client' = rest /\ UNCHANGED cached
        /\ UNCHANGED <<agent, assignment>>
     \/ /\ Head(client).query = "leader"
        /\ IF Content[m].sender = "leader" THEN UpdateState(m, rest) /\ UNCHANGED cached
           ELSE report' = [report EXCEPT ![m] = "ignored"] /\ client' = rest /\ cached' = FALSE
        /\ UNCHANGED <<agent, assignment>>
     \/ /\ Head(client).query = "status"
        /\ agent' = IF agent.exists THEN [agent EXCEPT !.status = Content[m].status] ELSE agent
        /\ IF new = "none" THEN Acks ELSE Then("assignment", "assignment")
        /\ UNCHANGED <<cached, assignment>>
     \/ /\ Head(client).query = "assignment"
        /\ IF EvaluateAssignmentUpdate(assignment, new) THEN Then("evaluated", "evaluated") ELSE Acks
        /\ UNCHANGED <<agent, cached, assignment>>
     \/ /\ Head(client).query = "evaluated"
        /\ assignment' = IF MissionAllows(new) THEN new ELSE assignment
        /\ Then("reporting", "report")
        /\ UNCHANGED <<agent, cached>>
     \/ /\ Head(client).query = "report" /\ Acks
        /\ UNCHANGED <<agent, cached, assignment>>
  /\ UNCHANGED <<account, published, queue, mission, visits, errors>>

\* Mutant of QueryFails: updateState lets its errors pass unhandled.
QueryFailsMutant ==
  /\ client # <<>> /\ errors < MaxErrors
  /\ errors' = errors + 1
  /\ report' = [report EXCEPT ![Head(client).m] = "ignored"]
  /\ client' = Tail(client)
  /\ UNCHANGED <<login, published, queue, assignment, mission, visits>>

\* A query fails.  The catch of updateState hides the error, so the report is
\* acknowledged; that of updateAgentMission, returned without await, escapes
\* the catch and the report is rejected; when the agent or its leader is
\* looked up the error ends in the outer catch, which settles nothing.
QueryFails ==
  /\ client # <<>> /\ errors < MaxErrors
  /\ errors' = errors + 1
  /\ LET failed == Head(client) IN
     report' = [report EXCEPT ![failed.m] =
                  CASE failed.query \in {"agent", "leader"} -> "ignored"
                    [] failed.query = "status" -> "acked"
                    [] OTHER -> "nacked"]
  /\ client' = Tail(client)
  /\ UNCHANGED <<login, published, queue, assignment, mission, visits>>

\* AssignmentPipeline: the mission ends after its assignment did.
MissionEnds ==
  /\ mission = "executing" /\ assignment \in Final
  /\ mission' = "succeeded"
  /\ UNCHANGED <<login, published, queue, report, client, assignment, visits, errors>>

----------------------------------------------------------------------------
(* Check-in and check-out *)

\* The agent's row; allow_anonymous_checkin is true by default.
NoAgent == [exists |-> FALSE, status |-> "none", yard |-> FALSE, anonymous |-> TRUE]
NewAgent == [NoAgent EXCEPT !.exists = TRUE]

Goes(c, step) == checkin' = [checkin EXCEPT ![c] = step]

\* handleBrokerMessages for a check-in: an agent that is not registered needs
\* the token, and one that is and comes as `anonymous' is looked up again.
HandleCheckIn(c) ==
  /\ checkin[c] = "sent"
  /\ Goes(c, CASE agent.exists -> IF c \in Anonymous THEN "known" ELSE "yard"
               [] OTHER -> IF c \in Anonymous THEN "insert" ELSE "refused")
  /\ UNCHANGED <<login, states, checkout, deletion, errors>>

\* Whether its row allows that.  A row that is gone by now may still be in the
\* node's table; else it is read all the same, and the error is not answered.
ValidateAnonymousCheckin(c) ==
  /\ checkin[c] = "known"
  /\ \/ agent.exists /\ Goes(c, IF agent.anonymous THEN "yard" ELSE "refused")
     \/ ~agent.exists /\ \E step \in {"unanswered", "yard"} : Goes(c, step)
  /\ UNCHANGED <<login, states, checkout, deletion, errors>>

\* A look-up fails, in the outer catch of handleBrokerMessages.
LookUpFails(c) ==
  /\ checkin[c] \in {"sent", "known"} /\ errors < MaxErrors
  /\ errors' = errors + 1
  /\ Goes(c, "unanswered")
  /\ UNCHANGED <<login, states, checkout, deletion>>

\* Mutant of InsertAgent: the error of a second insert is not caught.
InsertAgentMutant(c) ==
  /\ checkin[c] = "insert"
  /\ IF agent.exists THEN Goes(c, "refused") /\ UNCHANGED agent
     ELSE Goes(c, "yard") /\ agent' = NewAgent
  /\ UNCHANGED <<account, cached, states, checkout, deletion, errors>>

\* agents.insert: uuid is unique, and an error is answered by 500.
InsertAgent(c) ==
  /\ checkin[c] = "insert"
  /\ IF agent.exists THEN Goes(c, "500") /\ UNCHANGED agent
     ELSE Goes(c, "yard") /\ agent' = NewAgent
  /\ UNCHANGED <<account, cached, states, checkout, deletion, errors>>

\* isYardUIdRegistered: the row that was inserted stays.
ValidateYard(c) ==
  /\ checkin[c] = "yard"
  /\ Goes(c, IF c \notin KnownYard THEN "500" ELSE IF c \in Anonymous THEN "account" ELSE "update")
  /\ UNCHANGED <<login, states, checkout, deletion, errors>>

\* createAgentRbmqAccount: the account is created or gets a new password.
CreateAgentRbmqAccount(c) ==
  /\ checkin[c] = "account"
  /\ account' = c
  /\ Goes(c, "update")
  /\ UNCHANGED <<agent, cached, states, checkout, deletion, errors>>

\* updateByConditions: free, whatever it was, and on the yard.
UpdateAgent(c) ==
  /\ checkin[c] = "update"
  /\ agent' = IF agent.exists THEN [agent EXCEPT !.status = "free", !.yard = TRUE] ELSE agent
  /\ Goes(c, "reply")
  /\ UNCHANGED <<account, cached, states, checkout, deletion, errors>>

\* The row and its yard are read; a check-out that came in between took the
\* yard away, which the reply cannot do without.
ReplyCheckIn(c) ==
  /\ checkin[c] = "reply"
  /\ Goes(c, IF agent.exists /\ agent.yard THEN "200" ELSE "500")
  /\ UNCHANGED <<login, states, checkout, deletion, errors>>

\* A query, or a request to the broker's management interface, fails.
CheckInFails(c) ==
  /\ checkin[c] \in {"insert", "yard", "account", "update", "reply"} /\ errors < MaxErrors
  /\ errors' = errors + 1
  /\ Goes(c, "500")
  /\ UNCHANGED <<login, states, checkout, deletion>>

\* processAgentCheckOut reads the status first.
HandleCheckOut ==
  /\ checkout = "sent" /\ agent.exists
  /\ checkout' = IF agent.status \in {"busy", "ready"} THEN "500" ELSE "update"
  /\ UNCHANGED <<login, states, checkin, deletion, errors>>

UpdateCheckOut ==
  /\ checkout = "update"
  /\ agent' = [agent EXCEPT !.yard = FALSE]
  /\ checkout' = IF agent.exists THEN "200" ELSE "500"
  /\ UNCHANGED <<account, cached, states, checkin, deletion, errors>>

\* A user deletes the agent; the trigger tells one node.
DeleteAgent ==
  /\ agent.exists /\ deletion = "no"
  /\ agent' = NoAgent
  /\ deletion' = "event"
  /\ UNCHANGED <<account, cached, states, checkin, checkout, errors>>

\* agent_deletion: the broker's account goes, also one that a check-in has
\* created since; the table that forgets the agent is that of one node.
AgentDeletion ==
  /\ deletion = "event"
  /\ deletion' = "handled"
  /\ account' = "none" /\ cached' \in {cached, FALSE}
  /\ UNCHANGED <<agent, states, checkin, checkout, errors>>

----------------------------------------------------------------------------
Init ==
  /\ agent \in {NoAgent} \cup [exists : {TRUE}, status : {"free"}, yard : {TRUE}, anonymous : BOOLEAN]
  /\ account = "none" /\ cached \in {FALSE, agent.exists}
  /\ queue = <<>> /\ client = <<>>
  /\ report = [m \in Report |-> "none"]
  /\ assignment = "to_dispatch" /\ mission = "executing"
  /\ \E load \in Loads :
       /\ published = IF load.reports THEN 0 ELSE Cardinality(Report)
       /\ checkin = [c \in CheckIn |-> IF c \in load.checkins THEN "sent" ELSE "none"]
  /\ checkout = "sent" /\ deletion = "no" /\ errors = 0

ChecksIn(c) ==
  \/ HandleCheckIn(c) \/ ValidateAnonymousCheckin(c) \/ LookUpFails(c) \/ InsertAgent(c) \/ ValidateYard(c)
  \/ CreateAgentRbmqAccount(c) \/ UpdateAgent(c) \/ ReplyCheckIn(c) \/ CheckInFails(c)
ChecksOut == HandleCheckOut \/ UpdateCheckOut \/ AgentDeletion
Queries == QueryDone \/ QueryFails

Next ==
  \/ Publish \/ Deliver \/ Queries \/ MissionEnds \/ ChecksOut \/ DeleteAgent
  \/ \E m \in Report : HandleReport(m)
  \/ \E c \in CheckIn : ChecksIn(c)

Spec == Init /\ [][Next]_vars

(* The broker delivers, callbacks run, the database answers or fails. *)
Fairness ==
  /\ WF_vars(Deliver) /\ WF_vars(Queries) /\ WF_vars(ChecksOut)
  /\ \A m \in Report : WF_vars(HandleReport(m))
  /\ \A c \in CheckIn : WF_vars(ChecksIn(c))

FairSpec == Spec /\ Fairness

----------------------------------------------------------------------------
(* Properties *)

\* A report stays in the broker's queue for ever only behind PREFETCH_COUNT
\* reports that nobody will settle: reports without a body, of an agent that
\* was not registered or a sender that was refused when they were handled, or
\* whose agent could not be looked up.
ReportsDelivered ==
  \A m \in Report :
    m \in ToSet(queue) ~> \/ m \notin ToSet(queue)
                          \/ Cardinality({i \in Report : report[i] = "ignored"}) = PREFETCH_COUNT

\* Senders that validateMessageSender lets pass.
MaySend(m) == Content[m].sender \in {"agent", "leader"}

\* A report whose sender has been let pass is acknowledged or rejected, also
\* when a query of its handler fails; and unless a query fails, so is every
\* report with a body of an agent that is registered while it is handled.
ReportsSettled ==
  \A m \in Report :
    /\ report[m] = "updating" ~> report[m] \in {"acked", "nacked"}
    /\ report[m] = "delivered" /\ Content[m].body /\ MaySend(m)
         ~> report[m] \in {"acked", "nacked"} \/ errors > 0 \/ ~agent.exists

\* Each check-in is answered, also when another check-in of the same agent
\* inserts the row first or the agent is deleted meanwhile, unless it is
\* refused for want of the token or by the row, or a look-up of the agent
\* fails or no longer finds it.
CheckInAnswered ==
  \A c \in CheckIn :
    checkin[c] = "sent" ~> \/ checkin[c] \in {"200", "500", "unanswered"}
                           \/ checkin[c] = "refused" /\ (c \in Anonymous => ~agent.anonymous)

\* An assignment with a final status keeps it, whatever the agent reports and
\* in whatever order the handlers of its reports run.
FinalStatusKept == [][(assignment \in Final) => assignment' = assignment]_vars
=============================================================================
