----------------------------- MODULE MCGateway ------------------------------
(***************************************************************************)
(* Instances of AgentGateway, and of YardMap for the requests of another   *)
(* agent: the two share no state, so one of them works at a time.          *)
(***************************************************************************)
EXTENDS AgentGateway, YardMap

State(status, reported, from) == [status |-> status, assignment |-> reported, body |-> TRUE, sender |-> from]
Empty == [State("none", "none", "agent") EXCEPT !.body = FALSE]

\* A report without body, the report of an end sent by the agent's leader, and
\* one that another agent sends.
Mixed == <<Empty, State("free", "succeeded", "leader"), State("busy", "executing", "stranger")>>

\* Two check-ins of a silent agent, or the reports with one check-in; or none.
MCLoads == {[reports |-> FALSE, checkins |-> {"c1", "c2"}], [reports |-> TRUE, checkins |-> {"c3"}],
            [reports |-> FALSE, checkins |-> {}]}
ReportsOnly == {[reports |-> TRUE, checkins |-> {}]}

\* The last report of the execution and the report of its end.
Quick == <<State("busy", "executing", "agent"), State("free", "succeeded", "agent")>>

\* o1 is in the yard, o2 is created by a request, o3 by a microservice.
MCAsk == [q \in {"u1", "u2", "c2", "d1", "x1", "m", "s"} |->
            CASE q = "u1" -> [type |-> "updateMapObjects", object |-> "o1"]
              [] q = "u2" -> [type |-> "updateMapObjects", object |-> "o2"]
              [] q = "c2" -> [type |-> "createMapObjects", object |-> "o2"]
              [] q = "d1" -> [type |-> "deleteMapObjectByIds", object |-> "o1"]
              [] q = "x1" -> [type |-> "deleteMapObjects", object |-> "o1"]
              [] q = "m" -> [type |-> "mission", object |-> "o1"]
              [] OTHER -> [type |-> "query", object |-> "o1"]]
MCNewMap == [r \in {"r1"} |-> {"o3"}]
Rest == [requests |-> {}, results |-> {}, reports |-> {}]
MCWorks == {Rest,
            [requests |-> {"u1", "d1", "s"}, results |-> {}, reports |-> {"o1"}],
            [requests |-> {"x1", "c2", "u2"}, results |-> {}, reports |-> {"o2"}],
            [requests |-> {"c2", "m"}, results |-> {"r1"}, reports |-> {"o1"}]}

AtWork == published = 0 \/ \E c \in CheckIn : checkin[c] = "sent"
OtherAtWork == \E q \in Request : request[q] = "sent"

\* Either the agent of AgentGateway is at work or, while it is neither
\* registered nor about to be, another one.
MCInit ==
  /\ Init /\ MapInit
  /\ AtWork # OtherAtWork
  /\ OtherAtWork => ~agent.exists

MCNext == (Next /\ UNCHANGED mapVars) \/ (MapNext /\ UNCHANGED vars)
MCSpec == MCInit /\ [][MCNext]_<<vars, mapVars>> /\ Fairness /\ MapFairness

\* Agents are answered, when they check in and when they make a request.
AgentsAnswered == CheckInAnswered /\ RequestAnswered
=============================================================================
