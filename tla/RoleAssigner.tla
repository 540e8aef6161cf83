---------------------------- MODULE RoleAssigner ----------------------------
(***************************************************************************)
(* Which node of a cluster is the leader and which the broadcaster: the    *)
(* leases of role_manager.ts over two Redis keys, the consumers that       *)
(* initialization.ts opens and closes with the roles, and the start and    *)
(* respawn of the node processes (index.ts).                               *)
(*                                                                         *)
(* Every node runs two independent loops, one per key, whose Redis calls   *)
(* and callbacks are awaited: a step is what happens between two awaits.   *)
(* Time is abstracted: a key may expire when its holder no longer renews   *)
(* it, and under a live holder at most MaxLate times.  The                 *)
(* consumers of the visualization queues, which every follower opens, are  *)
(* left out.                                                               *)
(***************************************************************************)
EXTENDS Naturals, FiniteSets

CONSTANTS
  Node,
  None,         \* the key does not exist
  Gone,         \* the key holds the NODE_ID of a process that has died
  MaxLate,      \* how often a live node may be late with a renewal
  MaxErrors,    \* how many calls of Redis may be rejected
  MaxCrashes    \* how many processes may die

ASSUME RoleAssumption ==
  /\ None \notin Node /\ Gone \notin Node /\ None # Gone
  /\ MaxErrors \in Nat /\ MaxLate \in Nat /\ MaxCrashes \in Nat

VARIABLES
  leader,       \* the key LEADER_KEY
  broadcaster,  \* the key BROADCASTER_KEY
  node,         \* what each node believes, and where its loops are
  crashes,
  late,         \* how often a key has expired under a live holder
  errors        \* how many calls of Redis have been rejected

vars == <<leader, broadcaster, node, crashes, late, errors>>

(* amILeader is undefined until the first attempt; lead and cast are the   *)
(* loops of the two keys: waiting for a timer ("try", "renew"), or for an  *)
(* answer.  consuming: the node consumes the state and update queues;      *)
(* tagged: inputBecomingFollower holds the tags of these consumers.        *)
NodeState ==
  [up: BOOLEAN, role: {"leader", "broadcaster", "worker"},
   amILeader: {"undefined", "yes", "no"},
   lead: {"try", "leading", "following", "renew", "extend", "stopped"},
   cast: {"off", "try", "announcing", "renew", "extend", "stopped"},
   consuming: BOOLEAN, tagged: BOOLEAN]

Started == [up |-> TRUE, role |-> "worker", amILeader |-> "undefined", lead |-> "try",
            cast |-> "off", consuming |-> FALSE, tagged |-> FALSE]

Up(n) == node[n].up
Sets(n, state) == node' = [node EXCEPT ![n] = state]
Goes(n, loop, pc) == node' = [node EXCEPT ![n][loop] = pc]

\* helyosConsumingMessages goes on to the second key when the first attempt
\* at the first one has returned.
CastStarted(s) == IF s.cast = "off" THEN "try" ELSE s.cast

----------------------------------------------------------------------------
(* The leader's key *)

\* Mutant of TryToBecomeLeader: SET without NX.
TryToBecomeLeaderMutant(n) ==
  /\ Up(n) /\ node[n].lead = "try"
  /\ IF node[n].role = "worker"
       THEN leader' = n /\ Goes(n, "lead", "leading")
       ELSE /\ Goes(n, "lead", IF node[n].amILeader = "no" THEN "try" ELSE "following")
            /\ UNCHANGED leader
  /\ UNCHANGED <<broadcaster, crashes, late, errors>>

\* SET NX by a worker; who does not get the key steps down if it has not yet.
TryToBecomeLeader(n) ==
  /\ Up(n) /\ node[n].lead = "try"
  /\ IF node[n].role = "worker" /\ leader = None
       THEN leader' = n /\ Goes(n, "lead", "leading")
       ELSE /\ Goes(n, "lead", IF node[n].amILeader = "no" THEN "try" ELSE "following")
            /\ UNCHANGED leader
  /\ UNCHANGED <<broadcaster, crashes, late, errors>>

\* becomingLeader has returned: the node consumes the state queues.
BecomingLeader(n) ==
  /\ Up(n) /\ node[n].lead = "leading"
  /\ Sets(n, [node[n] EXCEPT !.role = "leader", !.amILeader = "yes", !.lead = "renew",
                             !.consuming = TRUE, !.tagged = TRUE, !.cast = CastStarted(node[n])])
  /\ UNCHANGED <<leader, broadcaster, crashes, late, errors>>

\* Mutant of BecomingFollower: the timer of the next attempt is not set.
BecomingFollowerMutant(n) ==
  /\ Up(n) /\ node[n].lead = "following"
  /\ Sets(n, [node[n] EXCEPT !.role = "worker", !.amILeader = "no", !.lead = "stopped",
                             !.consuming = @ /\ ~node[n].tagged, !.tagged = FALSE,
                             !.cast = CastStarted(node[n])])
  /\ UNCHANGED <<leader, broadcaster, crashes, late, errors>>

\* becomingFollower has returned: the consumers whose tags it was given are
\* canceled.
BecomingFollower(n) ==
  /\ Up(n) /\ node[n].lead = "following"
  /\ Sets(n, [node[n] EXCEPT !.role = "worker", !.amILeader = "no", !.lead = "try",
                             !.consuming = @ /\ ~node[n].tagged, !.tagged = FALSE,
                             !.cast = CastStarted(node[n])])
  /\ UNCHANGED <<leader, broadcaster, crashes, late, errors>>

\* Mutant of RenewLeadership: a lost key is not noticed.
RenewLeadershipMutant(n) ==
  /\ Up(n) /\ node[n].lead = "renew"
  /\ Goes(n, "lead", IF leader = n THEN "extend" ELSE "renew")
  /\ UNCHANGED <<leader, broadcaster, crashes, late, errors>>

\* _renewLeadership reads the key ...
RenewLeadership(n) ==
  /\ Up(n) /\ node[n].lead = "renew"
  /\ Goes(n, "lead", IF leader = n THEN "extend" ELSE "try")
  /\ UNCHANGED <<leader, broadcaster, crashes, late, errors>>

\* ... and sets it again, whoever holds it by then.
ExtendLeadership(n) ==
  /\ Up(n) /\ node[n].lead = "extend"
  /\ leader' = n
  /\ Goes(n, "lead", "renew")
  /\ UNCHANGED <<broadcaster, crashes, late, errors>>

----------------------------------------------------------------------------
(* The broadcaster's key *)

TryToBecomeBroadcaster(n) ==
  /\ Up(n) /\ node[n].cast = "try"
  /\ IF node[n].role = "worker" /\ broadcaster = None
       THEN broadcaster' = n /\ Goes(n, "cast", "announcing")
       ELSE /\ Sets(n, IF node[n].role # "broadcaster" THEN node[n]
                       ELSE [node[n] EXCEPT !.role = "worker", !.amILeader = "no", !.tagged = FALSE])
            /\ UNCHANGED broadcaster
  /\ UNCHANGED <<leader, crashes, late, errors>>

\* The callback has returned: whatever the other loop has done meanwhile, the
\* node is no leader, and the tags for becomingFollower are overwritten.
Announce(n) ==
  /\ Up(n) /\ node[n].cast = "announcing"
  /\ Sets(n, [node[n] EXCEPT !.role = "broadcaster", !.amILeader = "no", !.tagged = FALSE,
                             !.cast = "renew"])
  /\ UNCHANGED <<leader, broadcaster, crashes, late, errors>>

RenewBroadcastership(n) ==
  /\ Up(n) /\ node[n].cast = "renew"
  /\ Goes(n, "cast", IF broadcaster = n THEN "extend" ELSE "try")
  /\ UNCHANGED <<leader, broadcaster, crashes, late, errors>>

ExtendBroadcastership(n) ==
  /\ Up(n) /\ node[n].cast = "extend"
  /\ broadcaster' = n
  /\ Goes(n, "cast", "renew")
  /\ UNCHANGED <<leader, crashes, late, errors>>

----------------------------------------------------------------------------
(* Redis and the processes *)

\* The error is logged and the loop is not continued.
RedisFails(n) ==
  /\ Up(n) /\ errors < MaxErrors
  /\ errors' = errors + 1
  /\ \/ node[n].lead \in {"try", "renew", "extend"}
        /\ Sets(n, [node[n] EXCEPT !.lead = "stopped", !.cast = CastStarted(node[n])])
     \/ node[n].cast \in {"try", "renew", "extend"}
        /\ Goes(n, "cast", "stopped")
  /\ UNCHANGED <<leader, broadcaster, crashes, late>>

Renews(n, loop) == Up(n) /\ node[n][loop] \in {"leading", "announcing", "renew", "extend"}

LeaderExpires ==
  LET live == leader \in Node /\ Renews(leader, "lead") IN
  /\ leader # None
  /\ live => late < MaxLate
  /\ leader' = None
  /\ late' = IF live THEN late + 1 ELSE late
  /\ UNCHANGED <<broadcaster, node, crashes, errors>>

BroadcasterExpires ==
  LET live == broadcaster \in Node /\ Renews(broadcaster, "cast") IN
  /\ broadcaster # None
  /\ live => late < MaxLate
  /\ broadcaster' = None
  /\ late' = IF live THEN late + 1 ELSE late
  /\ UNCHANGED <<leader, node, crashes, errors>>

\* A process dies; its successor has a new NODE_ID.
Crash(n) ==
  /\ Up(n) /\ crashes < MaxCrashes
  /\ crashes' = crashes + 1
  /\ Sets(n, [Started EXCEPT !.up = FALSE])
  /\ leader' = IF leader = n THEN Gone ELSE leader
  /\ broadcaster' = IF broadcaster = n THEN Gone ELSE broadcaster
  /\ UNCHANGED <<late, errors>>

\* cluster.on('exit') forks a new one.
Fork(n) ==
  /\ ~Up(n)
  /\ Sets(n, Started)
  /\ UNCHANGED <<leader, broadcaster, crashes, late, errors>>

----------------------------------------------------------------------------
Init ==
  /\ leader = None /\ broadcaster = None
  /\ node = [n \in Node |-> Started]
  /\ crashes = 0 /\ late = 0 /\ errors = 0

LeadLoop(n) == TryToBecomeLeader(n) \/ BecomingLeader(n) \/ BecomingFollower(n)
                 \/ RenewLeadership(n) \/ ExtendLeadership(n)
CastLoop(n) == TryToBecomeBroadcaster(n) \/ Announce(n) \/ RenewBroadcastership(n)
                 \/ ExtendBroadcastership(n)

Next ==
  \/ \E n \in Node : LeadLoop(n) \/ CastLoop(n) \/ RedisFails(n) \/ Crash(n) \/ Fork(n)
  \/ LeaderExpires \/ BroadcasterExpires

Spec == Init /\ [][Next]_vars

(* Timers fire and Redis answers; a dead process is replaced; the key of a *)
(* process that has died, or that does not renew it, expires.              *)
Fairness ==
  /\ \A n \in Node : WF_vars(LeadLoop(n)) /\ WF_vars(CastLoop(n)) /\ WF_vars(Fork(n))
  /\ WF_vars(leader = Gone /\ LeaderExpires) /\ WF_vars(broadcaster = Gone /\ BroadcasterExpires)

FairSpec == Spec /\ Fairness

----------------------------------------------------------------------------
(* Properties *)

TypeOK ==
  /\ leader \in Node \cup {None, Gone} /\ broadcaster \in Node \cup {None, Gone}
  /\ node \in [Node -> NodeState]
  /\ crashes \in 0..MaxCrashes /\ late \in 0..MaxLate /\ errors \in 0..MaxErrors

AtMostOne(S) == \A m, n \in S : m = n

\* As long as no live node has been late with its renewal, there is only one
\* leader, one consumer of the agents' states and one broadcaster, whichever
\* processes die and come back.
OneOfEach ==
  late = 0 /\ errors = 0 =>
    /\ AtMostOne({n \in Node : node[n].amILeader = "yes"})
    /\ AtMostOne({n \in Node : node[n].consuming})
    /\ AtMostOne({n \in Node : node[n].role = "broadcaster"})

\* A node that has lost the key, even because it was late, stops to be the
\* leader or gets the key back: nobody flushes or watches the agents for ever
\* next to the leader.  A rejected call of Redis is the exception: it ends the
\* node's renewals, and the node believes for ever that it is the leader.
StepsDown ==
  \A n \in Node : node[n].amILeader = "yes" /\ leader # n
                    ~> node[n].amILeader # "yes" \/ leader = n \/ errors > 0

\* The lease of a leader that has died is taken by a living node, although the
\* broadcaster does not compete for it.
LeaseTaken ==
  leader \notin Node ~> leader \in Node \/ late > 0 \/ errors > 0

\* There is always a leader again, also when processes die.
LeaderWorks == []<>(\E n \in Node : node[n].amILeader = "yes")
=============================================================================
