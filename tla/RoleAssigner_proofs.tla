-------------------------- MODULE RoleAssigner_proofs --------------------------
(***************************************************************************)
(* Proof about RoleAssigner, for any number of nodes, crashes and          *)
(* restarts: while no live node has been late with a renewal and Redis has *)
(* answered, there is one leader, one consumer of the agents' states and   *)
(* one broadcaster (OneOfEach).                                            *)
(*                                                                         *)
(* A node's belief is not the key: it outlives its steps.  The invariant   *)
(* ties the beliefs to the loops and the loops to the keys, HoldsLeader    *)
(* and HoldsBroadcaster; a key expires only under nobody's loop.           *)
(***************************************************************************)
EXTENDS RoleAssigner, TLAPS

\* The loop of the leader's key is where the node holds the key; who believes
\* that it leads, or consumes as the leader does, is in that loop.
HoldsLeader ==
  \A n \in Node :
    /\ node[n].lead \in {"leading", "renew", "extend"} => node[n].up /\ leader = n
    /\ node[n].amILeader = "yes" \/ node[n].consuming => node[n].lead \in {"renew", "extend"}

\* The same of the broadcaster's key.
HoldsBroadcaster ==
  \A n \in Node :
    /\ node[n].cast \in {"announcing", "renew", "extend"} => node[n].up /\ broadcaster = n
    /\ node[n].role = "broadcaster" => node[n].cast \in {"renew", "extend"}

LeaseInvariant ==
  /\ TypeOK
  /\ late = 0 /\ errors = 0 => HoldsLeader /\ HoldsBroadcaster

\* Who holds a key is the only one to hold it.
LEMMA LeaseSuffices == LeaseInvariant => OneOfEach
<1> SUFFICES ASSUME LeaseInvariant, late = 0, errors = 0
             PROVE  /\ AtMostOne({n \in Node : node[n].amILeader = "yes"})
                    /\ AtMostOne({n \in Node : node[n].consuming})
                    /\ AtMostOne({n \in Node : node[n].role = "broadcaster"})
  BY DEF OneOfEach
<1>1. \A n \in Node : node[n].amILeader = "yes" \/ node[n].consuming => leader = n
  BY DEF LeaseInvariant, HoldsLeader
<1>2. \A n \in Node : node[n].role = "broadcaster" => broadcaster = n
  BY DEF LeaseInvariant, HoldsBroadcaster
<1>3. QED
  BY <1>1, <1>2 DEF AtMostOne

\* No node believes anything when the first one starts.
LEMMA LeaseInit == Init => LeaseInvariant
BY RoleAssumption DEF Init, LeaseInvariant, TypeOK, HoldsLeader, HoldsBroadcaster, NodeState, Started

\* A step of node n into state s keeps the invariant if the keys and s agree.
LEMMA NodeStep ==
  ASSUME LeaseInvariant, NEW n \in Node, NEW s \in NodeState, Sets(n, s),
         leader' \in Node \cup {None, Gone}, broadcaster' \in Node \cup {None, Gone},
         crashes' \in 0..MaxCrashes, UNCHANGED late, errors' \in 0..MaxErrors,
         errors' = 0 => errors = 0,
         late = 0 /\ errors' = 0 =>
           /\ \A m \in Node : m # n /\ leader = m => leader' = m
           /\ \A m \in Node : m # n /\ broadcaster = m => broadcaster' = m
           /\ s.lead \in {"leading", "renew", "extend"} => s.up /\ leader' = n
           /\ s.amILeader = "yes" \/ s.consuming => s.lead \in {"renew", "extend"}
           /\ s.cast \in {"announcing", "renew", "extend"} => s.up /\ broadcaster' = n
           /\ s.role = "broadcaster" => s.cast \in {"renew", "extend"}
  PROVE  LeaseInvariant'
<1>1. \A m \in Node : node'[m] = IF m = n THEN s ELSE node[m]
  BY DEF Sets, LeaseInvariant, TypeOK
<1>2. TypeOK'
  BY DEF Sets, LeaseInvariant, TypeOK
<1>3. ASSUME late = 0, errors' = 0 PROVE HoldsLeader'
  BY <1>1, <1>3 DEF LeaseInvariant, HoldsLeader
<1>4. ASSUME late = 0, errors' = 0 PROVE HoldsBroadcaster'
  BY <1>1, <1>4 DEF LeaseInvariant, HoldsBroadcaster
<1>5. QED
  BY <1>2, <1>3, <1>4 DEF LeaseInvariant

\* The loop of the leader's key.
LEMMA LeadLoopKeeps ==
  ASSUME LeaseInvariant, NEW n \in Node, LeadLoop(n)
  PROVE  LeaseInvariant'
<1> USE DEF LeaseInvariant, TypeOK, HoldsLeader, HoldsBroadcaster, NodeState, Up, Sets, Goes, CastStarted
<1>1. CASE TryToBecomeLeader(n)
  BY <1>1, RoleAssumption DEF TryToBecomeLeader
<1>2. CASE BecomingLeader(n)
  <2> DEFINE s == [node[n] EXCEPT !.role = "leader", !.amILeader = "yes", !.lead = "renew",
                                  !.consuming = TRUE, !.tagged = TRUE, !.cast = CastStarted(node[n])]
  <2>1. /\ s \in NodeState /\ s.up = node[n].up /\ s.lead = "renew" /\ s.role = "leader"
        /\ s.cast = CastStarted(node[n])
    <3>1. node[n] \in NodeState /\ CastStarted(node[n]) \in {"off", "try", "announcing", "renew", "extend", "stopped"}
      BY DEF LeaseInvariant, TypeOK, NodeState, CastStarted
    <3>2. QED
      BY <3>1 DEF NodeState
  <2>2. Sets(n, s) /\ UNCHANGED <<leader, broadcaster, crashes, late, errors>> /\ node[n].lead = "leading"
    BY <1>2 DEF BecomingLeader
  <2> HIDE DEF LeaseInvariant, TypeOK, HoldsLeader, HoldsBroadcaster, NodeState, Sets, CastStarted, s
  <2>3. /\ leader' \in Node \cup {None, Gone} /\ broadcaster' \in Node \cup {None, Gone}
        /\ crashes' \in 0..MaxCrashes /\ errors' \in 0..MaxErrors
    BY <2>2 DEF LeaseInvariant, TypeOK
  <2>4. late = 0 /\ errors' = 0 =>
          /\ s.lead \in {"leading", "renew", "extend"} => s.up /\ leader' = n
          /\ s.amILeader = "yes" \/ s.consuming => s.lead \in {"renew", "extend"}
          /\ s.cast \in {"announcing", "renew", "extend"} => s.up /\ broadcaster' = n
          /\ s.role = "broadcaster" => s.cast \in {"renew", "extend"}
    BY <2>1, <2>2 DEF LeaseInvariant, HoldsLeader, HoldsBroadcaster, CastStarted
  <2>5. QED
    BY <2>1, <2>2, <2>3, <2>4, NodeStep
<1>3. CASE BecomingFollower(n)
  <2> DEFINE s == [node[n] EXCEPT !.role = "worker", !.amILeader = "no", !.lead = "try",
                                  !.consuming = @ /\ ~node[n].tagged, !.tagged = FALSE,
                                  !.cast = CastStarted(node[n])]
  <2>1. /\ s \in NodeState /\ s.up = node[n].up /\ s.lead = "try" /\ s.role = "worker"
        /\ s.amILeader = "no" /\ s.cast = CastStarted(node[n])
        /\ s.consuming => node[n].consuming
    <3>1. node[n] \in NodeState /\ CastStarted(node[n]) \in {"off", "try", "announcing", "renew", "extend", "stopped"}
      BY DEF LeaseInvariant, TypeOK, NodeState, CastStarted
    <3>2. (node[n].consuming /\ ~node[n].tagged) \in BOOLEAN
      OBVIOUS
    <3>3. QED
      BY <3>1, <3>2 DEF NodeState
  <2>2. Sets(n, s) /\ UNCHANGED <<leader, broadcaster, crashes, late, errors>> /\ node[n].lead = "following"
    BY <1>3 DEF BecomingFollower
  <2> HIDE DEF LeaseInvariant, TypeOK, HoldsLeader, HoldsBroadcaster, NodeState, Sets, CastStarted, s
  <2>3. /\ leader' \in Node \cup {None, Gone} /\ broadcaster' \in Node \cup {None, Gone}
        /\ crashes' \in 0..MaxCrashes /\ errors' \in 0..MaxErrors
    BY <2>2 DEF LeaseInvariant, TypeOK
  <2>4. late = 0 /\ errors' = 0 =>
          /\ s.lead \in {"leading", "renew", "extend"} => s.up /\ leader' = n
          /\ s.amILeader = "yes" \/ s.consuming => s.lead \in {"renew", "extend"}
          /\ s.cast \in {"announcing", "renew", "extend"} => s.up /\ broadcaster' = n
          /\ s.role = "broadcaster" => s.cast \in {"renew", "extend"}
    BY <2>1, <2>2 DEF LeaseInvariant, HoldsLeader, HoldsBroadcaster, CastStarted
  <2>5. QED
    BY <2>1, <2>2, <2>3, <2>4, NodeStep
<1>4. CASE RenewLeadership(n)
  <2>1. CASE leader = n
    BY <1>4, <2>1 DEF RenewLeadership
  <2>2. CASE leader # n
    BY <1>4, <2>2 DEF RenewLeadership
  <2>3. QED
    BY <2>1, <2>2
<1>5. CASE ExtendLeadership(n)
  <2>1. TypeOK'
    BY <1>5 DEF ExtendLeadership
  <2>2. late = 0 /\ errors = 0 => leader' = leader
    BY <1>5 DEF ExtendLeadership
  <2>3. QED
    BY <1>5, <2>1, <2>2 DEF ExtendLeadership
<1>6. QED
  BY <1>1, <1>2, <1>3, <1>4, <1>5 DEF LeadLoop

\* The loop of the broadcaster's key.
LEMMA CastLoopKeeps ==
  ASSUME LeaseInvariant, NEW n \in Node, CastLoop(n)
  PROVE  LeaseInvariant'
<1> USE DEF LeaseInvariant, TypeOK, HoldsLeader, HoldsBroadcaster, NodeState, Up, Sets, Goes
<1>1. CASE TryToBecomeBroadcaster(n)
  <2>1. CASE node[n].role = "worker" /\ broadcaster = None
    BY <1>1, <2>1, RoleAssumption DEF TryToBecomeBroadcaster
  <2>2. CASE ~(node[n].role = "worker" /\ broadcaster = None)
    <3> DEFINE s == IF node[n].role # "broadcaster" THEN node[n]
                    ELSE [node[n] EXCEPT !.role = "worker", !.amILeader = "no", !.tagged = FALSE]
    <3>1. /\ s \in NodeState /\ s.up = node[n].up /\ s.lead = node[n].lead /\ s.cast = "try"
          /\ s.role # "broadcaster" /\ s.consuming = node[n].consuming
          /\ s.amILeader = "yes" => node[n].amILeader = "yes"
      BY <1>1 DEF TryToBecomeBroadcaster
    <3>2. Sets(n, s) /\ UNCHANGED <<leader, broadcaster, crashes, late, errors>>
      BY <1>1, <2>2 DEF TryToBecomeBroadcaster
    <3>3. QED
      BY <3>1, <3>2, NodeStep
  <2>3. QED
    BY <2>1, <2>2
<1>2. CASE Announce(n)
  <2> DEFINE s == [node[n] EXCEPT !.role = "broadcaster", !.amILeader = "no", !.tagged = FALSE,
                                  !.cast = "renew"]
  <2>1. /\ s \in NodeState /\ s.up = node[n].up /\ s.lead = node[n].lead /\ s.cast = "renew"
        /\ s.amILeader = "no" /\ s.consuming = node[n].consuming
    <3>1. node[n] \in NodeState
      BY DEF LeaseInvariant, TypeOK
    <3>2. QED
      BY <3>1 DEF NodeState
  <2>2. Sets(n, s) /\ UNCHANGED <<leader, broadcaster, crashes, late, errors>> /\ node[n].cast = "announcing"
    BY <1>2 DEF Announce
  <2>3. QED
    BY <2>1, <2>2, NodeStep
<1>3. CASE RenewBroadcastership(n)
  <2>1. CASE broadcaster = n
    BY <1>3, <2>1 DEF RenewBroadcastership
  <2>2. CASE broadcaster # n
    BY <1>3, <2>2 DEF RenewBroadcastership
  <2>3. QED
    BY <2>1, <2>2
<1>4. CASE ExtendBroadcastership(n)
  <2>1. TypeOK'
    BY <1>4 DEF ExtendBroadcastership
  <2>2. late = 0 /\ errors = 0 => broadcaster' = broadcaster
    BY <1>4 DEF ExtendBroadcastership
  <2>3. QED
    BY <1>4, <2>1, <2>2 DEF ExtendBroadcastership
<1>5. QED
  BY <1>1, <1>2, <1>3, <1>4 DEF CastLoop

\* Redis: a key expires under no loop, or a node was late.
LEMMA RedisKeeps ==
  ASSUME LeaseInvariant, LeaderExpires \/ BroadcasterExpires \/ \E n \in Node : RedisFails(n)
  PROVE  LeaseInvariant'
<1> USE DEF LeaseInvariant, TypeOK
<1>1. CASE LeaderExpires
  <2>1. CASE leader \in Node /\ Renews(leader, "lead")
    BY <1>1, <2>1, RoleAssumption DEF LeaderExpires
  <2>2. CASE ~(leader \in Node /\ Renews(leader, "lead"))
    <3>1. late = 0 /\ errors = 0 =>
            \A n \in Node : node[n].lead \notin {"leading", "renew", "extend"}
      BY <2>2 DEF HoldsLeader, Renews, Up
    <3>2. QED
      BY <1>1, <2>2, <3>1, RoleAssumption DEF LeaderExpires, HoldsLeader, HoldsBroadcaster
  <2>3. QED
    BY <2>1, <2>2
<1>2. CASE BroadcasterExpires
  <2>1. CASE broadcaster \in Node /\ Renews(broadcaster, "cast")
    BY <1>2, <2>1, RoleAssumption DEF BroadcasterExpires
  <2>2. CASE ~(broadcaster \in Node /\ Renews(broadcaster, "cast"))
    <3>1. late = 0 /\ errors = 0 =>
            \A n \in Node : node[n].cast \notin {"announcing", "renew", "extend"}
      BY <2>2 DEF HoldsBroadcaster, Renews, Up
    <3>2. QED
      BY <1>2, <2>2, <3>1, RoleAssumption DEF BroadcasterExpires, HoldsLeader, HoldsBroadcaster
  <2>3. QED
    BY <2>1, <2>2
<1>3. ASSUME NEW n \in Node, RedisFails(n) PROVE LeaseInvariant'
  <2> DEFINE s == [node[n] EXCEPT !.lead = "stopped", !.cast = CastStarted(node[n])]
             t == [node[n] EXCEPT !.cast = "stopped"]
  <2>0. node[n] \in NodeState /\ s \in NodeState /\ t \in NodeState
    BY DEF NodeState, CastStarted
  <2>1. errors' = errors + 1 /\ errors' \in 0..MaxErrors /\ errors' # 0
    <3>1. errors < MaxErrors /\ errors' = errors + 1
      BY <1>3, Zenon DEF RedisFails
    <3>2. errors \in 0..MaxErrors
      BY Zenon
    <3>3. QED
      BY <3>1, <3>2, RoleAssumption
  <2>2. node' \in [Node -> NodeState]
    <3>1. CASE Sets(n, s)
      BY <2>0, <3>1 DEF Sets
    <3>2. CASE Goes(n, "cast", "stopped")
      <4>1. node' = [node EXCEPT ![n] = t]
        BY <3>2 DEF Goes
      <4>2. QED
        BY <2>0, <4>1
    <3>3. QED
      BY <1>3, <3>1, <3>2 DEF RedisFails
  <2>3. QED
    BY <1>3, <2>1, <2>2 DEF RedisFails
<1>4. QED
  BY <1>1, <1>2, <1>3

\* A process that dies holds nothing, and its successor nothing yet.
LEMMA ProcessesKeep ==
  ASSUME LeaseInvariant, NEW n \in Node, Crash(n) \/ Fork(n)
  PROVE  LeaseInvariant'
<1> USE DEF LeaseInvariant, TypeOK, HoldsLeader, HoldsBroadcaster, NodeState, Up, Sets, Started
<1>1. CASE Crash(n)
  <2> DEFINE s == [Started EXCEPT !.up = FALSE]
  <2>1. /\ s \in NodeState /\ s.lead = "try" /\ s.cast = "off" /\ s.role = "worker"
        /\ s.amILeader = "undefined" /\ ~s.consuming
    OBVIOUS
  <2>2. /\ Sets(n, s) /\ UNCHANGED <<late, errors>> /\ crashes' \in 0..MaxCrashes
        /\ leader' = IF leader = n THEN Gone ELSE leader
        /\ broadcaster' = IF broadcaster = n THEN Gone ELSE broadcaster
    BY <1>1, RoleAssumption DEF Crash
  <2>3. QED
    BY <2>1, <2>2, NodeStep
<1>2. CASE Fork(n)
  BY <1>2 DEF Fork
<1>3. QED
  BY <1>1, <1>2

\* The invariant is inductive.
LEMMA LeaseStep == LeaseInvariant /\ [Next]_vars => LeaseInvariant'
<1> SUFFICES ASSUME LeaseInvariant, [Next]_vars PROVE LeaseInvariant'
  OBVIOUS
<1>1. CASE UNCHANGED vars
  BY <1>1 DEF vars, LeaseInvariant, TypeOK, HoldsLeader, HoldsBroadcaster
<1>2. CASE Next
  BY <1>2, LeadLoopKeeps, CastLoopKeeps, RedisKeeps, ProcessesKeep DEF Next
<1>3. QED
  BY <1>1, <1>2

\* Every node keeps its types, and its beliefs stay tied to the keys.
THEOREM LeasesHold == Spec => []LeaseInvariant
BY LeaseInit, LeaseStep, PTL DEF Spec

\* One leader, one consumer and one broadcaster at most, in every cluster.
THEOREM AtMostOneOfEach == Spec => []OneOfEach
BY LeasesHold, LeaseSuffices, PTL
=============================================================================
