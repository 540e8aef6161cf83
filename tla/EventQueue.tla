----------------------------- MODULE EventQueue -----------------------------
(***************************************************************************)
(* How the events of the database reach the handlers of helyOS core and    *)
(* the front end.  A trigger inserts a row into events_queue and notifies  *)
(* every node that listens; each notification makes a node pop one row,    *)
(* any row, with DELETE ... FOR UPDATE SKIP LOCKED.  The node that popped  *)
(* an event handles it, and keeps its message for the front end in its own *)
(* buffer (BufferNotifications) until something dispatches the buffer.     *)
(*                                                                         *)
(* What the handlers of the mission's events do is in ServicePipeline,     *)
(* AssignmentPipeline and MissionQueue; here an event is handled when its  *)
(* handler has been called.  Rooms and channels of the front end are       *)
(* merged: the dispatch sends them all.                                    *)
(***************************************************************************)
EXTENDS Naturals, FiniteSets, Sequences, SequencesExt

CONSTANTS
  Node,        \* the processes that share the database
  Event,       \* the events that the triggers will insert
  None,        \* no event, no node
  Priority,    \* events published to the front end at once
  Buffered,    \* events pushed to the buffer only
  MaxCrashes   \* how many processes may die

ASSUME EventAssumption ==
  /\ None \notin Event /\ None \notin Node
  /\ Priority \subseteq Event /\ Buffered \subseteq Event \ Priority
  /\ MaxCrashes \in Nat
ASSUME FiniteAssumption == IsFiniteSet(Node) /\ IsFiniteSet(Event)

VARIABLES
  events_queue,   \* the rows of the table
  inserted,       \* the events whose trigger has fired
  process,        \* how far each node is with start()
  notifications,  \* notifications each node has not yet reacted to
  locked,         \* the row that the node's DELETE holds
  popped,         \* rows returned to the node whose callback has not run
  buffer,         \* bufferPayload of each node
  sent,           \* what the front end has received
  handled,        \* events whose handler has been called
  lost,           \* events that died with the node that had popped them
  broadcaster,    \* the node whose timer dispatches, see RoleAssigner
  behind,         \* rows that may wait without a notification for the node
  crashes

table == <<events_queue, inserted>>
pops == <<notifications, locked, popped>>
frontEnd == <<buffer, sent>>
vars == <<table, process, pops, frontEnd, handled, lost, broadcaster, behind, crashes>>

Listens(n) == process[n] = "listening"
LockedRows == {locked[n] : n \in Node} \ {None}
Lockers == {n \in Node : locked[n] # None}

----------------------------------------------------------------------------
(* The database *)

\* Mutant of Trigger: a node keeps at most one notification, as if a flag said
\* that there is something in the table.
TriggerMutant(e) ==
  /\ e \notin inserted
  /\ inserted' = inserted \cup {e} /\ events_queue' = events_queue \cup {e}
  /\ notifications' = [n \in Node |-> IF Listens(n) THEN 1 ELSE notifications[n]]
  /\ UNCHANGED <<process, locked, popped, frontEnd, handled, lost, broadcaster, behind, crashes>>

\* A transaction commits: the trigger's INSERT and pg_notify take effect.  A
\* node that has sent LISTEN but has no listener yet drops the notification.
Trigger(e) ==
  /\ e \notin inserted
  /\ inserted' = inserted \cup {e} /\ events_queue' = events_queue \cup {e}
  /\ notifications' = [n \in Node |-> IF Listens(n) THEN notifications[n] + 1 ELSE notifications[n]]
  /\ UNCHANGED <<process, locked, popped, frontEnd, handled, lost, broadcaster, behind, crashes>>

\* Mutant of LockEvent: without FOR UPDATE SKIP LOCKED.
LockEventMutant(n) ==
  /\ Listens(n) /\ notifications[n] > 0 /\ locked[n] = None
  /\ notifications' = [notifications EXCEPT ![n] = @ - 1]
  /\ \/ \E e \in events_queue : locked' = [locked EXCEPT ![n] = e]
     \/ events_queue = {} /\ UNCHANGED locked
  /\ UNCHANGED <<table, process, popped, frontEnd, handled, lost, broadcaster, behind, crashes>>

\* The query of a notification: it locks any row that no other query holds,
\* or returns none.  A node's connection runs one query at a time.
LockEvent(n) ==
  /\ Listens(n) /\ notifications[n] > 0 /\ locked[n] = None
  /\ notifications' = [notifications EXCEPT ![n] = @ - 1]
  /\ \/ \E e \in events_queue \ LockedRows : locked' = [locked EXCEPT ![n] = e]
     \/ events_queue \subseteq LockedRows /\ UNCHANGED locked
  /\ UNCHANGED <<table, process, popped, frontEnd, handled, lost, broadcaster, behind, crashes>>

CommitPop(n) ==
  /\ locked[n] # None
  /\ events_queue' = events_queue \ {locked[n]}
  /\ popped' = [popped EXCEPT ![n] = Append(@, locked[n])]
  /\ locked' = [locked EXCEPT ![n] = None]
  /\ UNCHANGED <<inserted, process, notifications, frontEnd, handled, lost, broadcaster, behind, crashes>>

----------------------------------------------------------------------------
(* The nodes *)

\* Mutant of Publish: the buffer is not emptied.
PublishMutant(n, messages) == sent' = sent \o messages /\ UNCHANGED buffer

\* dispatchAllBufferedMessages: everything is emitted and the buffer emptied.
Publish(n, messages) == sent' = sent \o messages /\ buffer' = [buffer EXCEPT ![n] = <<>>]

\* The callback of the query: broadcast, then call of the handler.
Handle(n) ==
  /\ popped[n] # <<>>
  /\ LET e == Head(popped[n]) IN
     /\ handled' = handled \cup {e}
     /\ \/ e \in Priority /\ Publish(n, Append(buffer[n], e))
        \/ e \in Buffered /\ buffer' = [buffer EXCEPT ![n] = Append(@, e)] /\ UNCHANGED sent
        \/ e \notin Priority \cup Buffered /\ UNCHANGED frontEnd
  /\ popped' = [popped EXCEPT ![n] = Tail(@)]
  /\ UNCHANGED <<table, process, notifications, locked, lost, broadcaster, behind, crashes>>

\* The timer of BufferNotifications: only the broadcaster's dispatches.
Tick(n) ==
  /\ broadcaster = n /\ buffer[n] # <<>>
  /\ Publish(n, buffer[n])
  /\ UNCHANGED <<table, process, pops, handled, lost, broadcaster, behind, crashes>>

\* The role passes on to a node that has reached helyosConsumingMessages.
BecomesBroadcaster(n) ==
  /\ broadcaster = None /\ process[n] # "down"
  /\ broadcaster' = n
  /\ UNCHANGED <<table, process, pops, frontEnd, handled, lost, behind, crashes>>

\* connectToDB has sent the LISTENs; the rest of start() runs until
\* handleDatabaseMessages installs the listener.
ConnectToDB(n) ==
  /\ process[n] = "down"
  /\ process' = [process EXCEPT ![n] = "starting"]
  /\ UNCHANGED <<table, pops, frontEnd, handled, lost, broadcaster, behind, crashes>>

HandleDatabaseMessages(n) ==
  /\ process[n] = "starting"
  /\ process' = [process EXCEPT ![n] = "listening"]
  /\ behind' = [behind EXCEPT ![n] = Cardinality(events_queue)]
  /\ UNCHANGED <<table, pops, frontEnd, handled, lost, broadcaster, crashes>>

\* A process dies; the database rolls its query back.  The notification of
\* that row may be spent at every other node, and the row stays.
Crash(n) ==
  /\ process[n] # "down" /\ crashes < MaxCrashes
  /\ crashes' = crashes + 1
  /\ process' = [process EXCEPT ![n] = "down"]
  /\ notifications' = [notifications EXCEPT ![n] = 0]
  /\ locked' = [locked EXCEPT ![n] = None]
  /\ popped' = [popped EXCEPT ![n] = <<>>]
  /\ lost' = lost \cup ToSet(popped[n])
  /\ buffer' = [buffer EXCEPT ![n] = <<>>]
  /\ broadcaster' = IF broadcaster = n THEN None ELSE broadcaster
  /\ behind' = [m \in Node |-> IF m = n THEN 0
                               ELSE IF locked[n] # None THEN behind[m] + 1 ELSE behind[m]]
  /\ UNCHANGED <<table, sent, handled>>

----------------------------------------------------------------------------
Init ==
  /\ events_queue = {} /\ inserted = {}
  /\ process = [n \in Node |-> "down"]
  /\ notifications = [n \in Node |-> 0]
  /\ locked = [n \in Node |-> None] /\ popped = [n \in Node |-> <<>>]
  /\ buffer = [n \in Node |-> <<>>] /\ sent = <<>>
  /\ handled = {} /\ lost = {}
  /\ broadcaster = None /\ behind = [n \in Node |-> 0] /\ crashes = 0

Pops(n) == LockEvent(n) \/ CommitPop(n)
Starts(n) == ConnectToDB(n) \/ HandleDatabaseMessages(n)

Next ==
  \/ \E e \in Event : Trigger(e)
  \/ \E n \in Node : Pops(n) \/ Handle(n) \/ Tick(n) \/ BecomesBroadcaster(n)
                       \/ Starts(n) \/ Crash(n)

Spec == Init /\ [][Next]_vars

(* The database answers, callbacks and timers run, and the primary forks a *)
(* process for each that died.                                             *)
Fairness ==
  \A n \in Node : WF_vars(Pops(n)) /\ WF_vars(Handle(n)) /\ WF_vars(Tick(n)) /\ WF_vars(Starts(n))

FairSpec == Spec /\ Fairness

----------------------------------------------------------------------------
(* Properties *)

TypeOK ==
  /\ inserted \subseteq Event /\ events_queue \subseteq inserted
  /\ process \in [Node -> {"down", "starting", "listening"}]
  /\ notifications \in [Node -> Nat] /\ behind \in [Node -> Nat]
  /\ locked \in [Node -> Event \cup {None}]
  /\ popped \in [Node -> Seq(Event)] /\ buffer \in [Node -> Seq(Event)]
  /\ sent \in Seq(Event) /\ handled \subseteq Event /\ lost \subseteq Event
  /\ broadcaster \in Node \cup {None} /\ crashes \in 0..MaxCrashes

\* One node at most works on an event, and nobody works on one that has been
\* handled, although every node is notified of every event: no request is
\* dispatched twice because two nodes heard of it.
HandledOnce ==
  \A n \in Node : \A i \in 1..Len(popped[n]) :
    LET e == popped[n][i] IN
    /\ e \notin events_queue \cup handled \cup lost
    /\ \A m \in Node : \A j \in 1..Len(popped[m]) : popped[m][j] = e => m = n /\ i = j

\* A node has enough notifications left for all the rows in the table, apart
\* from the rows that other queries hold and from those it is behind: the rows
\* that waited when it began to listen, and one for each query that died.
NotBehind ==
  \A n \in Node : Listens(n) =>
    Cardinality(events_queue) <= notifications[n] + Cardinality(Lockers) + behind[n]

\* While there is a node that is not behind, no event waits for ever.
EventsTaken ==
  \A n \in Node, e \in Event :
    e \in events_queue /\ Listens(n) /\ behind[n] = 0
      ~> e \notin events_queue \/ ~Listens(n) \/ behind[n] > 0

\* Messages for the front end with the place where each is, in any order.
Messages == {<<"sent", i>> : i \in DOMAIN sent}
            \cup UNION {{<<n, i>> : i \in DOMAIN buffer[n]} : n \in Node}

MessageAt(p) == IF p[1] = "sent" THEN sent[p[2]] ELSE buffer[p[1]][p[2]]

\* The front end is told of an event once: whichever node popped it, and
\* whether its timer, an urgent event or nothing yet has dispatched its buffer,
\* no message is there twice, and unless a process died none that a handler
\* has left is missing.
ToldOnce ==
  /\ \A p, q \in Messages : MessageAt(p) = MessageAt(q) => p = q
  /\ crashes = 0 => handled \cap (Priority \cup Buffered) \subseteq {MessageAt(p) : p \in Messages}

\* What a handler has left for the front end reaches it in the end.  TLC
\* refutes this: only the broadcaster's timer dispatches, and what another
\* node has buffered waits for its next urgent event.
FrontEndTold ==
  \A e \in Buffered : e \in handled ~> e \in ToSet(sent) \/ crashes > 0
=============================================================================
