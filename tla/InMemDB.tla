------------------------------ MODULE InMemDB -------------------------------
(***************************************************************************)
(* The in-memory database between the agents' messages and PostgreSQL, for *)
(* one agent.  Its data has two fields with versions, 0 when absent: pose, *)
(* which messages report, and account, the fields of the agent's login,    *)
(* which users change in the row.  Every node caches the data in a table   *)
(* of its own; updates gather in a buffer, which the leader flushes to the *)
(* database each DB_BUFFER_TIME.  With Redis the buffer and a copy of the  *)
(* table are hashes that all the nodes share, otherwise the one node keeps *)
(* them.  Statistics, and the fields that a flush never writes, are left   *)
(* out; time-outs of statements are choices of the database.               *)
(***************************************************************************)
EXTENDS Naturals, Sequences, SequencesExt

CONSTANTS
  Node, Leader,          \* the nodes, and the one that flushes
  limitWaitingFlushes,   \* see dispatchUpdatePromise
  Configs,               \* the deployments and loads that Init chooses from
  MaxQueries             \* bound on the queues when data is read or an event popped

ASSUME ConfigAssumption ==
  /\ Leader \in Node /\ limitWaitingFlushes \in Nat \ {0} /\ MaxQueries \in Nat \ {0}
  /\ Configs \subseteq [redis : BOOLEAN,     \* REDIS_HOST is set
                        realtime : BOOLEAN,  \* the agent uses the update queue
                        reloads : BOOLEAN,   \* its messages go on and the caches' period passes
                        poses : Nat, changes : Nat, deletions : 0..1,
                        flushes : Nat]       \* bound on the flushes that wait

VARIABLES
  config,
  row,              \* the agent's row in PostgreSQL
  reported,         \* version of the newest pose sent by the agent
  events,           \* change_agent_security: the accounts of the events to handle
  agents,           \* the table of each node
  hash,             \* Redis: agents:uuid
  agents_buffer,    \* Redis: agents_buffer:uuid; the leader's own without Redis
  storing,          \* second part of update() and of delete(), at each node
  flushing,         \* how far the leader's flush is, and the data it has read
  updateTimeout,    \* statement_timeout of the leader's short connection
  shortTimeClient,  \* the queries sent on that connection
  pendingPromises,  \* flushes of the leader whose promises are not settled
  client,           \* the queries each node sent on its main connection
  changes,          \* versions of the account so far
  lost,             \* poses that a time-out, a limit or a deletion dropped
  deletions

database == <<row, events, changes>>
cache == <<agents, hash, agents_buffer, storing>>
flush == <<flushing, updateTimeout, shortTimeClient, pendingPromises>>
vars == <<config, database, reported, cache, flush, client, lost, deletions>>

Nothing == [pose |-> 0, account |-> 0]
Pose(v) == [Nothing EXCEPT !.pose = v]
Account(v) == [Nothing EXCEPT !.account = v]
Active == IF config.redis THEN Node ELSE {Leader}

\* Object.assign, hSet and UPDATE: the fields of the patch replace the old ones.
Assign(data, patch) ==
  [f \in {"pose", "account"} |-> IF patch[f] = 0 THEN data[f] ELSE patch[f]]

----------------------------------------------------------------------------
(* InMemDB.update, updateBuffer and delete *)

\* Updates the node's table, and the Redis hash at once; the buffer after the
\* answer of Redis, in the order of the updates.  Without Redis no await
\* comes between.  In mode `realtime' Redis' buffer is not used.
Update(n, data, mode) ==
  /\ agents' = [agents EXCEPT ![n] = Assign(@, data)]
  /\ IF config.redis
     THEN /\ hash' = Assign(hash, data)
          /\ storing' = IF mode = "buffered" THEN [storing EXCEPT ![n] = Append(@, data)] ELSE storing
          /\ UNCHANGED agents_buffer
     ELSE /\ agents_buffer' = Assign(agents_buffer, data)
          /\ UNCHANGED <<hash, storing>>

\* Mutant of UpdateBuffer: the new data replaces the hash, as SET would do.
UpdateBufferMutant(n) ==
  /\ storing[n] # <<>>
  /\ agents_buffer' = Nothing
  /\ storing' = [storing EXCEPT ![n] = Tail(@)]
  /\ lost' = lost
  /\ UNCHANGED <<config, database, reported, agents, hash, flush, client, deletions>>

\* Redis has answered the first hSet of an update (or del of a deletion,
\* queued as Nothing): the buffer's hash is written (or deleted).
UpdateBuffer(n) ==
  /\ storing[n] # <<>>
  /\ LET data == Head(storing[n]) IN
     IF data = Nothing
     THEN agents_buffer' = Nothing /\ lost' = lost \cup {agents_buffer.pose}
     ELSE agents_buffer' = Assign(agents_buffer, data) /\ UNCHANGED lost
  /\ storing' = [storing EXCEPT ![n] = Tail(@)]
  /\ UNCHANGED <<config, database, reported, agents, hash, flush, client, deletions>>

\* delete(): watchMessageRates, or the deletion of an account, drops the data.
Delete(n) ==
  /\ n \in Active /\ deletions < config.deletions
  /\ deletions' = deletions + 1
  /\ agents' = [agents EXCEPT ![n] = Nothing]
  /\ IF config.redis
     THEN hash' = Nothing /\ storing' = [storing EXCEPT ![n] = Append(@, Nothing)]
          /\ UNCHANGED <<agents_buffer, lost>>
     ELSE agents_buffer' = Nothing /\ lost' = lost \cup {agents_buffer.pose}
          /\ UNCHANGED <<hash, storing>>
  /\ UNCHANGED <<config, database, reported, flush, client>>

----------------------------------------------------------------------------
(* The agent's messages and the users' changes *)

\* agentAutoUpdate: a pose of the visualization queue, buffered at a follower
\* (a single node consumes every queue), or of the update queue, which the
\* leader buffers and writes to the database at once.
AgentAutoUpdate(n) ==
  /\ reported < config.poses
  /\ n \in Active /\ (config.realtime => n = Leader) /\ (config.redis /\ ~config.realtime => n # Leader)
  /\ reported' = reported + 1
  /\ Update(n, Pose(reported + 1), "buffered")
  /\ client' = IF config.realtime
               THEN [client EXCEPT ![n] = Append(@, Pose(reported + 1))] ELSE client
  /\ UNCHANGED <<config, database, flush, lost, deletions>>

\* A user writes the account; the trigger inserts the event with the row.
ChangeAccount ==
  /\ changes < config.changes
  /\ changes' = changes + 1
  /\ row' = [row EXCEPT !.account = changes + 2]
  /\ events' = events \cup {changes + 2}
  /\ UNCHANGED <<config, reported, cache, flush, client, lost, deletions>>

\* One node pops change_agent_security and buffers the payload.
ChangeAgentSecurity(n) ==
  /\ n \in Active /\ Len(storing[n]) < MaxQueries
  /\ \E a \in events :
       events' = events \ {a} /\ Update(n, Account(a), "buffered")
  /\ UNCHANGED <<config, row, changes, reported, flush, client, lost, deletions>>

\* Mutant of GetData: a table that has the data is used for ever.
GetDataMutant(n) ==
  /\ n \in Active /\ Len(client[n]) < MaxQueries /\ config.reloads
  /\ agents[n].account = 0 /\ hash.account = 0
  /\ client' = [client EXCEPT ![n] = Append(@, Nothing)]
  /\ UNCHANGED <<config, database, reported, cache, flush, lost, deletions>>

\* DataRetriever.getData for a message, when it asks the database (a query
\* queued as Nothing): the period is over, or neither the node's table nor
\* Redis has the fields.
GetData(n) ==
  /\ n \in Active /\ Len(client[n]) < MaxQueries /\ config.reloads
  /\ client' = [client EXCEPT ![n] = Append(@, Nothing)]
  /\ UNCHANGED <<config, database, reported, cache, flush, lost, deletions>>

----------------------------------------------------------------------------
(* The connections to the database *)

\* An UPDATE: the trigger tells of an account that is not as before.
Write(data) ==
  /\ row' = Assign(row, data)
  /\ events' = IF data.account \in {0, row.account} THEN events ELSE events \cup {data.account}
  /\ UNCHANGED changes

\* The next query of the main connection: the write of a pose or an account,
\* or a read, whose callback puts what it got into the in-memory database and
\* writes it back to the row (mode `realtime').
QueryDone(n) ==
  /\ client[n] # <<>>
  /\ LET query == Head(client[n]) IN
     IF query = Nothing
     THEN /\ Update(n, Account(row.account), "realtime")
          /\ client' = [client EXCEPT ![n] = Append(Tail(@), Account(row.account))]
          /\ UNCHANGED database
     ELSE Write(query) /\ client' = [client EXCEPT ![n] = Tail(@)] /\ UNCHANGED cache
  /\ UNCHANGED <<config, reported, flush, lost, deletions>>

\* The next query of updateMany is done, or stopped by statement_timeout.
FlushDone ==
  /\ shortTimeClient # <<>>
  /\ \/ Write(Head(shortTimeClient)) /\ UNCHANGED lost
     \/ lost' = lost \cup {Head(shortTimeClient).pose} /\ UNCHANGED database
  /\ shortTimeClient' = Tail(shortTimeClient)
  /\ pendingPromises' = pendingPromises - 1
  /\ UNCHANGED <<config, reported, cache, flushing, updateTimeout, client, deletions>>

----------------------------------------------------------------------------
(* InMemDB.flush *)

\* Mutant of DispatchUpdatePromise: the limit is looked at when it is passed
\* by more than one flush.
DispatchUpdatePromiseMutant(data, dropped) ==
  IF pendingPromises > 2 * limitWaitingFlushes + 1
  THEN lost' = lost \cup dropped \cup {data.pose} /\ UNCHANGED <<shortTimeClient, pendingPromises>>
  ELSE /\ shortTimeClient' = Append(shortTimeClient, data)
       /\ pendingPromises' = pendingPromises + 1
       /\ lost' = lost \cup dropped

\* The data of a flush becomes a pending query, unless too many are pending.
DispatchUpdatePromise(data, dropped) ==
  IF pendingPromises > 2 * limitWaitingFlushes
  THEN lost' = lost \cup dropped \cup {data.pose} /\ UNCHANGED <<shortTimeClient, pendingPromises>>
  ELSE /\ shortTimeClient' = Append(shortTimeClient, data)
       /\ pendingPromises' = pendingPromises + 1
       /\ lost' = lost \cup dropped

\* _dynamicallyChooseTimeout; Math.round rounds a half up.
DynamicallyChooseTimeout ==
  updateTimeout' = IF pendingPromises > limitWaitingFlushes THEN "short"
                   ELSE IF pendingPromises < (limitWaitingFlushes + 1) \div 2 THEN "long"
                   ELSE updateTimeout

\* moveMemDataToDB, by the timer of the leader.  Without Redis the buffer is
\* taken and replaced in one step; with Redis the reading begins.
Flush ==
  /\ flushing.phase = "idle" /\ pendingPromises < config.flushes
  /\ DynamicallyChooseTimeout
  /\ IF config.redis
     THEN flushing' = [flushing EXCEPT !.phase = "reading"]
          /\ UNCHANGED <<agents_buffer, shortTimeClient, pendingPromises, lost>>
     ELSE /\ agents_buffer' = Nothing /\ UNCHANGED flushing
          /\ IF agents_buffer = Nothing THEN UNCHANGED <<shortTimeClient, pendingPromises, lost>>
             ELSE DispatchUpdatePromise(agents_buffer, {})
  /\ UNCHANGED <<config, database, reported, agents, hash, storing, client, deletions>>

\* getAndDeleteHashesByPattern: the MULTI that reads the hashes; without any
\* the flush ends.
ReadHashes ==
  /\ flushing.phase = "reading"
  /\ flushing' = IF agents_buffer = Nothing THEN [phase |-> "idle", data |-> Nothing]
                 ELSE [phase |-> "deleting", data |-> agents_buffer]
  /\ UNCHANGED <<config, database, reported, cache, updateTimeout, shortTimeClient,
                 pendingPromises, client, lost, deletions>>

\* The second MULTI deletes the hashes, with what was stored since the first
\* one; then the data is sent to the database.
DeleteHashes ==
  /\ flushing.phase = "deleting"
  /\ flushing' = [phase |-> "idle", data |-> Nothing]
  /\ agents_buffer' = Nothing
  /\ DispatchUpdatePromise(flushing.data, {agents_buffer.pose} \ {flushing.data.pose})
  /\ UNCHANGED <<config, database, reported, agents, hash, storing, updateTimeout, client, deletions>>

----------------------------------------------------------------------------
Init ==
  /\ config \in Configs
  /\ row = Account(1) /\ reported = 0 /\ changes = 0 /\ events = {}
  /\ agents = [n \in Node |-> Nothing] /\ hash = Nothing
  /\ agents_buffer = Nothing /\ storing = [n \in Node |-> <<>>]
  /\ flushing = [phase |-> "idle", data |-> Nothing] /\ updateTimeout = "long"
  /\ shortTimeClient = <<>> /\ pendingPromises = 0
  /\ client = [n \in Node |-> <<>>]
  /\ lost = {} /\ deletions = 0

Reports == \E n \in Node : AgentAutoUpdate(n)
Flushes == Flush \/ ReadHashes \/ DeleteHashes

Next ==
  \/ Reports \/ ChangeAccount \/ Flushes \/ FlushDone
  \/ \E n \in Node : Delete(n) \/ ChangeAgentSecurity(n) \/ GetData(n) \/ UpdateBuffer(n) \/ QueryDone(n)

Spec == Init /\ [][Next]_vars

(* Redis and the database answer or fail, the leader's timer fires, and the *)
(* agent's messages make a node ask the database again after the period.    *)
Fairness ==
  /\ WF_vars(Flushes) /\ WF_vars(FlushDone)
  /\ \A n \in Node : WF_vars(UpdateBuffer(n)) /\ WF_vars(QueryDone(n)) /\ WF_vars(GetData(n))

FairSpec == Spec /\ Fairness

----------------------------------------------------------------------------
(* Properties *)

\* The flushes that wait for the database are those counted, and not more
\* than the limit allows, however slow the database is.
PendingBounded ==
  /\ pendingPromises = Len(shortTimeClient)
  /\ pendingPromises <= 2 * limitWaitingFlushes + 1

\* The row settles at the last pose the agent reported, although it passes
\* through hashes, buffers and two connections; or that pose was dropped by
\* a time-out, by the limit, by a deletion, or between the two MULTIs.
Settles == <>[](row.pose = reported \/ reported \in lost)

\* A node is told of a change of the account only if it popped the event; all
\* the others learn it from the database while the agent sends messages.
CachesCatchUp ==
  config.reloads => \A n \in Node :
    (n \in Active /\ agents[n].account # row.account) ~> agents[n].account = row.account
=============================================================================
