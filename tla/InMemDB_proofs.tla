--------------------------- MODULE InMemDB_proofs ---------------------------
(***************************************************************************)
(* The flushes that wait for the database stay within the limit, for every *)
(* number of nodes, limit, deployment and load.                            *)
(***************************************************************************)
EXTENDS InMemDB, TLAPS

Data == [{"pose", "account"} -> Nat]

\* The types of what the node processes, Redis and the database hold.
TypeOK ==
  /\ row \in Data /\ hash \in Data /\ agents_buffer \in Data
  /\ reported \in Nat /\ changes \in Nat /\ events \subseteq Nat
  /\ agents \in [Node -> Data]
  /\ storing \in [Node -> Seq(Data)] /\ client \in [Node -> Seq(Data)]
  /\ flushing \in [phase: {"idle", "reading", "deleting"}, data: Data]
  /\ shortTimeClient \in Seq(Data) /\ pendingPromises \in Nat

BoundInvariant == TypeOK /\ PendingBounded

\* A patch keeps the type of what it is applied to.
LEMMA AssignTyped ==
  ASSUME NEW data \in Data, NEW patch \in Data
  PROVE  Assign(data, patch) \in Data
  BY DEF Assign, Data

\* The patches the actions build.
LEMMA PatchTyped ==
  /\ Nothing \in Data
  /\ \A v \in Nat : Pose(v) \in Data /\ Account(v) \in Data
  BY SMT DEF Nothing, Pose, Account, Data

\* InMemDB.update, in both modes, with and without Redis.
LEMMA UpdateTyped ==
  ASSUME TypeOK, NEW n \in Node, NEW data \in Data, NEW mode, Update(n, data, mode)
  PROVE  /\ agents' \in [Node -> Data] /\ hash' \in Data /\ agents_buffer' \in Data
         /\ storing' \in [Node -> Seq(Data)]
<1>1. Assign(agents[n], data) \in Data /\ Assign(hash, data) \in Data
      /\ Assign(agents_buffer, data) \in Data
  BY AssignTyped DEF TypeOK
<1>2. agents' = [agents EXCEPT ![n] = Assign(agents[n], data)]
  BY DEF Update
<1>3. CASE config.redis
  <2>1. hash' = Assign(hash, data) /\ agents_buffer' = agents_buffer
        /\ (storing' = [storing EXCEPT ![n] = Append(storing[n], data)] \/ storing' = storing)
    BY <1>3 DEF Update
  <2>2. Append(storing[n], data) \in Seq(Data)
    BY DEF TypeOK
  <2> QED
    BY <1>1, <1>2, <2>1, <2>2 DEF TypeOK
<1>4. CASE ~config.redis
  <2>1. agents_buffer' = Assign(agents_buffer, data) /\ hash' = hash /\ storing' = storing
    BY <1>4 DEF Update
  <2> QED
    BY <1>1, <1>2, <2>1 DEF TypeOK
<1> QED
  BY <1>3, <1>4

\* dispatchUpdatePromise adds a flush only below the limit.
LEMMA DispatchBounded ==
  ASSUME TypeOK, PendingBounded, NEW data \in Data, NEW dropped,
         DispatchUpdatePromise(data, dropped)
  PROVE  shortTimeClient' \in Seq(Data) /\ pendingPromises' \in Nat /\ PendingBounded'
<1>1. CASE pendingPromises > 2 * limitWaitingFlushes
  BY <1>1 DEF DispatchUpdatePromise, TypeOK, PendingBounded
<1>2. CASE ~(pendingPromises > 2 * limitWaitingFlushes)
  <2>1. shortTimeClient' = Append(shortTimeClient, data) /\ pendingPromises' = pendingPromises + 1
    BY <1>2 DEF DispatchUpdatePromise
  <2>2. Append(shortTimeClient, data) \in Seq(Data)
        /\ Len(Append(shortTimeClient, data)) = Len(shortTimeClient) + 1
    BY DEF TypeOK
  <2> QED
    BY <1>2, <2>1, <2>2, ConfigAssumption DEF TypeOK, PendingBounded
<1> QED
  BY <1>1, <1>2

\* UPDATE statements keep the row and its events typed.
LEMMA WriteTyped ==
  ASSUME TypeOK, NEW data \in Data, Write(data)
  PROVE  row' \in Data /\ events' \subseteq Nat /\ changes' \in Nat
<1>1. Assign(row, data) \in Data /\ data.account \in Nat
  BY AssignTyped DEF TypeOK, Data
<1> QED
  BY <1>1 DEF Write, TypeOK

\* Nothing is pending when the nodes start.
LEMMA BoundInit == Init => BoundInvariant
<1> SUFFICES ASSUME Init PROVE BoundInvariant
  OBVIOUS
<1>1. Nothing \in Data /\ Account(1) \in Data
  BY PatchTyped
<1>2. [n \in Node |-> <<>>] \in [Node -> Seq(Data)] /\ <<>> \in Seq(Data) /\ Len(<<>>) = 0
  OBVIOUS
<1> QED
  BY <1>1, <1>2, ConfigAssumption DEF Init, BoundInvariant, TypeOK, PendingBounded

\* What a step that leaves the pending flushes alone has to show.
LEMMA SameFlushes ==
  ASSUME BoundInvariant, UNCHANGED <<shortTimeClient, pendingPromises>>, TypeOK'
  PROVE  BoundInvariant'
  BY DEF BoundInvariant, PendingBounded

\* Messages, events, queries and the buffers: none of them adds a flush.
LEMMA UpdateSteps ==
  ASSUME BoundInvariant, NEW n \in Node,
         \/ AgentAutoUpdate(n) \/ ChangeAccount \/ Delete(n) \/ ChangeAgentSecurity(n)
         \/ GetData(n) \/ UpdateBuffer(n) \/ QueryDone(n)
  PROVE  BoundInvariant'
<1> USE DEF BoundInvariant
<1>1. CASE AgentAutoUpdate(n)
  <2>1. Pose(reported + 1) \in Data
    BY PatchTyped DEF TypeOK
  <2>2. Append(client[n], Pose(reported + 1)) \in Seq(Data)
    BY <2>1 DEF TypeOK
  <2>3. Update(n, Pose(reported + 1), "buffered") /\ reported' = reported + 1
        /\ (client' = client \/ client' = [client EXCEPT ![n] = Append(client[n], Pose(reported + 1))])
        /\ UNCHANGED <<config, database, flush, lost, deletions>>
    BY <1>1 DEF AgentAutoUpdate
  <2>4. /\ agents' \in [Node -> Data] /\ hash' \in Data /\ agents_buffer' \in Data
        /\ storing' \in [Node -> Seq(Data)]
    BY <2>1, <2>3, UpdateTyped
  <2>5. client' \in [Node -> Seq(Data)] /\ reported' \in Nat
    <3>1. reported + 1 \in Nat
      BY DEF TypeOK
    <3>2. [client EXCEPT ![n] = Append(client[n], Pose(reported + 1))] \in [Node -> Seq(Data)]
      BY <2>2 DEF TypeOK
    <3> QED
      BY <2>3, <3>1, <3>2 DEF TypeOK
  <2>6. TypeOK'
    BY <2>3, <2>4, <2>5 DEF TypeOK, database, flush
  <2> QED
    BY <2>3, <2>6, SameFlushes DEF flush
<1>2. CASE ChangeAccount
  <2>1. changes + 1 \in Nat /\ changes + 2 \in Nat
    BY DEF TypeOK
  <2>2. [row EXCEPT !.account = changes + 2] \in Data
    BY <2>1 DEF TypeOK, Data
  <2>3. events \cup {changes + 2} \subseteq Nat
    BY <2>1 DEF TypeOK
  <2> QED
    BY <1>2, <2>1, <2>2, <2>3, SameFlushes DEF ChangeAccount, TypeOK, cache, flush
<1>3. CASE Delete(n)
  <2>1. Nothing \in Data /\ Append(storing[n], Nothing) \in Seq(Data)
    BY PatchTyped DEF TypeOK
  <2> QED
    BY <1>3, <2>1, SameFlushes DEF Delete, TypeOK, database, flush
<1>4. CASE ChangeAgentSecurity(n)
  <2>1. PICK a \in events : events' = events \ {a} /\ Update(n, Account(a), "buffered")
    BY <1>4 DEF ChangeAgentSecurity
  <2>2. Account(a) \in Data
    BY PatchTyped DEF TypeOK
  <2> QED
    BY <1>4, <2>1, <2>2, UpdateTyped, SameFlushes DEF ChangeAgentSecurity, TypeOK, flush
<1>5. CASE GetData(n)
  <2>1. Append(client[n], Nothing) \in Seq(Data)
    BY PatchTyped DEF TypeOK
  <2> QED
    BY <1>5, <2>1, SameFlushes DEF GetData, TypeOK, database, cache, flush
<1>6. CASE UpdateBuffer(n)
  <2>1. storing[n] \in Seq(Data) /\ storing[n] # <<>>
    BY <1>6 DEF UpdateBuffer, TypeOK
  <2>2. Head(storing[n]) \in Data /\ Tail(storing[n]) \in Seq(Data)
    BY <2>1
  <2>3. Nothing \in Data /\ Assign(agents_buffer, Head(storing[n])) \in Data
    BY <2>2, PatchTyped, AssignTyped DEF TypeOK
  <2> QED
    BY <1>6, <2>2, <2>3, SameFlushes DEF UpdateBuffer, TypeOK, database, flush
<1>7. CASE QueryDone(n)
  <2>1. client[n] \in Seq(Data) /\ client[n] # <<>>
    BY <1>7 DEF QueryDone, TypeOK
  <2>2. Head(client[n]) \in Data /\ Tail(client[n]) \in Seq(Data)
    BY <2>1
  <2>3. Account(row.account) \in Data
    BY PatchTyped DEF TypeOK, Data
  <2>4. Append(Tail(client[n]), Account(row.account)) \in Seq(Data)
    BY <2>2, <2>3
  <2>5. CASE Head(client[n]) = Nothing
    <3>1. Update(n, Account(row.account), "realtime")
          /\ client' = [client EXCEPT ![n] = Append(Tail(client[n]), Account(row.account))]
          /\ UNCHANGED <<database, reported, flush>>
      BY <1>7, <2>5 DEF QueryDone
    <3> QED
      BY <2>3, <2>4, <3>1, UpdateTyped, SameFlushes DEF TypeOK, database, flush
  <2>6. CASE Head(client[n]) # Nothing
    <3>1. Write(Head(client[n])) /\ client' = [client EXCEPT ![n] = Tail(client[n])]
          /\ UNCHANGED <<cache, reported, flush>>
      BY <1>7, <2>6 DEF QueryDone
    <3> QED
      BY <2>2, <3>1, WriteTyped, SameFlushes DEF TypeOK, cache, flush
  <2> QED
    BY <2>5, <2>6
<1> QED
  BY <1>1, <1>2, <1>3, <1>4, <1>5, <1>6, <1>7

\* The timer's flush, and the answers of the database.
LEMMA FlushSteps ==
  ASSUME BoundInvariant, Flushes \/ FlushDone
  PROVE  BoundInvariant'
<1> USE DEF BoundInvariant
<1>1. CASE Flush
  <2>1. Nothing \in Data
    BY PatchTyped
  <2>2. /\ UNCHANGED <<database, reported, agents, hash, storing, client>>
        /\ agents_buffer' = agents_buffer \/ agents_buffer' = Nothing
        /\ flushing' = flushing \/ flushing' = [flushing EXCEPT !.phase = "reading"]
    BY <1>1 DEF Flush
  <2>3. DispatchUpdatePromise(agents_buffer, {}) \/ UNCHANGED <<shortTimeClient, pendingPromises>>
    BY <1>1 DEF Flush
  <2>4. shortTimeClient' \in Seq(Data) /\ pendingPromises' \in Nat /\ PendingBounded'
    BY <2>3, DispatchBounded DEF TypeOK, PendingBounded
  <2> QED
    BY <2>1, <2>2, <2>4 DEF TypeOK, database
<1>2. CASE ReadHashes
  <2>1. Nothing \in Data
    BY PatchTyped
  <2> QED
    BY <1>2, <2>1, SameFlushes DEF ReadHashes, TypeOK, database, cache
<1>3. CASE DeleteHashes
  <2>1. Nothing \in Data
    BY PatchTyped
  <2>2. shortTimeClient' \in Seq(Data) /\ pendingPromises' \in Nat /\ PendingBounded'
    BY <1>3, DispatchBounded DEF DeleteHashes, TypeOK
  <2> QED
    BY <1>3, <2>1, <2>2 DEF DeleteHashes, TypeOK, database
<1>4. CASE FlushDone
  <2>1. shortTimeClient \in Seq(Data) /\ shortTimeClient # <<>>
    BY <1>4 DEF FlushDone, TypeOK
  <2>2. Head(shortTimeClient) \in Data /\ Tail(shortTimeClient) \in Seq(Data)
        /\ Len(Tail(shortTimeClient)) = Len(shortTimeClient) - 1 /\ Len(shortTimeClient) > 0
    BY <2>1
  <2>3. row' \in Data /\ events' \subseteq Nat /\ changes' \in Nat
    <3>1. Write(Head(shortTimeClient)) \/ UNCHANGED database
      BY <1>4 DEF FlushDone
    <3> QED
      BY <2>2, <3>1, WriteTyped DEF TypeOK, database
  <2>4. pendingPromises' \in Nat /\ PendingBounded'
    BY <1>4, <2>2, ConfigAssumption DEF FlushDone, TypeOK, PendingBounded
  <2> QED
    BY <1>4, <2>2, <2>3, <2>4 DEF FlushDone, TypeOK, cache
<1> QED
  BY <1>1, <1>2, <1>3, <1>4 DEF Flushes

\* The invariant is inductive.
LEMMA BoundStep == BoundInvariant /\ [Next]_vars => BoundInvariant'
<1> SUFFICES ASSUME BoundInvariant, [Next]_vars PROVE BoundInvariant'
  OBVIOUS
<1>1. CASE UNCHANGED vars
  BY <1>1 DEF vars, database, cache, flush, BoundInvariant, TypeOK, PendingBounded
<1>2. CASE Flushes \/ FlushDone
  BY <1>2, FlushSteps
<1>3. ASSUME NEW n \in Node,
             \/ AgentAutoUpdate(n) \/ ChangeAccount \/ Delete(n) \/ ChangeAgentSecurity(n)
             \/ GetData(n) \/ UpdateBuffer(n) \/ QueryDone(n)
      PROVE  BoundInvariant'
  BY <1>3, UpdateSteps
<1> QED
  BY <1>1, <1>2, <1>3, ConfigAssumption DEF Next, Reports

\* The leader never has more flushes pending than the limit allows, and none
\* is pending that it has not counted: however many nodes report, however
\* slow the database is and whatever is deleted in between.
THEOREM FlushesBounded == Spec => []PendingBounded
<1>1. BoundInvariant => PendingBounded
  BY DEF BoundInvariant
<1> QED
  BY BoundInit, BoundStep, <1>1, PTL DEF Spec
=============================================================================
