-------------------------- MODULE EventQueue_proofs --------------------------
(***************************************************************************)
(* Proofs about EventQueue, for any number of nodes, events and crashes:   *)
(* no event is worked on twice (HandledOnce), and a node is never notified *)
(* of fewer rows than wait for it (NotBehind).                             *)
(*                                                                         *)
(* Both rest on the row lock: the rows that are locked are in the table,   *)
(* and no two queries lock the same one.  NotBehind is an inequality of    *)
(* cardinalities; the lemmas first count rows and locks.                   *)
(***************************************************************************)
EXTENDS EventQueue, TLAPS, FiniteSetTheorems

\* The row locks: a locked row exists, and one query holds it.
LocksHold ==
  /\ \A n \in Node : locked[n] # None => locked[n] \in events_queue
  /\ \A m, n \in Node : locked[m] = locked[n] /\ locked[m] # None => m = n

\* An event is in one place only, and it has been inserted.
OnePlace ==
  /\ events_queue \cap (handled \cup lost) = {}
  /\ handled \cup lost \subseteq inserted
  /\ \A n \in Node : \A i \in 1..Len(popped[n]) : popped[n][i] \in inserted

SafetyInvariant == TypeOK /\ LocksHold /\ OnePlace /\ HandledOnce

----------------------------------------------------------------------------
(* Types *)

\* TypeOK holds of every step: the queue, the pops and the front end.
LEMMA TypeStep == TypeOK /\ [Next]_vars => TypeOK'
<1> SUFFICES ASSUME TypeOK, [Next]_vars PROVE TypeOK'
  OBVIOUS
<1> USE DEF TypeOK, table, pops, frontEnd
<1>1. ASSUME NEW e \in Event, Trigger(e) PROVE TypeOK'
  BY <1>1 DEF Trigger
<1>2. ASSUME NEW n \in Node, LockEvent(n) PROVE TypeOK'
  <2>1. locked' \in [Node -> Event \cup {None}]
    <3>1. CASE \E e \in events_queue : locked' = [locked EXCEPT ![n] = e]
      BY <3>1
    <3>2. CASE UNCHANGED locked
      BY <3>2
    <3>3. QED
      BY <1>2, <3>1, <3>2 DEF LockEvent
  <2>2. notifications' \in [Node -> Nat]
    BY <1>2 DEF LockEvent
  <2>3. QED
    BY <1>2, <2>1, <2>2 DEF LockEvent
<1>3. ASSUME NEW n \in Node, CommitPop(n) PROVE TypeOK'
  BY <1>3, EventAssumption DEF CommitPop
<1>4. ASSUME NEW n \in Node, Handle(n) PROVE TypeOK'
  <2>1. Head(popped[n]) \in Event /\ Tail(popped[n]) \in Seq(Event)
    BY <1>4 DEF Handle
  <2>2. buffer' \in [Node -> Seq(Event)] /\ sent' \in Seq(Event)
    <3> DEFINE e == Head(popped[n])
    <3>1. buffer[n] \in Seq(Event) /\ Append(buffer[n], e) \in Seq(Event)
      BY <2>1
    <3>2. CASE Publish(n, Append(buffer[n], e))
      BY <3>1, <3>2 DEF Publish
    <3>3. CASE buffer' = [buffer EXCEPT ![n] = Append(@, e)] /\ UNCHANGED sent
      BY <3>1, <3>3
    <3>4. CASE UNCHANGED frontEnd
      BY <3>4
    <3>5. QED
      BY <1>4, <3>2, <3>3, <3>4 DEF Handle
  <2>3. QED
    BY <1>4, <2>1, <2>2 DEF Handle
<1>5. ASSUME NEW n \in Node, Tick(n) PROVE TypeOK'
  BY <1>5 DEF Tick, Publish
<1>6. ASSUME NEW n \in Node, BecomesBroadcaster(n) PROVE TypeOK'
  BY <1>6 DEF BecomesBroadcaster
<1>7. ASSUME NEW n \in Node, ConnectToDB(n) PROVE TypeOK'
  BY <1>7 DEF ConnectToDB
<1>8. ASSUME NEW n \in Node, HandleDatabaseMessages(n) PROVE TypeOK'
  <2>1. Cardinality(events_queue) \in Nat
    BY FS_Subset, FS_CardinalityType, FiniteAssumption
  <2>2. QED
    BY <1>8, <2>1 DEF HandleDatabaseMessages
<1>9. ASSUME NEW n \in Node, Crash(n) PROVE TypeOK'
  <2>1. lost' \subseteq Event
    BY <1>9 DEF Crash, ToSet
  <2>2. crashes' \in 0..MaxCrashes
    BY <1>9, EventAssumption DEF Crash
  <2>3. behind' \in [Node -> Nat]
    BY <1>9 DEF Crash
  <2>4. QED
    BY <1>9, <2>1, <2>2, <2>3 DEF Crash
<1>10. CASE UNCHANGED vars
  BY <1>10 DEF vars
<1>11. QED
  BY <1>1, <1>2, <1>3, <1>4, <1>5, <1>6, <1>7, <1>8, <1>9, <1>10 DEF Next, Pops, Starts

----------------------------------------------------------------------------
(* One place for every event *)

\* Nothing is locked, held or handled when the nodes start.
LEMMA SafetyInit == Init => SafetyInvariant
BY EventAssumption DEF Init, SafetyInvariant, TypeOK, LocksHold, OnePlace, HandledOnce

\* A step keeps every event in one place, and at one node.
LEMMA SafetyStep == SafetyInvariant /\ [Next]_vars => SafetyInvariant'
<1> SUFFICES ASSUME SafetyInvariant, [Next]_vars PROVE (LocksHold /\ OnePlace /\ HandledOnce)'
  BY TypeStep DEF SafetyInvariant
<1> USE DEF table, pops, frontEnd
<1>0. TypeOK /\ LocksHold /\ OnePlace /\ HandledOnce
  BY DEF SafetyInvariant
<1>p. \A m \in Node : \A i \in 1..Len(popped[m]) :
        /\ popped[m][i] \notin events_queue /\ popped[m][i] \notin handled
        /\ popped[m][i] \notin lost /\ popped[m][i] \in inserted
  BY <1>0 DEF HandledOnce, OnePlace
<1>u. \A m, k \in Node : \A i \in 1..Len(popped[m]), j \in 1..Len(popped[k]) :
        popped[m][i] = popped[k][j] => m = k /\ i = j
  BY <1>0 DEF HandledOnce
<1>1. ASSUME NEW e \in Event, Trigger(e) PROVE (LocksHold /\ OnePlace /\ HandledOnce)'
  BY <1>0, <1>1 DEF Trigger, LocksHold, OnePlace, HandledOnce
<1>2. ASSUME NEW n \in Node, LockEvent(n) PROVE (LocksHold /\ OnePlace /\ HandledOnce)'
  <2>1. LocksHold'
    <3>1. CASE \E e \in events_queue \ LockedRows : locked' = [locked EXCEPT ![n] = e]
      <4>1. PICK e \in events_queue : e \notin LockedRows /\ locked' = [locked EXCEPT ![n] = e]
        BY <3>1
      <4>2. e # None /\ \A m \in Node : locked[m] # e
        BY <1>0, <4>1, EventAssumption DEF LockedRows, TypeOK
      <4>3. \A m \in Node : locked'[m] = IF m = n THEN e ELSE locked[m]
        BY <1>0, <4>1 DEF TypeOK
      <4>4. events_queue' = events_queue
        BY <1>2 DEF LockEvent
      <4>5. QED
        BY <1>0, <4>1, <4>2, <4>3, <4>4 DEF LocksHold
    <3>2. CASE UNCHANGED locked
      BY <1>0, <1>2, <3>2 DEF LockEvent, LocksHold
    <3>3. QED
      BY <1>2, <3>1, <3>2 DEF LockEvent
  <2>2. QED
    BY <1>0, <1>2, <2>1 DEF LockEvent, OnePlace, HandledOnce
<1>3. ASSUME NEW n \in Node, CommitPop(n) PROVE (LocksHold /\ OnePlace /\ HandledOnce)'
  <2> DEFINE e == locked[n]
  <2>1. e \in events_queue /\ e \in Event
    BY <1>0, <1>3 DEF CommitPop, LocksHold, TypeOK
  <2>2. \A m \in Node : m # n => popped'[m] = popped[m] /\ locked'[m] = locked[m]
    BY <1>0, <1>3 DEF CommitPop, TypeOK
  <2>3. popped'[n] = Append(popped[n], e) /\ locked'[n] = None /\ events_queue' = events_queue \ {e}
    BY <1>0, <1>3 DEF CommitPop, TypeOK
  <2>4. UNCHANGED <<inserted, handled, lost>>
    BY <1>0, <1>3 DEF CommitPop, TypeOK
  <2>5. /\ Len(popped'[n]) = Len(popped[n]) + 1
        /\ \A i \in 1..Len(popped[n]) : popped'[n][i] = popped[n][i]
        /\ popped'[n][Len(popped[n]) + 1] = e
    BY <1>0, <2>1, <2>3 DEF TypeOK
  <2>6. \A m \in Node : \A i \in 1..Len(popped'[m]) :
          \/ i \in 1..Len(popped[m]) /\ popped'[m][i] = popped[m][i]
          \/ m = n /\ i = Len(popped[n]) + 1 /\ popped'[m][i] = e
    <3>1. Len(popped[n]) \in Nat
      BY <1>0 DEF TypeOK
    <3>2. \A i \in 1..Len(popped'[n]) :
            \/ i \in 1..Len(popped[n]) /\ popped'[n][i] = popped[n][i]
            \/ i = Len(popped[n]) + 1 /\ popped'[n][i] = e
      BY <2>5, <3>1
    <3>3. QED
      BY <2>2, <3>2
  <2>7. \A m \in Node : \A i \in 1..Len(popped[m]) : popped[m][i] # e
    BY <1>p, <2>1
  <2>8. LocksHold'
    BY <1>0, <2>1, <2>2, <2>3 DEF LocksHold
  <2>9. OnePlace'
    BY <1>0, <1>p, <2>1, <2>3, <2>4, <2>6 DEF OnePlace, TypeOK
  <2>10. HandledOnce'
    <3> SUFFICES ASSUME NEW m \in Node, NEW i \in 1..Len(popped'[m])
                 PROVE  /\ popped'[m][i] \notin events_queue' \cup handled' \cup lost'
                        /\ \A k \in Node : \A j \in 1..Len(popped'[k]) :
                             popped'[k][j] = popped'[m][i] => k = m /\ i = j
      BY DEF HandledOnce
    <3>1. popped'[m][i] \notin events_queue' \cup handled' \cup lost'
      BY <1>0, <1>p, <2>1, <2>3, <2>4, <2>6 DEF OnePlace
    <3>2. ASSUME NEW k \in Node, NEW j \in 1..Len(popped'[k]), popped'[k][j] = popped'[m][i]
          PROVE  k = m /\ i = j
      <4>1. CASE popped'[m][i] = e
        BY <2>6, <2>7, <3>2, <4>1
      <4>2. CASE popped'[m][i] # e
        BY <1>u, <2>6, <3>2, <4>2
      <4>3. QED
        BY <4>1, <4>2
    <3>3. QED
      BY <3>1, <3>2
  <2>11. QED
    BY <2>8, <2>9, <2>10
<1>4. ASSUME NEW n \in Node, Handle(n) PROVE (LocksHold /\ OnePlace /\ HandledOnce)'
  <2>1. \A m \in Node : m # n => popped'[m] = popped[m]
    BY <1>0, <1>4 DEF Handle, TypeOK
  <2>2. popped[n] # <<>> /\ popped'[n] = Tail(popped[n]) /\ handled' = handled \cup {popped[n][1]}
    BY <1>0, <1>4 DEF Handle, TypeOK
  <2>3. UNCHANGED <<events_queue, inserted, locked, lost>>
    BY <1>0, <1>4 DEF Handle, TypeOK
  <2>4. /\ 1 \in 1..Len(popped[n])
        /\ \A i \in 1..Len(popped'[n]) : i + 1 \in 1..Len(popped[n]) /\ popped'[n][i] = popped[n][i + 1]
    BY <1>0, <2>2 DEF TypeOK
  <2>5. \A m \in Node : \A i \in 1..Len(popped'[m]) :
          \E j \in 1..Len(popped[m]) : /\ popped'[m][i] = popped[m][j]
                                       /\ IF m = n THEN j = i + 1 ELSE j = i
    BY <2>1, <2>4
  <2>6. LocksHold'
    BY <1>0, <2>3 DEF LocksHold
  <2>7. OnePlace'
    BY <1>0, <1>p, <2>2, <2>3, <2>4, <2>5 DEF OnePlace
  <2>8. HandledOnce'
    <3> SUFFICES ASSUME NEW m \in Node, NEW i \in 1..Len(popped'[m])
                 PROVE  /\ popped'[m][i] \notin events_queue' \cup handled' \cup lost'
                        /\ \A k \in Node : \A j \in 1..Len(popped'[k]) :
                             popped'[k][j] = popped'[m][i] => k = m /\ i = j
      BY DEF HandledOnce
    <3>1. PICK p \in 1..Len(popped[m]) : /\ popped'[m][i] = popped[m][p]
                                         /\ IF m = n THEN p = i + 1 ELSE p = i
      BY <2>5
    <3>2. popped[m][p] # popped[n][1]
      <4>1. m = n => p # 1
        BY <3>1
      <4>2. QED
        BY <1>u, <2>4, <4>1
    <3>3. popped'[m][i] \notin events_queue' \cup handled' \cup lost'
      BY <1>p, <2>2, <2>3, <3>1, <3>2
    <3>4. ASSUME NEW k \in Node, NEW j \in 1..Len(popped'[k]), popped'[k][j] = popped'[m][i]
          PROVE  k = m /\ i = j
      <4>1. PICK q \in 1..Len(popped[k]) : /\ popped'[k][j] = popped[k][q]
                                           /\ IF k = n THEN q = j + 1 ELSE q = j
        BY <2>5
      <4>2. popped[k][q] = popped[m][p]
        BY <3>1, <3>4, <4>1
      <4>3. k = m /\ q = p
        BY <1>u, <4>2, Zenon
      <4>4. QED
        BY <3>1, <4>1, <4>3
    <3>5. QED
      BY <3>3, <3>4
  <2>9. QED
    BY <2>6, <2>7, <2>8
<1>5. ASSUME NEW n \in Node, Tick(n) \/ BecomesBroadcaster(n) \/ Starts(n)
      PROVE  (LocksHold /\ OnePlace /\ HandledOnce)'
  <2>1. UNCHANGED <<events_queue, inserted, locked, popped, handled, lost>>
    BY <1>5 DEF Tick, BecomesBroadcaster, Starts, ConnectToDB, HandleDatabaseMessages
  <2>2. QED
    BY <1>0, <2>1 DEF LocksHold, OnePlace, HandledOnce
<1>6. ASSUME NEW n \in Node, Crash(n) PROVE (LocksHold /\ OnePlace /\ HandledOnce)'
  <2>1. \A m \in Node : m # n => popped'[m] = popped[m] /\ locked'[m] = locked[m]
    BY <1>0, <1>6 DEF Crash, TypeOK
  <2>2. popped'[n] = <<>> /\ locked'[n] = None
    BY <1>0, <1>6 DEF Crash, TypeOK
  <2>3. /\ lost' = lost \cup {popped[n][i] : i \in 1..Len(popped[n])}
        /\ UNCHANGED <<events_queue, inserted, handled>>
    BY <1>0, <1>6 DEF Crash, ToSet, TypeOK
  <2>4. \A m \in Node : \A i \in 1..Len(popped'[m]) :
          m # n /\ i \in 1..Len(popped[m]) /\ popped'[m][i] = popped[m][i]
    BY <2>1, <2>2
  <2>5. LocksHold'
    BY <1>0, <2>1, <2>2, <2>3 DEF LocksHold
  <2>6. OnePlace'
    BY <1>0, <1>p, <2>3, <2>4 DEF OnePlace
  <2>7. HandledOnce'
    BY <1>p, <1>u, <2>3, <2>4 DEF HandledOnce
  <2>8. QED
    BY <2>5, <2>6, <2>7
<1>7. CASE UNCHANGED vars
  BY <1>0, <1>7 DEF vars, LocksHold, OnePlace, HandledOnce
<1>8. QED
  BY <1>1, <1>2, <1>3, <1>4, <1>5, <1>6, <1>7 DEF Next, Pops

\* No event is worked on by two nodes, or after it was handled.
THEOREM EventHandledOnce == Spec => []HandledOnce
<1>1. SafetyInvariant => HandledOnce
  BY DEF SafetyInvariant
<1>2. QED
  BY SafetyInit, SafetyStep, <1>1, PTL DEF Spec

----------------------------------------------------------------------------
(* Counting rows and locks *)

\* The table and the locks are finite.
LEMMA Finite ==
  ASSUME TypeOK
  PROVE  /\ IsFiniteSet(events_queue) /\ Cardinality(events_queue) \in Nat
         /\ IsFiniteSet(Lockers) /\ Cardinality(Lockers) \in Nat
<1>1. events_queue \in SUBSET Event /\ Lockers \in SUBSET Node
  BY DEF TypeOK, Lockers
<1>2. IsFiniteSet(events_queue) /\ IsFiniteSet(Lockers)
  BY <1>1, FS_Subset, FiniteAssumption
<1>3. QED
  BY <1>2, FS_CardinalityType

\* Rows that are all locked are not more than the queries that lock.
LEMMA LockedAtMost ==
  ASSUME TypeOK, LocksHold, events_queue \subseteq LockedRows
  PROVE  Cardinality(events_queue) <= Cardinality(Lockers)
<1> DEFINE f == [n \in Lockers |-> locked[n]]
<1>1. f \in Surjection(Lockers, events_queue)
  <2>1. f \in [Lockers -> events_queue]
    BY DEF LocksHold, Lockers
  <2>2. \A e \in events_queue : \E n \in Lockers : f[n] = e
    BY DEF LockedRows, Lockers
  <2>3. QED
    BY <2>1, <2>2 DEF Surjection
<1>2. QED
  BY <1>1, Finite, FS_Surjection

\* A step keeps the balance of notifications and rows.
LEMMA BehindStep == SafetyInvariant /\ NotBehind /\ [Next]_vars => NotBehind'
<1> SUFFICES ASSUME SafetyInvariant, NotBehind, [Next]_vars,
                    NEW m \in Node, Listens(m)'
             PROVE  Cardinality(events_queue') <= notifications'[m] + Cardinality(Lockers') + behind'[m]
  BY DEF NotBehind
<1>0. TypeOK /\ TypeOK' /\ LocksHold
  BY TypeStep DEF SafetyInvariant
<1> DEFINE rows == Cardinality(events_queue)
           locks == Cardinality(Lockers)
<1>t. /\ IsFiniteSet(events_queue) /\ rows \in Nat /\ IsFiniteSet(Lockers) /\ locks \in Nat
      /\ notifications[m] \in Nat /\ behind[m] \in Nat
  BY <1>0, Finite DEF TypeOK
<1>b. Listens(m) => rows <= notifications[m] + locks + behind[m]
  BY DEF NotBehind
<1>1. ASSUME NEW e \in Event, Trigger(e)
      PROVE  Cardinality(events_queue') <= notifications'[m] + Cardinality(Lockers') + behind'[m]
  <2>1. Listens(m) /\ notifications'[m] = notifications[m] + 1 /\ behind'[m] = behind[m] /\ Lockers' = Lockers
    BY <1>0, <1>1 DEF Trigger, Listens, Lockers, TypeOK
  <2>2. Cardinality(events_queue \cup {e}) = IF e \in events_queue THEN rows ELSE rows + 1
    BY <1>t, FS_AddElement
  <2>3. events_queue' = events_queue \cup {e}
    BY <1>1 DEF Trigger
  <2>4. Cardinality(events_queue') = IF e \in events_queue THEN rows ELSE rows + 1
    BY <2>2, <2>3
  <2>5. QED
    BY <1>t, <1>b, <2>1, <2>4
<1>2. ASSUME NEW n \in Node, LockEvent(n)
      PROVE  Cardinality(events_queue') <= notifications'[m] + Cardinality(Lockers') + behind'[m]
  <2>1. Listens(m) /\ events_queue' = events_queue /\ behind'[m] = behind[m]
    BY <1>2 DEF LockEvent, Listens, table
  <2>2. notifications'[m] = (IF m = n THEN notifications[m] - 1 ELSE notifications[m]) /\ n \notin Lockers
    BY <1>0, <1>2 DEF LockEvent, TypeOK, Lockers
  <2>3. CASE \E e \in events_queue \ LockedRows : locked' = [locked EXCEPT ![n] = e]
    <3>1. Lockers' = Lockers \cup {n}
      <4>1. PICK e \in events_queue : locked' = [locked EXCEPT ![n] = e]
        BY <2>3
      <4>2. e # None
        BY <1>0, <4>1, EventAssumption DEF TypeOK
      <4>3. \A k \in Node : locked'[k] = IF k = n THEN e ELSE locked[k]
        BY <1>0, <4>1 DEF TypeOK
      <4>4. QED
        BY <4>2, <4>3 DEF Lockers
    <3>2. Cardinality(Lockers') = locks + 1
      BY <1>t, <2>2, <3>1, FS_AddElement
    <3>3. QED
      BY <1>t, <1>b, <2>1, <2>2, <3>2
  <2>4. CASE events_queue \subseteq LockedRows /\ UNCHANGED locked
    <3>1. rows <= locks /\ Lockers' = Lockers
      BY <1>0, <2>4, LockedAtMost DEF Lockers
    <3>2. notifications'[m] \in Nat
      BY <1>0 DEF TypeOK
    <3>3. QED
      BY <1>t, <2>1, <3>1, <3>2
  <2>5. QED
    BY <1>2, <2>3, <2>4 DEF LockEvent
<1>3. ASSUME NEW n \in Node, CommitPop(n)
      PROVE  Cardinality(events_queue') <= notifications'[m] + Cardinality(Lockers') + behind'[m]
  <2>1. Listens(m) /\ notifications' = notifications /\ behind' = behind
    BY <1>3 DEF CommitPop, Listens
  <2>2. locked[n] \in events_queue /\ events_queue' = events_queue \ {locked[n]}
    BY <1>0, <1>3 DEF CommitPop, LocksHold
  <2>3. n \in Lockers /\ Lockers' = Lockers \ {n}
    BY <1>0, <1>3 DEF CommitPop, Lockers, TypeOK
  <2>4. Cardinality(events_queue') = rows - 1 /\ Cardinality(Lockers') = locks - 1
    BY <1>t, <2>2, <2>3, FS_RemoveElement
  <2>5. QED
    BY <1>t, <1>b, <2>1, <2>4
<1>4. ASSUME NEW n \in Node, Handle(n) \/ Tick(n) \/ BecomesBroadcaster(n) \/ ConnectToDB(n)
      PROVE  Cardinality(events_queue') <= notifications'[m] + Cardinality(Lockers') + behind'[m]
  <2>1. UNCHANGED <<events_queue, notifications, locked, behind>>
    BY <1>4 DEF Handle, Tick, BecomesBroadcaster, ConnectToDB, table, pops
  <2>2. Listens(m)
    BY <1>0, <1>4 DEF Handle, Tick, BecomesBroadcaster, ConnectToDB, Listens, TypeOK
  <2>3. Lockers' = Lockers
    BY <2>1 DEF Lockers
  <2>4. QED
    BY <1>b, <2>1, <2>2, <2>3
<1>5. ASSUME NEW n \in Node, HandleDatabaseMessages(n)
      PROVE  Cardinality(events_queue') <= notifications'[m] + Cardinality(Lockers') + behind'[m]
  <2>1. UNCHANGED <<events_queue, notifications>> /\ Lockers' = Lockers
    BY <1>5 DEF HandleDatabaseMessages, table, pops, Lockers
  <2>2. behind'[m] = (IF m = n THEN rows ELSE behind[m]) /\ (m # n => Listens(m))
    BY <1>0, <1>5 DEF HandleDatabaseMessages, Listens, TypeOK
  <2>3. QED
    BY <1>t, <1>b, <2>1, <2>2
<1>6. ASSUME NEW n \in Node, Crash(n)
      PROVE  Cardinality(events_queue') <= notifications'[m] + Cardinality(Lockers') + behind'[m]
  <2>1. m # n /\ Listens(m) /\ notifications'[m] = notifications[m]
    BY <1>0, <1>6 DEF Crash, Listens, TypeOK
  <2>2. events_queue' = events_queue /\ Lockers' = Lockers \ {n}
    BY <1>0, <1>6 DEF Crash, Lockers, TypeOK, table
  <2>3. behind'[m] = IF n \in Lockers THEN behind[m] + 1 ELSE behind[m]
    BY <1>6, <2>1 DEF Crash, Lockers
  <2>4. Cardinality(Lockers') = IF n \in Lockers THEN locks - 1 ELSE locks
    BY <1>t, <2>2, FS_RemoveElement
  <2>5. QED
    BY <1>t, <1>b, <2>1, <2>2, <2>3, <2>4
<1>7. CASE UNCHANGED vars
  <2>1. UNCHANGED <<events_queue, notifications, behind>> /\ Lockers' = Lockers /\ Listens(m)
    BY <1>7 DEF vars, table, pops, Lockers, Listens
  <2>2. QED
    BY <1>b, <2>1
<1>8. QED
  BY <1>1, <1>2, <1>3, <1>4, <1>5, <1>6, <1>7 DEF Next, Pops, Starts

\* Notifications, queries under way and what a node is behind cover the rows
\* of the table, in every state.
THEOREM NeverBehind == Spec => []NotBehind
<1>1. Init => NotBehind
  BY DEF Init, NotBehind, Listens
<1>2. QED
  BY SafetyInit, SafetyStep, BehindStep, <1>1, PTL DEF Spec
=============================================================================
