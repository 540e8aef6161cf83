------------------------ MODULE MissionQueue_proofs ------------------------
(***************************************************************************)
(* What MissionQueue keeps, for every set of missions and agents and every *)
(* number of computations.  No agent is at work for two missions           *)
(*   - whenever no mission comes back after its end (ReservationSafe),     *)
(*   - for queues of one mission beside any number of direct ones, with    *)
(*     the cancels that nothing overwrites (ShortQueueExclusive),          *)
(*   - for queues of every length that are not canceled                    *)
(*     (UndisturbedExclusive); these also implement the sequence their     *)
(*     users see (ImplementsSequence): one mission after the other         *)
(*     (MissionsOneAtATime).                                               *)
(*                                                                         *)
(* The proofs go in layers: what each action changes, in one lemma per     *)
(* action; what follows for the reservation of agents; that each mission   *)
(* is prepared once and ended once; and that one thing at a time goes on   *)
(* with the queue.                                                         *)
(***************************************************************************)
EXTENDS MissionQueue, TLAPS

----------------------------------------------------------------------------
(* Vocabulary *)

Kind == {"insertion"} \cup HandledMission
QueueKind == {"run", "cancel"}

\* A status with a name of its own here: the arithmetic prover reads no string
\* with a blank.
Preparing == "preparing resources"

\* Computation h goes on with task t.
Moves(h, t) == handler'[h] = t /\ \A g \in Handler \ {h} : handler'[g] = handler[g]

\* The event l of mission w is taken, and its status s is written and
\* reported if it is new; "-" stands for none.
Changes(w, l, s) ==
  /\ \A v \in Wp : mission'[v] = IF v = w /\ s # "-" THEN s ELSE mission[v]
  /\ \A k \in Kind, v \in Wp :
       events_queue'[MissionEvent(k, v)] =
         events_queue[MissionEvent(k, v)] - (IF k = l /\ v = w THEN 1 ELSE 0)
           + (IF k = s /\ v = w /\ s # mission[w] THEN 1 ELSE 0)
  /\ \A k \in QueueKind : events_queue'[QueueEvent(k)] = events_queue[QueueEvent(k)]

\* The event l of the queue is taken, and its status s is reported.
QueueChanges(l, s) ==
  /\ UNCHANGED mission
  /\ \A k \in Kind, v \in Wp : events_queue'[MissionEvent(k, v)] = events_queue[MissionEvent(k, v)]
  /\ \A k \in QueueKind :
       events_queue'[QueueEvent(k)] =
         events_queue[QueueEvent(k)] - (IF k = l THEN 1 ELSE 0) + (IF k = s THEN 1 ELSE 0)

\* What is left of an event when some were taken and some are reported.
Left(e, taken) == IF e \in taken THEN events_queue[e] - 1 ELSE events_queue[e]

TaskPlaced(t) ==
  /\ t.pc \in PreparePc \cup EndPc => t.wp \in Wp
  /\ t.pc \in {"setRunning", "startNext", "selectNext"} => t.wp \in Range(Queue)
  /\ t.todo \subseteq Range(Queue)
  /\ t.pc = "endMission" => t.val \in EndStatus

\* Computations about a mission name one; those of a queue have its missions.
Placed ==
  /\ \A h \in Handler : TaskPlaced(handler[h])
  /\ \A w \in Wp : events_queue[MissionEvent("insertion", w)] > 0 => w \in Direct

Typed == TypeOK /\ Placed

\* Which events there are, and when two are the same.
LEMMA EventFacts ==
  /\ \A k \in {"insertion"} \cup HandledMission, w \in Wp : MissionEvent(k, w) \in Event
  /\ \A k \in {"run", "cancel"} : QueueEvent(k) \in Event
  /\ \A k, l, v, w : MissionEvent(k, w) = MissionEvent(l, v) => k = l /\ w = v
  /\ \A k, l, w : w \in Wp => MissionEvent(k, w) # QueueEvent(l)
  /\ \A k, l : QueueEvent(k) = QueueEvent(l) => k = l
<1>1. \A k \in {"insertion"} \cup HandledMission, w \in Wp : MissionEvent(k, w) \in Event
  BY DEF Event, MissionEvent
<1>2. \A k \in {"run", "cancel"} : QueueEvent(k) \in Event
  BY DEF Event, QueueEvent
<1>3. \A k, l, v, w : MissionEvent(k, w) = MissionEvent(l, v) => k = l /\ w = v
  BY DEF MissionEvent
<1>4. \A k, l, w : w \in Wp => MissionEvent(k, w) # QueueEvent(l)
  <2>1. \A k, l, w : MissionEvent(k, w) = QueueEvent(l) => w = NoWp
    BY DEF MissionEvent, QueueEvent
  <2> QED BY <2>1, QueueAssumption
<1>5. \A k, l : QueueEvent(k) = QueueEvent(l) => k = l
  BY DEF QueueEvent
<1> QED
  BY <1>1, <1>2, <1>3, <1>4, <1>5

\* Taking and leaving events counts them.
LEMMA EventsCounted ==
  ASSUME TypeOK, NEW taken, NEW left, \A e \in taken : e \in Event /\ events_queue[e] > 0,
         TakeAndLeave(taken, left)
  PROVE  /\ events_queue' \in [Event -> Nat]
         /\ \A e \in Event : events_queue'[e] = Left(e, taken) + (IF e \in left THEN 1 ELSE 0)
BY DEF TypeOK, TakeAndLeave, Left

\* What an UPDATE of work_processes does to the missions and the events.
LEMMA MissionWritten ==
  ASSUME TypeOK, NEW w \in Wp, NEW s \in MissionStatus, NEW taken,
         \A e \in taken : e \in Event /\ events_queue[e] > 0, SetMission(w, s, taken)
  PROVE  /\ mission' \in [Wp -> MissionStatus] /\ events_queue' \in [Event -> Nat]
         /\ mission'[w] = s /\ \A v \in Wp \ {w} : mission'[v] = mission[v]
         /\ \A e \in Event : events_queue'[e] = Left(e, taken)
              + (IF s # mission[w] /\ e = MissionEvent(s, w) THEN 1 ELSE 0)
<1>1. mission' = [mission EXCEPT ![w] = s]
  BY DEF SetMission
<1>2. TakeAndLeave(taken, IF s = mission[w] THEN {} ELSE {MissionEvent(s, w)})
  BY DEF SetMission
<1> DEFINE left == IF s = mission[w] THEN {} ELSE {MissionEvent(s, w)}
<1>3. \A e : e \in left <=> s # mission[w] /\ e = MissionEvent(s, w)
  OBVIOUS
<1>4. /\ events_queue' \in [Event -> Nat]
      /\ \A e \in Event : events_queue'[e] = Left(e, taken) + (IF e \in left THEN 1 ELSE 0)
  BY <1>2, EventsCounted
<1> HIDE DEF left
<1>5. QED
  BY <1>1, <1>3, <1>4 DEF TypeOK

\* A computation goes on with a task that is placed: all are.
LEMMA TaskTaken ==
  ASSUME Typed, NEW h \in Handler, NEW t \in Task, TaskPlaced(t), Becomes(h, t)
  PROVE  /\ handler' \in [Handler -> Task] /\ \A g \in Handler : TaskPlaced(handler'[g])
         /\ handler'[h] = t /\ \A g \in Handler \ {h} : handler'[g] = handler[g]
BY DEF Typed, TypeOK, Placed, Becomes

----------------------------------------------------------------------------
(* Types *)

\* Tasks the actions build.
LEMMA TaskBuilt ==
  ASSUME NEW pc \in {"idle"} \cup QueuePc \cup PreparePc \cup EndPc, NEW w \in Wp \cup {NoWp},
         NEW val \in {"-", "ready", "waiting"} \cup EndStatus \cup MissionStatus
  PROVE  /\ At(pc, w, val) \in Task
         /\ At(pc, w, val).pc = pc /\ At(pc, w, val).wp = w /\ At(pc, w, val).val = val
         /\ At(pc, w, val).todo = {}
BY DEF At, Task

\* The task of a computation that is not in flight.
LEMMA IdleTask == Idle \in Task /\ TaskPlaced(Idle) /\ Idle.pc = "idle" /\ Idle.todo = {} /\ Idle.wp = NoWp
<1>1. NoWp \notin Wp
  BY QueueAssumption
<1> QED
  BY TaskBuilt DEF Idle, TaskPlaced, PreparePc, EndPc, At

\* The missions of the queue and their places.
LEMMA QueueFacts ==
  /\ DOMAIN Queue = 1..Len(Queue) /\ Len(Queue) \in Nat
  /\ \A i \in DOMAIN Queue : Queue[i] \in Range(Queue)
  /\ Range(Queue) \subseteq Wp /\ Direct \subseteq Wp /\ NoWp \notin Wp
  /\ \A i, j \in DOMAIN Queue : Queue[i] = Queue[j] => i = j
<1>1. Queue \in Seq(Range(Queue)) /\ IsInjective(Queue) /\ NoWp \notin Wp
  BY QueueAssumption
<1>2. \A i \in DOMAIN Queue : Queue[i] \in Range(Queue)
  BY DEF Range
<1> QED
  BY <1>1, <1>2 DEF IsInjective, Wp

\* The types hold again if those of what has changed do.
LEMMA TypedAgain ==
  ASSUME Typed,
         mission' \in [Wp -> MissionStatus],
         queue' \in {"none", "run", "running", "stopped", "cancel"},
         events_queue' \in [Event -> Nat],
         \A w \in Wp : events_queue'[MissionEvent("insertion", w)] > 0
                         => events_queue[MissionEvent("insertion", w)] > 0,
         handler' \in [Handler -> Task], \A g \in Handler : TaskPlaced(handler'[g]),
         agent' \in [Agent -> Wp \cup {NoWp}],
         inbox' \in [Agent -> Seq([type: {"reserve", "release"}, wp: Wp])],
         planned' \subseteq Wp, runs' \subseteq 0..Len(Queue)
  PROVE  Typed'
BY DEF Typed, TypeOK, Placed

\* A computation takes an event, or none, and goes on with a task.
LEMMA TakesAndGoesOn ==
  ASSUME Typed, NEW h \in Handler, NEW t \in Task, TaskPlaced(t), Becomes(h, t),
         NEW taken, NEW left, \A e \in taken : e \in Event /\ events_queue[e] > 0,
         \A w \in Wp : MissionEvent("insertion", w) \notin left,
         TakeAndLeave(taken, left),
         UNCHANGED <<mission, queue, agents, planned, runs>>
  PROVE  Typed'
<1>1. /\ events_queue' \in [Event -> Nat]
      /\ \A e \in Event : events_queue'[e] = Left(e, taken) + (IF e \in left THEN 1 ELSE 0)
  BY EventsCounted DEF Typed
<1>2. \A w \in Wp : events_queue'[MissionEvent("insertion", w)] > 0
                         => events_queue[MissionEvent("insertion", w)] > 0
  <2> SUFFICES ASSUME NEW w \in Wp PROVE events_queue'[MissionEvent("insertion", w)] <= events_queue[MissionEvent("insertion", w)]
    BY <1>1, EventFacts DEF Typed, TypeOK
  <2> DEFINE e == MissionEvent("insertion", w)
  <2>1. e \in Event /\ e \notin left
    BY EventFacts
  <2> HIDE DEF e
  <2>2. events_queue[e] \in Nat
    BY <2>1 DEF Typed, TypeOK
  <2>3. events_queue'[e] <= events_queue[e]
    BY <1>1, <2>1, <2>2 DEF Left
  <2> QED
    BY <2>3 DEF e
<1>3. handler' \in [Handler -> Task] /\ \A g \in Handler : TaskPlaced(handler'[g])
  BY TaskTaken
<1> QED
  BY <1>1, <1>2, <1>3, TypedAgain DEF Typed, TypeOK, agents

\* A mission is written, and a computation goes on with a task.
LEMMA WritesAndGoesOn ==
  ASSUME Typed, NEW w \in Wp, NEW s \in MissionStatus, NEW taken,
         \A e \in taken : e \in Event /\ events_queue[e] > 0,
         SetMission(w, s, taken),
         handler' \in [Handler -> Task], \A g \in Handler : TaskPlaced(handler'[g]),
         UNCHANGED <<queue, agents, planned, runs>>
  PROVE  Typed'
<1>1. /\ mission' \in [Wp -> MissionStatus] /\ events_queue' \in [Event -> Nat]
      /\ \A e \in Event : events_queue'[e] = Left(e, taken)
              + (IF s # mission[w] /\ e = MissionEvent(s, w) THEN 1 ELSE 0)
  BY MissionWritten DEF Typed
<1>2. \A v \in Wp : events_queue'[MissionEvent("insertion", v)] > 0
                         => events_queue[MissionEvent("insertion", v)] > 0
  <2> SUFFICES ASSUME NEW v \in Wp
               PROVE events_queue'[MissionEvent("insertion", v)] <= events_queue[MissionEvent("insertion", v)]
    BY <1>1, EventFacts DEF Typed, TypeOK
  <2> DEFINE e == MissionEvent("insertion", v)
  <2>1. s # "insertion"
    BY DEF MissionStatus
  <2>2. e \in Event /\ e # MissionEvent(s, w)
    BY <2>1, EventFacts
  <2> HIDE DEF e
  <2>3. events_queue[e] \in Nat
    BY <2>2 DEF Typed, TypeOK
  <2>4. events_queue'[e] <= events_queue[e]
    BY <1>1, <2>2, <2>3 DEF Left
  <2> QED
    BY <2>4 DEF e
<1> QED
  BY <1>1, <1>2, TypedAgain DEF Typed, TypeOK, agents

\* A computation goes on with a task, and nothing else changes but the
\* agents' messages and the plans.
LEMMA GoesOn ==
  ASSUME Typed, NEW h \in Handler, NEW t \in Task, TaskPlaced(t), Becomes(h, t),
         inbox' \in [Agent -> Seq([type: {"reserve", "release"}, wp: Wp])], planned' \subseteq Wp,
         UNCHANGED <<mission, queue, events_queue, agent, runs>>
  PROVE  Typed'
<1>1. handler' \in [Handler -> Task] /\ \A g \in Handler : TaskPlaced(handler'[g])
  BY TaskTaken
<1> QED
  BY <1>1, TypedAgain DEF Typed, TypeOK

\* Messages to the agents keep their type.
LEMMA MessagesSent ==
  ASSUME Typed, NEW S \in SUBSET Agent, NEW type \in {"reserve", "release"}, NEW w \in Wp, SendTo(S, type, w)
  PROVE  inbox' \in [Agent -> Seq([type: {"reserve", "release"}, wp: Wp])]
<1> DEFINE M == [type: {"reserve", "release"}, wp: Wp]
<1>1. [type |-> type, wp |-> w] \in M
  OBVIOUS
<1>2. inbox \in [Agent -> Seq(M)]
  BY DEF Typed, TypeOK
<1> HIDE DEF M
<1>3. \A a \in Agent : Append(inbox[a], [type |-> type, wp |-> w]) \in Seq(M)
  BY <1>1, <1>2
<1>4. inbox' \in [Agent -> Seq(M)]
  BY <1>2, <1>3 DEF SendTo
<1> QED
  BY <1>4 DEF M

\* The kinds of events and the statuses that are none.
LEMMA KindFacts ==
  /\ "-" \notin Kind /\ "-" \notin MissionStatus /\ "insertion" \notin MissionStatus
  /\ \A k \in Kind, w \in Wp : MissionEvent(k, w) \in Event
  /\ \A k \in QueueKind : QueueEvent(k) \in Event
BY EventFacts DEF Kind, QueueKind, MissionStatus, HandledMission

\* A statement that takes the event l of a mission.
LEMMA TakingChanges ==
  ASSUME Typed, NEW w \in Wp, NEW l \in Kind, events_queue[MissionEvent(l, w)] > 0,
         TakeAndLeave({MissionEvent(l, w)}, {}), UNCHANGED mission
  PROVE  Changes(w, l, "-") /\ events_queue' \in [Event -> Nat]
<1>1. /\ events_queue' \in [Event -> Nat]
      /\ \A e \in Event : events_queue'[e] = Left(e, {MissionEvent(l, w)}) + (IF e \in {} THEN 1 ELSE 0)
  BY EventsCounted, KindFacts DEF Typed
<1>2. \A e \in Event : events_queue'[e] = IF e = MissionEvent(l, w) THEN events_queue[e] - 1 ELSE events_queue[e]
  BY <1>1 DEF Left, Typed, TypeOK
<1>3. ASSUME NEW k \in Kind, NEW v \in Wp
      PROVE  events_queue'[MissionEvent(k, v)] =
               events_queue[MissionEvent(k, v)] - (IF k = l /\ v = w THEN 1 ELSE 0)
                 + (IF k = "-" /\ v = w /\ "-" # mission[w] THEN 1 ELSE 0)
  <2>1. MissionEvent(k, v) \in Event /\ events_queue[MissionEvent(k, v)] \in Nat /\ k # "-"
    BY KindFacts DEF Typed, TypeOK
  <2>2. MissionEvent(k, v) = MissionEvent(l, w) <=> k = l /\ v = w
    BY EventFacts
  <2> QED
    BY <1>2, <2>1, <2>2
<1>4. \A k \in QueueKind : events_queue'[QueueEvent(k)] = events_queue[QueueEvent(k)]
  BY <1>2, KindFacts, EventFacts
<1> QED
  BY <1>1, <1>3, <1>4 DEF Changes, Typed, TypeOK

\* A statement that writes the status s, with or without taking an event.
LEMMA WritingChanges ==
  ASSUME Typed, NEW w \in Wp, NEW s \in MissionStatus, NEW l \in Kind \cup {"-"}, NEW taken,
         taken = IF l = "-" THEN {} ELSE {MissionEvent(l, w)},
         l # "-" => events_queue[MissionEvent(l, w)] > 0, SetMission(w, s, taken)
  PROVE  /\ Changes(w, l, s) /\ events_queue' \in [Event -> Nat]
         /\ mission' \in [Wp -> MissionStatus]
<1>0. \A e \in taken : e \in Event /\ events_queue[e] > 0
  BY KindFacts
<1>1. /\ mission' \in [Wp -> MissionStatus] /\ events_queue' \in [Event -> Nat]
      /\ mission'[w] = s /\ \A v \in Wp \ {w} : mission'[v] = mission[v]
      /\ \A e \in Event : events_queue'[e] = Left(e, taken)
           + (IF s # mission[w] /\ e = MissionEvent(s, w) THEN 1 ELSE 0)
  BY <1>0, MissionWritten DEF Typed
<1>2. \A e \in Event : events_queue'[e] = (IF l # "-" /\ e = MissionEvent(l, w) THEN events_queue[e] - 1 ELSE events_queue[e])
           + (IF s # mission[w] /\ e = MissionEvent(s, w) THEN 1 ELSE 0)
  BY <1>1 DEF Left
<1>3. ASSUME NEW k \in Kind, NEW v \in Wp
      PROVE  events_queue'[MissionEvent(k, v)] =
               events_queue[MissionEvent(k, v)] - (IF k = l /\ v = w THEN 1 ELSE 0)
                 + (IF k = s /\ v = w /\ s # mission[w] THEN 1 ELSE 0)
  <2>1. MissionEvent(k, v) \in Event /\ events_queue[MissionEvent(k, v)] \in Nat /\ k # "-"
    BY KindFacts DEF Typed, TypeOK
  <2>2. (MissionEvent(k, v) = MissionEvent(l, w) <=> k = l /\ v = w)
        /\ (MissionEvent(k, v) = MissionEvent(s, w) <=> k = s /\ v = w)
    BY EventFacts
  <2> QED
    BY <1>2, <2>1, <2>2
<1>4. \A k \in QueueKind : events_queue'[QueueEvent(k)] = events_queue[QueueEvent(k)]
  <2> SUFFICES ASSUME NEW k \in QueueKind PROVE events_queue'[QueueEvent(k)] = events_queue[QueueEvent(k)]
    OBVIOUS
  <2>1. QueueEvent(k) \in Event /\ QueueEvent(k) # MissionEvent(l, w) /\ QueueEvent(k) # MissionEvent(s, w)
    BY EventFacts, KindFacts
  <2>2. events_queue[QueueEvent(k)] \in Nat
    BY <2>1 DEF Typed, TypeOK
  <2> QED
    BY <1>2, <2>1, <2>2
<1>5. \A v \in Wp : mission'[v] = IF v = w /\ s # "-" THEN s ELSE mission[v]
  BY <1>1, KindFacts
<1> QED
  BY <1>1, <1>3, <1>4, <1>5 DEF Changes

\* Nothing is written.
LEMMA NothingChanges ==
  ASSUME Typed, NEW w \in Wp, UNCHANGED <<mission, events_queue>>
  PROVE  Changes(w, "-", "-")
<1>1. \A k \in Kind, v \in Wp : events_queue[MissionEvent(k, v)] \in Nat /\ k # "-"
  BY KindFacts DEF Typed, TypeOK
<1> QED
  BY <1>1 DEF Changes

\* Where a preparation begins to wait, or does not.
LEMMA FirstWaitFacts ==
  ASSUME NEW w \in Wp
  PROVE  /\ FirstWait(w) \in Task /\ TaskPlaced(FirstWait(w))
         /\ FirstWait(w).wp = w /\ FirstWait(w).todo = {} /\ FirstWait(w).val = "-"
         /\ FirstWait(w).pc \in {"createRequests", "waitFree"}
         /\ FirstWait(w).pc = "createRequests" => w \in NoWait \/ AgentsOf[w] = {}
BY DEF FirstWait, At, Task, TaskPlaced, PreparePc, EndPc, QueuePc

\* A task built by At is placed if what it is about is right.
LEMMA AtPlaced ==
  ASSUME NEW pc \in {"idle"} \cup QueuePc \cup PreparePc \cup EndPc, NEW w \in Wp \cup {NoWp},
         NEW val \in {"-", "ready", "waiting"} \cup EndStatus \cup MissionStatus,
         pc \in PreparePc \cup EndPc => w \in Wp,
         pc \in {"setRunning", "startNext", "selectNext"} => w \in Range(Queue),
         pc = "endMission" => val \in EndStatus
  PROVE  At(pc, w, val) \in Task /\ TaskPlaced(At(pc, w, val))
BY DEF At, Task, TaskPlaced

\* Who takes the first draft mission goes on with it.
LEMMA NextTaken ==
  ASSUME NEW h \in Handler, NEW pc \in {"setRunning", "startNext"},
         NEW otherwise \in Task, TaskPlaced(otherwise), TakesNext(h, pc, otherwise)
  PROVE  \E t \in Task : /\ TaskPlaced(t) /\ Becomes(h, t)
                         /\ \/ t = otherwise /\ Listed("draft") = {}
                            \/ \E i \in DOMAIN Queue :
                                 /\ mission[Queue[i]] = "draft" /\ t = At(pc, Queue[i], "-")
                                 /\ \A j \in DOMAIN Queue : mission[Queue[j]] = "draft" => i <= j
<1>1. CASE Listed("draft") = {} /\ Becomes(h, otherwise)
  BY <1>1
<1>2. CASE \E i \in Listed("draft") : (\A j \in Listed("draft") : i <= j) /\ Becomes(h, At(pc, Queue[i], "-"))
  <2> PICK i \in Listed("draft") : (\A j \in Listed("draft") : i <= j) /\ Becomes(h, At(pc, Queue[i], "-"))
    BY <1>2
  <2>1. i \in DOMAIN Queue /\ mission[Queue[i]] = "draft" /\ Queue[i] \in Range(Queue) /\ Queue[i] \in Wp
    BY QueueFacts DEF Listed
  <2>2. \A j \in DOMAIN Queue : mission[Queue[j]] = "draft" => i <= j
    BY DEF Listed
  <2>3. At(pc, Queue[i], "-") \in Task /\ TaskPlaced(At(pc, Queue[i], "-"))
    BY <2>1, AtPlaced DEF QueuePc, PreparePc, EndPc
  <2> QED
    BY <2>1, <2>2, <2>3
<1> QED
  BY <1>1, <1>2 DEF TakesNext

----------------------------------------------------------------------------
(* What each kind of statement does *)

\* A computation goes on without a statement on missions or events.
LEMMA MovesOn ==
  ASSUME Typed, NEW h \in Handler, NEW t \in Task, TaskPlaced(t), Becomes(h, t), NEW w \in Wp,
         inbox' \in [Agent -> Seq([type: {"reserve", "release"}, wp: Wp])], planned' \subseteq Wp,
         UNCHANGED <<mission, queue, events_queue, agent, runs>>
  PROVE  Typed' /\ Moves(h, t) /\ Changes(w, "-", "-")
BY GoesOn, TaskTaken, NothingChanges DEF Moves

\* ... the same when only the computation moves.
LEMMA OnlyMoves ==
  ASSUME Typed, NEW h \in Handler, NEW t \in Task, TaskPlaced(t), Becomes(h, t), NEW w \in Wp,
         UNCHANGED <<mission, queue, events_queue, agents, planned, runs>>
  PROVE  Typed' /\ Moves(h, t) /\ Changes(w, "-", "-")
BY MovesOn DEF Typed, TypeOK, agents

\* It takes an event of a mission.
LEMMA TakingMoves ==
  ASSUME Typed, NEW h \in Handler, NEW t \in Task, TaskPlaced(t), Becomes(h, t), NEW w \in Wp,
         NEW l \in Kind, events_queue[MissionEvent(l, w)] > 0, TakeAndLeave({MissionEvent(l, w)}, {}),
         UNCHANGED <<mission, queue, agents, planned, runs>>
  PROVE  Typed' /\ Moves(h, t) /\ Changes(w, l, "-")
<1>1. Changes(w, l, "-")
  BY TakingChanges
<1>2. Moves(h, t)
  BY TaskTaken DEF Moves
<1>3. \A e \in {MissionEvent(l, w)} : e \in Event /\ events_queue[e] > 0
  BY KindFacts
<1>4. Typed'
  BY <1>3, TakesAndGoesOn
<1> QED
  BY <1>1, <1>2, <1>4

\* It writes the status of a mission, for an event or without one.
LEMMA WritingMoves ==
  ASSUME Typed, NEW h \in Handler, NEW t \in Task, TaskPlaced(t), Becomes(h, t), NEW w \in Wp,
         NEW s \in MissionStatus, NEW l \in Kind \cup {"-"}, NEW taken,
         taken = IF l = "-" THEN {} ELSE {MissionEvent(l, w)},
         l # "-" => events_queue[MissionEvent(l, w)] > 0, SetMission(w, s, taken),
         UNCHANGED <<queue, agents, planned, runs>>
  PROVE  Typed' /\ Moves(h, t) /\ Changes(w, l, s)
<1>1. Changes(w, l, s)
  BY WritingChanges
<1>2. handler' \in [Handler -> Task] /\ (\A g \in Handler : TaskPlaced(handler'[g])) /\ Moves(h, t)
  BY TaskTaken DEF Moves
<1>3. \A e \in taken : e \in Event /\ events_queue[e] > 0
  BY KindFacts
<1>4. Typed'
  BY <1>2, <1>3, WritesAndGoesOn
<1> QED
  BY <1>1, <1>2, <1>4

\* The status of a mission is written by somebody else.
LEMMA Writes ==
  ASSUME Typed, NEW w \in Wp, NEW s \in MissionStatus, SetMission(w, s, {}),
         UNCHANGED <<handler, queue, agents, planned, runs>>
  PROVE  Typed' /\ Changes(w, "-", s)
<1>1. Changes(w, "-", s)
  BY WritingChanges
<1>2. handler' \in [Handler -> Task] /\ (\A g \in Handler : TaskPlaced(handler'[g]))
  BY DEF Typed, TypeOK, Placed
<1>3. Typed'
  BY <1>2, WritesAndGoesOn
<1> QED
  BY <1>1, <1>3

\* The queue is written: run and cancel are reported to handlers.
LEMMA QueueWritten ==
  ASSUME Typed, NEW s \in {"run", "running", "stopped", "cancel"}, SetQueue(s), UNCHANGED mission
  PROVE  /\ queue' \in {"none", "run", "running", "stopped", "cancel"} /\ events_queue' \in [Event -> Nat]
         /\ QueueChanges("-", s)
<1>1. /\ events_queue' \in [Event -> Nat]
      /\ \A e \in Event : events_queue'[e] = Left(e, {}) + (IF e \in {QueueEvent(s)} THEN 1 ELSE 0)
  BY EventsCounted DEF Typed, SetQueue
<1>2. \A e \in Event : events_queue[e] \in Nat /\ events_queue'[e] = events_queue[e] + (IF e = QueueEvent(s) THEN 1 ELSE 0)
  BY <1>1 DEF Left, Typed, TypeOK
<1>3. \A k \in Kind, v \in Wp : MissionEvent(k, v) \in Event /\ MissionEvent(k, v) # QueueEvent(s)
  BY EventFacts DEF Kind
<1>4. \A k \in QueueKind : QueueEvent(k) \in Event /\ (QueueEvent(k) = QueueEvent(s) <=> k = s) /\ k # "-"
  BY EventFacts, KindFacts DEF QueueKind
<1>5. \A k \in Kind, v \in Wp : events_queue'[MissionEvent(k, v)] = events_queue[MissionEvent(k, v)]
  BY <1>2, <1>3
<1>6. \A k \in QueueKind : events_queue'[QueueEvent(k)] =
        events_queue[QueueEvent(k)] - (IF k = "-" THEN 1 ELSE 0) + (IF k = s THEN 1 ELSE 0)
  BY <1>2, <1>4
<1> QED
  BY <1>1, <1>5, <1>6 DEF SetQueue, QueueChanges

\* An event of the queue is taken.
LEMMA QueueEventTaken ==
  ASSUME Typed, NEW h \in Handler, NEW t \in Task, TaskPlaced(t), Becomes(h, t),
         NEW l \in QueueKind, events_queue[QueueEvent(l)] > 0, TakeAndLeave({QueueEvent(l)}, {}),
         UNCHANGED <<mission, queue, agents, planned, runs>>
  PROVE  Typed' /\ Moves(h, t) /\ QueueChanges(l, "-")
<1>1. /\ events_queue' \in [Event -> Nat]
      /\ \A e \in Event : events_queue'[e] = Left(e, {QueueEvent(l)}) + (IF e \in {} THEN 1 ELSE 0)
  BY EventsCounted, KindFacts DEF Typed
<1>2. \A e \in Event : events_queue[e] \in Nat
        /\ events_queue'[e] = IF e = QueueEvent(l) THEN events_queue[e] - 1 ELSE events_queue[e]
  BY <1>1 DEF Left, Typed, TypeOK
<1>3. \A k \in Kind, v \in Wp : MissionEvent(k, v) \in Event /\ MissionEvent(k, v) # QueueEvent(l)
  BY EventFacts DEF Kind
<1>4. \A k \in QueueKind : QueueEvent(k) \in Event /\ (QueueEvent(k) = QueueEvent(l) <=> k = l) /\ k # "-"
  BY EventFacts, KindFacts DEF QueueKind
<1>5. \A k \in Kind, v \in Wp : events_queue'[MissionEvent(k, v)] = events_queue[MissionEvent(k, v)]
  BY <1>2, <1>3
<1>6. Moves(h, t)
  BY TaskTaken DEF Moves
<1>7. \A e \in {QueueEvent(l)} : e \in Event /\ events_queue[e] > 0
  BY KindFacts
<1>8. Typed'
  BY <1>7, TakesAndGoesOn
<1>9. \A k \in QueueKind : events_queue'[QueueEvent(k)] =
        events_queue[QueueEvent(k)] - (IF k = l THEN 1 ELSE 0) + (IF k = "-" THEN 1 ELSE 0)
  BY <1>2, <1>4
<1> QED
  BY <1>5, <1>6, <1>8, <1>9 DEF QueueChanges

----------------------------------------------------------------------------
(* What each action does, in these words *)

\* The user starts the queue.
LEMMA UserRunsStep ==
  ASSUME Typed, UserRuns
  PROVE  /\ Typed' /\ QueueChanges("-", "run") /\ UNCHANGED <<handler, agent, inbox, planned>>
         /\ \E i \in ({0} \cup Listed("failed") \cup Listed("canceled")) \ runs :
              /\ \A j \in DOMAIN Queue : j > i => mission[Queue[j]] = "draft"
              /\ runs' = runs \cup {i}
<1> PICK i \in ({0} \cup Listed("failed") \cup Listed("canceled")) \ runs :
           /\ \A j \in DOMAIN Queue : j > i => mission[Queue[j]] = "draft"
           /\ runs' = runs \cup {i}
           /\ SetQueue("run") /\ UNCHANGED <<mission, handler, agents, planned>>
  BY DEF UserRuns
<1>1. i \in 0..Len(Queue)
  BY QueueFacts DEF Listed
<1>2. runs' \subseteq 0..Len(Queue)
  BY <1>1 DEF Typed, TypeOK
<1>3. QueueChanges("-", "run") /\ queue' \in {"none", "run", "running", "stopped", "cancel"} /\ events_queue' \in [Event -> Nat]
  BY QueueWritten
<1>4. Typed'
  BY <1>2, <1>3, KindFacts, TypedAgain DEF Typed, TypeOK, Placed, agents, QueueChanges, Kind
<1> QED
  BY <1>3, <1>4 DEF agents

\* The user cancels the queue.
LEMMA UserCancelsQueueStep ==
  ASSUME Typed, UserCancelsQueue
  PROVE  Typed' /\ CancelsQueue /\ QueueChanges("-", "cancel") /\ UNCHANGED <<handler, agent, inbox, planned, runs>>
<1>1. QueueChanges("-", "cancel") /\ queue' \in {"none", "run", "running", "stopped", "cancel"} /\ events_queue' \in [Event -> Nat]
  BY QueueWritten DEF UserCancelsQueue
<1>2. Typed'
  BY <1>1, KindFacts, TypedAgain DEF UserCancelsQueue, Typed, TypeOK, Placed, agents, QueueChanges, Kind
<1> QED
  BY <1>1, <1>2 DEF UserCancelsQueue, agents

\* The run of the queue is handled: the first draft mission, if any, is to be started.
LEMMA HandleRunStep ==
  ASSUME Typed, NEW h \in Handler, HandleRun(h)
  PROVE  /\ Typed' /\ QueueChanges("run", "-") /\ UNCHANGED <<agent, inbox, planned, runs>>
         /\ handler[h].pc = "idle" /\ events_queue[QueueEvent("run")] > 0
         /\ \/ Moves(h, Idle)
            \/ \E i \in DOMAIN Queue :
                 /\ mission[Queue[i]] = "draft" /\ Moves(h, At("setRunning", Queue[i], "-"))
                 /\ \A j \in DOMAIN Queue : mission[Queue[j]] = "draft" => i <= j
<1>1. \E t \in Task : /\ TaskPlaced(t) /\ Becomes(h, t)
                      /\ \/ t = Idle
                         \/ \E i \in DOMAIN Queue :
                              /\ mission[Queue[i]] = "draft" /\ t = At("setRunning", Queue[i], "-")
                              /\ \A j \in DOMAIN Queue : mission[Queue[j]] = "draft" => i <= j
  BY NextTaken, IdleTask DEF HandleRun
<1>2. /\ handler[h].pc = "idle" /\ events_queue[QueueEvent("run")] > 0 /\ TakeAndLeave({QueueEvent("run")}, {})
      /\ UNCHANGED <<mission, queue, agents, planned, runs>>
  BY DEF HandleRun, Starts, IsAt
<1>3. "run" \in QueueKind
  BY DEF QueueKind
<1> QED
  BY <1>1, <1>2, <1>3, QueueEventTaken DEF agents

\* The queue is set to running.
LEMMA SetRunningStep ==
  ASSUME Typed, NEW h \in Handler, SetRunning(h)
  PROVE  /\ Typed' /\ QueueChanges("-", "-") /\ UNCHANGED <<agent, inbox, planned, runs>>
         /\ handler[h].pc = "setRunning" /\ Moves(h, At("startNext", handler[h].wp, "-"))
<1>1. handler[h].pc = "setRunning" /\ handler[h].wp \in Range(Queue) /\ handler[h].wp \in Wp
  BY QueueFacts DEF SetRunning, IsAt, Typed, Placed, TaskPlaced
<1>2. At("startNext", handler[h].wp, "-") \in Task /\ TaskPlaced(At("startNext", handler[h].wp, "-"))
  BY <1>1, AtPlaced DEF QueuePc, PreparePc, EndPc
<1>3. Becomes(h, At("startNext", handler[h].wp, "-")) /\ SetQueue("running")
      /\ UNCHANGED <<mission, agents, planned, runs>>
  BY DEF SetRunning
<1>4. /\ handler' \in [Handler -> Task] /\ \A g \in Handler : TaskPlaced(handler'[g])
      /\ Moves(h, At("startNext", handler[h].wp, "-"))
  BY <1>2, <1>3, TaskTaken DEF Moves
<1>5. QueueChanges("-", "running") /\ queue' \in {"none", "run", "running", "stopped", "cancel"} /\ events_queue' \in [Event -> Nat]
  BY <1>3, QueueWritten
<1>6. Typed'
  BY <1>3, <1>4, <1>5, KindFacts, TypedAgain DEF Typed, TypeOK, agents, QueueChanges, Kind
<1>7. QueueChanges("-", "-")
  BY <1>5 DEF QueueChanges, QueueKind
<1> QED
  BY <1>1, <1>3, <1>4, <1>6, <1>7 DEF agents

\* The first mission is dispatched.
LEMMA StartNextStep ==
  ASSUME Typed, NEW h \in Handler, StartNext(h)
  PROVE  /\ Typed' /\ Changes(handler[h].wp, "-", "dispatched") /\ UNCHANGED <<queue, agent, inbox, planned, runs>>
         /\ handler[h].pc = "startNext" /\ handler[h].wp \in Range(Queue) /\ Moves(h, Idle)
<1>1. handler[h].pc = "startNext" /\ handler[h].wp \in Range(Queue) /\ handler[h].wp \in Wp
  BY QueueFacts DEF StartNext, IsAt, Typed, Placed, TaskPlaced
<1>2. "dispatched" \in MissionStatus
  BY DEF MissionStatus
<1> QED
  BY <1>1, <1>2, IdleTask, WritingMoves DEF StartNext, agents

\* The cancel of the queue is handled.
LEMMA HandleQueueCancelStep ==
  ASSUME Typed, NEW h \in Handler, HandleQueueCancel(h)
  PROVE  /\ Typed' /\ QueueChanges("cancel", "-") /\ UNCHANGED <<agent, inbox, planned, runs>>
         /\ handler[h].pc = "idle" /\ events_queue[QueueEvent("cancel")] > 0
         /\ \/ Moves(h, Idle)
            \/ \E T \in SUBSET Range(Queue) :
                 /\ Moves(h, [At("stopQueue", NoWp, "-") EXCEPT !.todo = T])
                 /\ \A w \in T : mission[w] = "executing"
<1> DEFINE T == {Queue[i] : i \in Listed("executing")}
           stop == [At("stopQueue", NoWp, "-") EXCEPT !.todo = T]
<1>1. T \subseteq Range(Queue) /\ \A w \in T : mission[w] = "executing"
  BY QueueFacts DEF Listed
<1>2. stop \in Task /\ TaskPlaced(stop)
  BY <1>1, QueueFacts DEF At, Task, TaskPlaced, QueuePc, PreparePc, EndPc
<1>3. /\ handler[h].pc = "idle" /\ events_queue[QueueEvent("cancel")] > 0 /\ TakeAndLeave({QueueEvent("cancel")}, {})
      /\ Becomes(h, Idle) \/ Becomes(h, stop)
      /\ UNCHANGED <<mission, queue, agents, planned, runs>>
  BY DEF HandleQueueCancel, Starts, IsAt
<1>4. "cancel" \in QueueKind
  BY DEF QueueKind
<1>5. CASE Becomes(h, Idle)
  BY <1>3, <1>4, <1>5, IdleTask, QueueEventTaken DEF agents
<1>6. CASE Becomes(h, stop)
  <2>1. Typed' /\ Moves(h, stop) /\ QueueChanges("cancel", "-")
    BY <1>2, <1>3, <1>4, <1>6, QueueEventTaken
  <2> QED
    BY <1>1, <1>3, <2>1 DEF agents
<1> QED
  BY <1>3, <1>5, <1>6

\* The queue is stopped.
LEMMA StopQueueStep ==
  ASSUME Typed, NEW h \in Handler, StopQueue(h)
  PROVE  /\ Typed' /\ QueueChanges("-", "-") /\ UNCHANGED <<agent, inbox, planned, runs>>
         /\ handler[h].pc = "stopQueue"
         /\ \/ Moves(h, Idle)
            \/ handler[h].todo # {} /\ Moves(h, [handler[h] EXCEPT !.pc = "cancelMissions"])
<1> DEFINE t == IF handler[h].todo = {} THEN Idle ELSE [handler[h] EXCEPT !.pc = "cancelMissions"]
<1>1. handler[h].pc = "stopQueue" /\ handler[h] \in Task /\ TaskPlaced(handler[h])
  BY DEF StopQueue, IsAt, Typed, TypeOK, Placed
<1>2. t \in Task /\ TaskPlaced(t)
  BY <1>1, IdleTask DEF Task, TaskPlaced, QueuePc, PreparePc, EndPc
<1>3. Becomes(h, t) /\ SetQueue("stopped") /\ UNCHANGED <<mission, agents, planned, runs>>
  BY DEF StopQueue
<1>t. \/ t = Idle
      \/ handler[h].todo # {} /\ t = [handler[h] EXCEPT !.pc = "cancelMissions"]
  OBVIOUS
<1> HIDE DEF t
<1>4. /\ handler' \in [Handler -> Task] /\ \A g \in Handler : TaskPlaced(handler'[g])
      /\ Moves(h, t)
  BY <1>2, <1>3, TaskTaken DEF Moves
<1>5. QueueChanges("-", "stopped") /\ queue' \in {"none", "run", "running", "stopped", "cancel"} /\ events_queue' \in [Event -> Nat]
  BY <1>3, QueueWritten
<1>6. Typed'
  BY <1>3, <1>4, <1>5, KindFacts, TypedAgain DEF Typed, TypeOK, agents, QueueChanges, Kind
<1>7. QueueChanges("-", "-")
  BY <1>5 DEF QueueChanges, QueueKind
<1> QED
  BY <1>1, <1>t, <1>3, <1>4, <1>6, <1>7 DEF agents

\* One of the missions that were executing is canceled.
LEMMA CancelMissionStep ==
  ASSUME Typed, NEW h \in Handler, NEW w \in Wp, CancelMission(h, w)
  PROVE  /\ Typed' /\ Changes(w, "-", "canceling") /\ UNCHANGED <<queue, agent, inbox, planned, runs>>
         /\ handler[h].pc = "cancelMissions" /\ w \in handler[h].todo
         /\ \/ Moves(h, Idle)
            \/ Moves(h, [handler[h] EXCEPT !.todo = handler[h].todo \ {w}])
<1> DEFINE t == IF handler[h].todo = {w} THEN Idle ELSE [handler[h] EXCEPT !.todo = @ \ {w}]
<1>1. handler[h].pc = "cancelMissions" /\ w \in handler[h].todo /\ handler[h] \in Task /\ TaskPlaced(handler[h])
  BY DEF CancelMission, IsAt, Typed, TypeOK, Placed
<1>2. t \in Task /\ TaskPlaced(t)
  BY <1>1, IdleTask DEF Task, TaskPlaced, QueuePc, PreparePc, EndPc
<1>3. Becomes(h, t) /\ SetMission(w, "canceling", {}) /\ UNCHANGED <<queue, agents, planned, runs>>
  BY DEF CancelMission
<1>t. t = Idle \/ t = [handler[h] EXCEPT !.todo = handler[h].todo \ {w}]
  OBVIOUS
<1> HIDE DEF t
<1>4. "canceling" \in MissionStatus
  BY DEF MissionStatus
<1>5. Typed' /\ Moves(h, t) /\ Changes(w, "-", "canceling")
  BY <1>2, <1>3, <1>4, WritingMoves
<1> QED
  BY <1>1, <1>t, <1>3, <1>5 DEF agents

\* Statuses and the step of the computation a handler's guard is about.
LEMMA StatusFacts ==
  /\ "dispatched" \in MissionStatus
  /\ "calculating" \in MissionStatus /\ "executing" \in MissionStatus
  /\ "canceling" \in MissionStatus /\ "canceled" \in MissionStatus
  /\ "assignment_failed" \in MissionStatus /\ "planning_failed" \in MissionStatus
  /\ "assignments_completed" \in MissionStatus /\ "succeeded" \in MissionStatus
  /\ "failed" \in MissionStatus /\ EndStatus \subseteq MissionStatus
  /\ HandledMission \subseteq Kind /\ "insertion" \in Kind
BY DEF MissionStatus, EndStatus, Kind

\* Preparing is none of the others.
LEMMA PreparingFacts ==
  /\ Preparing \in MissionStatus
  /\ Preparing \notin {"insertion", "-", "draft", "dispatched", "calculating", "executing", "canceling", "canceled",
                       "assignment_failed", "planning_failed", "failed", "assignments_completed", "succeeded"}
BY DEF Preparing, MissionStatus

\* Every preparation and every end is that of a mission.
LEMMA AboutMission ==
  ASSUME Typed, NEW h \in Handler, handler[h].pc \in PreparePc \cup EndPc
  PROVE  handler[h].wp \in Wp
BY DEF Typed, Placed, TaskPlaced

\* A direct mission that was inserted is set to preparing.
LEMMA HandleInsertionStep ==
  ASSUME Typed, NEW h \in Handler, NEW w \in Wp, HandleInsertion(h, w)
  PROVE  /\ Typed' /\ Changes(w, "insertion", Preparing) /\ UNCHANGED <<queue, agent, inbox, planned, runs>>
         /\ handler[h].pc = "idle" /\ events_queue[MissionEvent("insertion", w)] > 0 /\ w \in Direct
         /\ Moves(h, At("prepare", w, "-"))
<1>1. /\ handler[h].pc = "idle" /\ events_queue[MissionEvent("insertion", w)] > 0
      /\ SetMission(w, Preparing, {MissionEvent("insertion", w)})
      /\ Becomes(h, At("prepare", w, "-")) /\ UNCHANGED <<queue, agents, planned, runs>>
  BY DEF HandleInsertion, Starts, IsAt, MissionEvent, Preparing
<1>2. At("prepare", w, "-") \in Task /\ TaskPlaced(At("prepare", w, "-"))
  BY AtPlaced DEF PreparePc, EndPc, QueuePc
<1>3. Typed' /\ Moves(h, At("prepare", w, "-")) /\ Changes(w, "insertion", Preparing)
  BY <1>1, <1>2, KindFacts, StatusFacts, PreparingFacts, WritingMoves
<1> QED
  BY <1>1, <1>3 DEF agents, Typed, Placed

\* A mission that was dispatched is to be prepared.
LEMMA HandleDispatchedStep ==
  ASSUME Typed, NEW h \in Handler, NEW w \in Wp, HandleDispatched(h, w)
  PROVE  /\ Typed' /\ Changes(w, "dispatched", "-") /\ UNCHANGED <<queue, agent, inbox, planned, runs>>
         /\ handler[h].pc = "idle" /\ events_queue[MissionEvent("dispatched", w)] > 0
         /\ Moves(h, At("prepare", w, "-"))
<1>1. At("prepare", w, "-") \in Task /\ TaskPlaced(At("prepare", w, "-"))
  BY AtPlaced DEF PreparePc, EndPc, QueuePc
<1>2. "dispatched" \in Kind
  BY DEF Kind, HandledMission
<1> QED
  BY <1>1, <1>2, TakingMoves DEF HandleDispatched, Starts, IsAt, agents

\* A preparation begins.
LEMMA PrepareStep ==
  ASSUME Typed, NEW h \in Handler, Prepare(h)
  PROVE  /\ Typed' /\ handler[h].wp \in Wp /\ Changes(handler[h].wp, "-", "-")
         /\ UNCHANGED <<queue, agent, inbox, planned, runs>> /\ handler[h].pc = "prepare"
         /\ \/ Moves(h, At("failPreparation", handler[h].wp, "-"))
            \/ Moves(h, At("settings", handler[h].wp, "-")) /\ handler[h].wp \in WithSettings
            \/ Moves(h, FirstWait(handler[h].wp))
<1> DEFINE w == handler[h].wp
<1>1. handler[h].pc = "prepare" /\ w \in Wp
  BY AboutMission DEF Prepare, IsAt, PreparePc
<1>2. \E t \in Task : /\ TaskPlaced(t) /\ Becomes(h, t)
                      /\ \/ t = At("failPreparation", w, "-")
                         \/ t = At("settings", w, "-") /\ w \in WithSettings
                         \/ t = FirstWait(w)
  <2>1. \A pc \in {"failPreparation", "settings"} : At(pc, w, "-") \in Task /\ TaskPlaced(At(pc, w, "-"))
    BY <1>1, AtPlaced DEF PreparePc, EndPc, QueuePc
  <2> QED
    BY <1>1, <2>1, FirstWaitFacts DEF Prepare
<1>3. UNCHANGED <<mission, queue, events_queue, agents, planned, runs>>
  BY DEF Prepare
<1> QED
  BY <1>1, <1>2, <1>3, OnlyMoves DEF agents

\* The settings are written with the status.
LEMMA WriteSettingsStep ==
  ASSUME Typed, NEW h \in Handler, WriteSettings(h)
  PROVE  /\ Typed' /\ handler[h].wp \in Wp /\ Changes(handler[h].wp, "-", Preparing)
         /\ UNCHANGED <<queue, agent, inbox, planned, runs>> /\ handler[h].pc = "settings"
         /\ Moves(h, FirstWait(handler[h].wp))
<1>1. handler[h].pc = "settings" /\ handler[h].wp \in Wp
  BY AboutMission DEF WriteSettings, IsAt, PreparePc
<1> QED
  BY <1>1, FirstWaitFacts, PreparingFacts, WritingMoves DEF WriteSettings, agents, Preparing

\* Steps of a preparation that only move the computation: from, to, and why.
LEMMA PreparationGoesOn ==
  ASSUME Typed, NEW h \in Handler, handler[h].pc \in PreparePc, NEW pc \in PreparePc,
         NEW val \in {"-", "ready", "waiting"}, Becomes(h, At(pc, handler[h].wp, val)),
         UNCHANGED <<mission, queue, events_queue, agents, planned, runs>>
  PROVE  /\ Typed' /\ handler[h].wp \in Wp /\ Changes(handler[h].wp, "-", "-")
         /\ UNCHANGED <<queue, agent, inbox, planned, runs>>
         /\ Moves(h, At(pc, handler[h].wp, val))
<1>1. handler[h].wp \in Wp
  BY AboutMission
<1>2. At(pc, handler[h].wp, val) \in Task /\ TaskPlaced(At(pc, handler[h].wp, val))
  <2>1. pc \notin {"setRunning", "startNext", "selectNext", "endMission"}
    BY DEF PreparePc
  <2> QED
    BY <1>1, <2>1, AtPlaced
<1> QED
  BY <1>1, <1>2, OnlyMoves DEF agents

\* All agents are free.
LEMMA AgentsAreFreeStep ==
  ASSUME Typed, NEW h \in Handler, AgentsAreFree(h)
  PROVE  /\ Typed' /\ handler[h].wp \in Wp /\ Changes(handler[h].wp, "-", "-")
         /\ UNCHANGED <<queue, agent, inbox, planned, runs>>
         /\ handler[h].pc = "waitFree" /\ Moves(h, At("reserve", handler[h].wp, "-"))
<1>1. "reserve" \in PreparePc /\ "waitFree" \in PreparePc
  BY DEF PreparePc
<1> QED
  BY <1>1, PreparationGoesOn DEF AgentsAreFree, IsAt

\* They are asked to get ready for the mission.
LEMMA SendGetReadyStep ==
  ASSUME Typed, NEW h \in Handler, SendGetReady(h)
  PROVE  /\ Typed' /\ handler[h].wp \in Wp /\ Changes(handler[h].wp, "-", "-")
         /\ UNCHANGED <<queue, agent, planned, runs>> /\ SendTo(AgentsOf[handler[h].wp], "reserve", handler[h].wp)
         /\ handler[h].pc = "reserve" /\ Moves(h, At("waitReady", handler[h].wp, "-"))
<1>1. handler[h].pc = "reserve" /\ handler[h].wp \in Wp
  BY AboutMission DEF SendGetReady, IsAt, PreparePc
<1>2. At("waitReady", handler[h].wp, "-") \in Task /\ TaskPlaced(At("waitReady", handler[h].wp, "-"))
  BY <1>1, AtPlaced DEF PreparePc, EndPc, QueuePc
<1>3. AgentsOf[handler[h].wp] \in SUBSET Agent
  BY <1>1, QueueAssumption
<1>4. inbox' \in [Agent -> Seq([type: {"reserve", "release"}, wp: Wp])]
  BY <1>1, <1>3, MessagesSent DEF SendGetReady
<1>5. planned' \subseteq Wp
  BY DEF SendGetReady, Typed, TypeOK
<1> QED
  BY <1>1, <1>2, <1>4, <1>5, MovesOn DEF SendGetReady

\* The agents are read.
LEMMA ReadAgentsStep ==
  ASSUME Typed, NEW h \in Handler, ReadAgents(h)
  PROVE  /\ Typed' /\ handler[h].wp \in Wp /\ Changes(handler[h].wp, "-", "-")
         /\ UNCHANGED <<queue, agent, inbox, planned, runs>> /\ handler[h].pc = "waitReady"
         /\ \E val \in {"ready", "waiting"} :
              /\ Moves(h, At("decideReady", handler[h].wp, val))
              /\ val = "ready" => \A a \in AgentsOf[handler[h].wp] \cap Acknowledges : agent[a] = handler[h].wp
<1> DEFINE val == IF \A a \in AgentsOf[handler[h].wp] \cap Acknowledges : agent[a] = handler[h].wp
                    THEN "ready" ELSE "waiting"
<1>1. "decideReady" \in PreparePc /\ "waitReady" \in PreparePc
  BY DEF PreparePc
<1>2. /\ val \in {"ready", "waiting"}
      /\ val = "ready" => \A a \in AgentsOf[handler[h].wp] \cap Acknowledges : agent[a] = handler[h].wp
  OBVIOUS
<1>3. /\ handler[h].pc = "waitReady" /\ Becomes(h, At("decideReady", handler[h].wp, val))
      /\ UNCHANGED <<mission, queue, events_queue, agents, planned, runs>>
  BY DEF ReadAgents, IsAt
<1> HIDE DEF val
<1> QED
  BY <1>1, <1>2, <1>3, PreparationGoesOn

\* The mission is read, and it is decided.
LEMMA DecideReadyStep ==
  ASSUME Typed, NEW h \in Handler, DecideReady(h)
  PROVE  /\ Typed' /\ handler[h].wp \in Wp /\ Changes(handler[h].wp, "-", "-")
         /\ UNCHANGED <<queue, agent, inbox, planned, runs>> /\ handler[h].pc = "decideReady"
         /\ \/ Moves(h, At("failPreparation", handler[h].wp, "-"))
               /\ mission[handler[h].wp] \in {"canceled", "failed"}
            \/ Moves(h, At("createRequests", handler[h].wp, "-")) /\ handler[h].val = "ready"
            \/ Moves(h, At("waitReady", handler[h].wp, "-"))
<1>1. {"failPreparation", "createRequests", "waitReady", "decideReady"} \subseteq PreparePc
  BY DEF PreparePc
<1>2. \E pc \in {"failPreparation", "createRequests", "waitReady"} :
        /\ Becomes(h, At(pc, handler[h].wp, "-"))
        /\ pc = "createRequests" => handler[h].val = "ready"
        /\ pc = "failPreparation" => mission[handler[h].wp] \in {"canceled", "failed"}
  BY DEF DecideReady
<1>3. handler[h].pc = "decideReady" /\ UNCHANGED <<mission, queue, events_queue, agents, planned, runs>>
  BY DEF DecideReady, IsAt
<1> QED
  BY <1>1, <1>2, <1>3, PreparationGoesOn

\* The wait times out.
LEMMA WaitTimesOutStep ==
  ASSUME Typed, NEW h \in Handler, WaitTimesOut(h)
  PROVE  /\ Typed' /\ handler[h].wp \in Wp /\ Changes(handler[h].wp, "-", "-")
         /\ UNCHANGED <<queue, agent, inbox, planned, runs>> /\ handler[h].pc \in {"waitFree", "decideReady"}
         /\ Moves(h, At("failPreparation", handler[h].wp, "-"))
<1>1. {"failPreparation", "waitFree", "decideReady"} \subseteq PreparePc
  BY DEF PreparePc
<1> QED
  BY <1>1, PreparationGoesOn DEF WaitTimesOut

\* The preparation has failed.
LEMMA FailPreparationStep ==
  ASSUME Typed, NEW h \in Handler, FailPreparation(h)
  PROVE  /\ Typed' /\ handler[h].wp \in Wp /\ Changes(handler[h].wp, "-", "failed")
         /\ UNCHANGED <<queue, agent, inbox, planned, runs>>
         /\ handler[h].pc = "failPreparation" /\ Moves(h, Idle)
<1>1. handler[h].pc = "failPreparation" /\ handler[h].wp \in Wp
  BY AboutMission DEF FailPreparation, IsAt, PreparePc
<1> QED
  BY <1>1, IdleTask, StatusFacts, WritingMoves DEF FailPreparation, agents

\* The requests are created.
LEMMA CreateRequestsStep ==
  ASSUME Typed, NEW h \in Handler, CreateRequests(h)
  PROVE  /\ Typed' /\ handler[h].wp \in Wp /\ Changes(handler[h].wp, "-", "-")
         /\ UNCHANGED <<queue, agent, inbox, runs>> /\ handler[h].pc = "createRequests"
         /\ \/ /\ Moves(h, At("failPlanning", handler[h].wp, "-")) /\ handler[h].wp \in Unplannable
               /\ planned' = IF handler[h].wp \in HalfPlanned THEN planned \cup {handler[h].wp} ELSE planned
            \/ /\ Moves(h, At("markCalculating", handler[h].wp, "-")) /\ handler[h].wp \notin Unplannable
               /\ planned' = planned \cup {handler[h].wp}
<1> DEFINE w == handler[h].wp
<1>1. handler[h].pc = "createRequests" /\ w \in Wp
  BY AboutMission DEF CreateRequests, IsAt, PreparePc
<1>2. \A pc \in {"failPlanning", "markCalculating"} : At(pc, w, "-") \in Task /\ TaskPlaced(At(pc, w, "-"))
  BY <1>1, AtPlaced DEF PreparePc, EndPc, QueuePc
<1>3. UNCHANGED <<mission, queue, events_queue, agents, runs>>
  BY DEF CreateRequests
<1>4. inbox' \in [Agent -> Seq([type: {"reserve", "release"}, wp: Wp])] /\ planned' \subseteq Wp
  BY <1>1 DEF CreateRequests, agents, Typed, TypeOK
<1>5. \/ /\ Becomes(h, At("failPlanning", w, "-")) /\ w \in Unplannable
         /\ planned' = IF w \in HalfPlanned THEN planned \cup {w} ELSE planned
      \/ /\ Becomes(h, At("markCalculating", w, "-")) /\ w \notin Unplannable
         /\ planned' = planned \cup {w}
  BY QueueAssumption DEF CreateRequests
<1> QED
  BY <1>1, <1>2, <1>3, <1>4, <1>5, MovesOn DEF agents

\* They cannot be.
LEMMA FailPlanningStep ==
  ASSUME Typed, NEW h \in Handler, FailPlanning(h)
  PROVE  /\ Typed' /\ handler[h].wp \in Wp /\ Changes(handler[h].wp, "-", "planning_failed")
         /\ UNCHANGED <<queue, agent, inbox, planned, runs>>
         /\ handler[h].pc = "failPlanning" /\ Moves(h, Idle)
<1>1. handler[h].pc = "failPlanning" /\ handler[h].wp \in Wp
  BY AboutMission DEF FailPlanning, IsAt, PreparePc
<1> QED
  BY <1>1, IdleTask, StatusFacts, WritingMoves DEF FailPlanning, agents

\* The mission calculates, if it is still to be planned.
LEMMA MarkCalculatingStep ==
  ASSUME Typed, NEW h \in Handler, MarkCalculating(h)
  PROVE  /\ Typed' /\ handler[h].wp \in Wp /\ UNCHANGED <<queue, agent, inbox, planned, runs>>
         /\ handler[h].pc = "markCalculating" /\ Moves(h, Idle)
         /\ \/ Changes(handler[h].wp, "-", "calculating")
               /\ mission[handler[h].wp] \in {Preparing, "dispatched", "executing"}
            \/ Changes(handler[h].wp, "-", "-")
               /\ mission[handler[h].wp] \notin {Preparing, "dispatched", "executing"}
<1>1. handler[h].pc = "markCalculating" /\ handler[h].wp \in Wp
  BY AboutMission DEF MarkCalculating, IsAt, PreparePc
<1>2. Becomes(h, Idle) /\ UNCHANGED <<queue, agents, planned, runs>>
  BY DEF MarkCalculating
<1>3. CASE mission[handler[h].wp] \in {Preparing, "dispatched", "executing"}
  <2>1. SetMission(handler[h].wp, "calculating", {})
    BY <1>3 DEF MarkCalculating, SetMissionWhere, Preparing
  <2> QED
    BY <1>1, <1>2, <1>3, <2>1, IdleTask, StatusFacts, WritingMoves DEF agents
<1>4. CASE mission[handler[h].wp] \notin {Preparing, "dispatched", "executing"}
  <2>1. TakeAndLeave({}, {}) /\ UNCHANGED mission
    BY <1>4 DEF MarkCalculating, SetMissionWhere, Preparing
  <2>2. UNCHANGED events_queue
    BY <2>1 DEF TakeAndLeave, Typed, TypeOK
  <2> QED
    BY <1>1, <1>2, <1>4, <2>1, <2>2, IdleTask, OnlyMoves DEF agents
<1> QED
  BY <1>3, <1>4

\* The user cancels a mission.
LEMMA UserCancelsStep ==
  ASSUME Typed, NEW w \in Wp, UserCancels(w)
  PROVE  /\ Typed' /\ Changes(w, "-", "canceling") /\ UNCHANGED <<handler, queue, agent, inbox, planned, runs>>
         /\ mission[w] \in Cancelable
BY StatusFacts, Writes DEF UserCancels, agents

\* The first request of a mission is done.
LEMMA PipelineExecutesStep ==
  ASSUME Typed, NEW w \in Wp, PipelineExecutes(w)
  PROVE  /\ Typed' /\ Changes(w, "-", "executing") /\ UNCHANGED <<handler, queue, agent, inbox, planned, runs>>
         /\ mission[w] = "calculating" /\ w \in planned
BY StatusFacts, Writes DEF PipelineExecutes, agents

\* A request or an assignment fails.
LEMMA PipelineFailsStep ==
  ASSUME Typed, NEW w \in Wp, PipelineFails(w)
  PROVE  /\ Typed' /\ UNCHANGED <<handler, queue, agent, inbox, planned, runs>>
         /\ mission[w] \in RunningMission /\ w \in planned
         /\ \E s \in {"assignment_failed", "planning_failed"} : Changes(w, "-", s)
<1> PICK s \in {"assignment_failed", "planning_failed"} :
       /\ w \in planned /\ mission[w] \in RunningMission /\ SetMission(w, s, {})
       /\ UNCHANGED <<queue, handler, agents, planned, runs>>
  BY DEF PipelineFails
<1>1. s \in MissionStatus
  BY StatusFacts
<1> QED
  BY <1>1, Writes DEF agents

\* All is done.
LEMMA PipelineCompletesStep ==
  ASSUME Typed, NEW w \in Wp, PipelineCompletes(w)
  PROVE  /\ Typed' /\ Changes(w, "-", "assignments_completed") /\ UNCHANGED <<handler, queue, agent, inbox, planned, runs>>
         /\ mission[w] \in UncompleteMission /\ w \in planned
BY StatusFacts, Writes DEF PipelineCompletes, agents

\* A status that is to be written only over the one it follows.
LEMMA EndWritten ==
  ASSUME Typed, NEW h \in Handler, NEW w \in Wp, NEW l \in HandledMission, NEW s \in EndStatus,
         Starts(h, MissionEvent(l, w)), SetMissionWhere(w, {l}, s, {MissionEvent(l, w)}),
         Becomes(h, At("cleanUp", w, "-")), UNCHANGED <<queue, agents, planned, runs>>
  PROVE  /\ Typed' /\ UNCHANGED <<queue, agent, inbox, planned, runs>>
         /\ handler[h].pc = "idle" /\ events_queue[MissionEvent(l, w)] > 0
         /\ Moves(h, At("cleanUp", w, "-"))
         /\ \/ Changes(w, l, s) /\ mission[w] = l
            \/ Changes(w, l, "-") /\ mission[w] # l
<1>1. At("cleanUp", w, "-") \in Task /\ TaskPlaced(At("cleanUp", w, "-"))
  BY AtPlaced DEF PreparePc, EndPc, QueuePc
<1>2. handler[h].pc = "idle" /\ events_queue[MissionEvent(l, w)] > 0 /\ l \in Kind /\ l # "-" /\ s \in MissionStatus
  BY StatusFacts, KindFacts DEF Starts, IsAt
<1>3. CASE mission[w] = l
  <2>1. SetMission(w, s, {MissionEvent(l, w)})
    BY <1>3 DEF SetMissionWhere
  <2> QED
    BY <1>1, <1>2, <1>3, <2>1, WritingMoves DEF agents
<1>4. CASE mission[w] # l
  <2>1. TakeAndLeave({MissionEvent(l, w)}, {}) /\ UNCHANGED mission
    BY <1>4 DEF SetMissionWhere
  <2> QED
    BY <1>1, <1>2, <1>4, <2>1, TakingMoves DEF agents
<1> QED
  BY <1>3, <1>4

\* The cancel of a mission is handled.
LEMMA HandleCancelingStep ==
  ASSUME Typed, NEW h \in Handler, NEW w \in Wp, HandleCanceling(h, w)
  PROVE  /\ Typed' /\ UNCHANGED <<queue, agent, inbox, planned, runs>>
         /\ handler[h].pc = "idle" /\ events_queue[MissionEvent("canceling", w)] > 0
         /\ Moves(h, At("cleanUp", w, "-"))
         /\ \/ Changes(w, "canceling", "canceled") /\ mission[w] = "canceling"
            \/ Changes(w, "canceling", "-") /\ mission[w] # "canceling"
<1>1. "canceling" \in HandledMission /\ "canceled" \in EndStatus
  BY DEF HandledMission, EndStatus
<1> QED
  BY <1>1, EndWritten DEF HandleCanceling

\* The failure of a mission is handled.
LEMMA HandleFailureStep ==
  ASSUME Typed, NEW h \in Handler, NEW w \in Wp, HandleFailure(h, w)
  PROVE  \E l \in {"assignment_failed", "planning_failed"} :
         /\ Typed' /\ UNCHANGED <<queue, agent, inbox, planned, runs>>
         /\ handler[h].pc = "idle" /\ events_queue[MissionEvent(l, w)] > 0
         /\ Moves(h, At("cleanUp", w, "-"))
         /\ \/ Changes(w, l, "failed") /\ mission[w] = l
            \/ Changes(w, l, "-") /\ mission[w] # l
<1>1. {"assignment_failed", "planning_failed"} \subseteq HandledMission /\ "failed" \in EndStatus
  BY DEF HandledMission, EndStatus
<1> QED
  BY <1>1, EndWritten DEF HandleFailure

\* The completion of a mission is handled.
LEMMA HandleCompletedStep ==
  ASSUME Typed, NEW h \in Handler, NEW w \in Wp, HandleCompleted(h, w)
  PROVE  /\ Typed' /\ UNCHANGED <<queue, agent, inbox, planned, runs>>
         /\ handler[h].pc = "idle" /\ events_queue[MissionEvent("assignments_completed", w)] > 0
         /\ Changes(w, "assignments_completed", "-")
         /\ \E s \in {"succeeded", "canceled"} : Moves(h, At("endMission", w, s))
<1> PICK s \in {"succeeded", "canceled"} :
      /\ Starts(h, MissionEvent("assignments_completed", w)) /\ TakeAndLeave({MissionEvent("assignments_completed", w)}, {})
      /\ Becomes(h, At("endMission", w, s)) /\ UNCHANGED <<mission, queue, agents, planned, runs>>
  BY DEF HandleCompleted
<1>1. At("endMission", w, s) \in Task /\ TaskPlaced(At("endMission", w, s))
  BY AtPlaced DEF PreparePc, EndPc, QueuePc, EndStatus
<1>2. "assignments_completed" \in Kind
  BY DEF Kind, HandledMission
<1> QED
  BY <1>1, <1>2, TakingMoves DEF Starts, IsAt, agents

\* The outcome of a completed mission is written.
LEMMA EndMissionStep ==
  ASSUME Typed, NEW h \in Handler, EndMission(h)
  PROVE  /\ Typed' /\ handler[h].wp \in Wp /\ handler[h].val \in EndStatus
         /\ Changes(handler[h].wp, "-", handler[h].val)
         /\ UNCHANGED <<queue, agent, inbox, planned, runs>>
         /\ handler[h].pc = "endMission" /\ Moves(h, At("readEnded", handler[h].wp, "-"))
<1>1. handler[h].pc = "endMission" /\ handler[h].wp \in Wp /\ handler[h].val \in EndStatus
  BY DEF EndMission, IsAt, Typed, Placed, TaskPlaced, EndPc
<1>2. At("readEnded", handler[h].wp, "-") \in Task /\ TaskPlaced(At("readEnded", handler[h].wp, "-"))
  BY <1>1, AtPlaced DEF PreparePc, EndPc, QueuePc
<1> QED
  BY <1>1, <1>2, StatusFacts, WritingMoves DEF EndMission, agents

\* The requests and assignments of a failed or canceled mission are canceled.
LEMMA CleanUpStep ==
  ASSUME Typed, NEW h \in Handler, CleanUp(h)
  PROVE  /\ Typed' /\ handler[h].wp \in Wp /\ Changes(handler[h].wp, "-", "-")
         /\ UNCHANGED <<queue, agent, inbox, runs>> /\ planned' = planned \ {handler[h].wp}
         /\ handler[h].pc = "cleanUp" /\ Moves(h, At("readEnded", handler[h].wp, "-"))
<1>1. handler[h].pc = "cleanUp" /\ handler[h].wp \in Wp
  BY AboutMission DEF CleanUp, IsAt, EndPc
<1>2. At("readEnded", handler[h].wp, "-") \in Task /\ TaskPlaced(At("readEnded", handler[h].wp, "-"))
  BY <1>1, AtPlaced DEF PreparePc, EndPc, QueuePc
<1>3. inbox' \in [Agent -> Seq([type: {"reserve", "release"}, wp: Wp])] /\ planned' \subseteq Wp
  BY DEF CleanUp, agents, Typed, TypeOK
<1> QED
  BY <1>1, <1>2, <1>3, MovesOn DEF CleanUp, agents

\* The mission that has ended is read.
LEMMA ReadEndedStep ==
  ASSUME Typed, NEW h \in Handler, ReadEnded(h)
  PROVE  /\ Typed' /\ handler[h].wp \in Wp /\ Changes(handler[h].wp, "-", "-")
         /\ UNCHANGED <<queue, agent, inbox, planned, runs>>
         /\ handler[h].pc = "readEnded"
         /\ Moves(h, At("release", handler[h].wp, mission[handler[h].wp]))
<1>1. handler[h].pc = "readEnded" /\ handler[h].wp \in Wp
  BY AboutMission DEF ReadEnded, IsAt, EndPc
<1>2. mission[handler[h].wp] \in MissionStatus
  BY <1>1 DEF Typed, TypeOK
<1>3. /\ At("release", handler[h].wp, mission[handler[h].wp]) \in Task
      /\ TaskPlaced(At("release", handler[h].wp, mission[handler[h].wp]))
  BY <1>1, <1>2, AtPlaced DEF PreparePc, EndPc, QueuePc
<1> QED
  BY <1>1, <1>3, OnlyMoves DEF ReadEnded, agents

\* Its agents are to be released.
LEMMA ReleaseStep ==
  ASSUME Typed, NEW h \in Handler, Release(h)
  PROVE  /\ Typed' /\ handler[h].wp \in Wp /\ Changes(handler[h].wp, "-", "-")
         /\ UNCHANGED <<queue, agent, planned, runs>> /\ SendTo(AgentsOf[handler[h].wp], "release", handler[h].wp)
         /\ handler[h].pc = "release"
         /\ \/ /\ Moves(h, At("selectNext", handler[h].wp, "-"))
               /\ handler[h].wp \in Range(Queue) /\ handler[h].val = "succeeded"
            \/ /\ Moves(h, Idle)
               /\ ~(handler[h].wp \in Range(Queue) /\ handler[h].val = "succeeded")
<1> DEFINE w == handler[h].wp
<1>1. handler[h].pc = "release" /\ w \in Wp
  BY AboutMission DEF Release, IsAt, EndPc
<1>2. w \in Range(Queue) => At("selectNext", w, "-") \in Task /\ TaskPlaced(At("selectNext", w, "-"))
  BY <1>1, AtPlaced DEF PreparePc, EndPc, QueuePc
<1>3. AgentsOf[w] \in SUBSET Agent
  BY <1>1, QueueAssumption
<1>4. inbox' \in [Agent -> Seq([type: {"reserve", "release"}, wp: Wp])] /\ planned' \subseteq Wp
  BY <1>1, <1>3, MessagesSent DEF Release, Typed, TypeOK
<1>5. UNCHANGED <<mission, queue, events_queue, agent, planned, runs>> /\ SendTo(AgentsOf[w], "release", w)
  BY DEF Release
<1>6. CASE w \in Range(Queue) /\ handler[h].val = "succeeded"
  <2>1. Becomes(h, At("selectNext", w, "-"))
    BY <1>6 DEF Release
  <2> QED
    BY <1>1, <1>2, <1>4, <1>5, <1>6, <2>1, MovesOn
<1>7. CASE ~(w \in Range(Queue) /\ handler[h].val = "succeeded")
  <2>1. Becomes(h, Idle)
    BY <1>7 DEF Release
  <2> QED
    BY <1>1, <1>4, <1>5, <1>7, <2>1, IdleTask, MovesOn
<1> QED
  BY <1>6, <1>7

\* The next mission of the queue is to be started, or the queue stopped.
LEMMA SelectNextStep ==
  ASSUME Typed, NEW h \in Handler, SelectNext(h)
  PROVE  /\ Typed' /\ handler[h].wp \in Wp /\ Changes(handler[h].wp, "-", "-")
         /\ UNCHANGED <<queue, agent, inbox, planned, runs>>
         /\ handler[h].pc = "selectNext" /\ handler[h].wp \in Range(Queue)
         /\ \/ Moves(h, At("stopQueue", NoWp, "-"))
            \/ \E i \in DOMAIN Queue :
                 /\ mission[Queue[i]] = "draft" /\ Moves(h, At("startNext", Queue[i], "-"))
                 /\ \A j \in DOMAIN Queue : mission[Queue[j]] = "draft" => i <= j
<1>1. handler[h].pc = "selectNext" /\ handler[h].wp \in Range(Queue) /\ handler[h].wp \in Wp
  BY QueueFacts DEF SelectNext, IsAt, Typed, Placed, TaskPlaced
<1>2. At("stopQueue", NoWp, "-") \in Task /\ TaskPlaced(At("stopQueue", NoWp, "-"))
  BY AtPlaced DEF PreparePc, EndPc, QueuePc
<1>3. \E t \in Task : /\ TaskPlaced(t) /\ Becomes(h, t)
                      /\ \/ t = At("stopQueue", NoWp, "-")
                         \/ \E i \in DOMAIN Queue :
                              /\ mission[Queue[i]] = "draft" /\ t = At("startNext", Queue[i], "-")
                              /\ \A j \in DOMAIN Queue : mission[Queue[j]] = "draft" => i <= j
  BY <1>2, NextTaken DEF SelectNext
<1> QED
  BY <1>1, <1>3, OnlyMoves DEF SelectNext, agents

\* An agent takes the first message of its queue.
LEMMA AgentActsStep ==
  ASSUME Typed, NEW a \in Agent, AgentActs(a)
  PROVE  /\ Typed' /\ UNCHANGED <<mission, queue, events_queue, handler, planned, runs>>
         /\ inbox[a] # <<>> /\ inbox[a] \in Seq([type: {"reserve", "release"}, wp: Wp])
         /\ inbox'[a] = Tail(inbox[a])
         /\ \A b \in Agent \ {a} : inbox'[b] = inbox[b] /\ agent'[b] = agent[b]
         /\ \/ /\ Head(inbox[a]).type = "reserve" /\ agent[a] = NoWp
               /\ agent'[a] = Head(inbox[a]).wp
            \/ /\ Head(inbox[a]).type = "release" /\ agent[a] = Head(inbox[a]).wp
               /\ agent'[a] = NoWp
            \/ agent'[a] = agent[a]
<1> DEFINE M == [type: {"reserve", "release"}, wp: Wp]
           msg == Head(inbox[a])
<1>1. inbox \in [Agent -> Seq(M)] /\ agent \in [Agent -> Wp \cup {NoWp}]
  BY DEF Typed, TypeOK
<1>2. \A m \in M : m.wp \in Wp
  OBVIOUS
<1>3. inbox[a] # <<>> /\ inbox' = [inbox EXCEPT ![a] = Tail(@)]
  BY DEF AgentActs
<1>4. agent' = [agent EXCEPT ![a] =
        CASE msg.type = "reserve" /\ @ = NoWp -> msg.wp
          [] msg.type = "release" /\ @ = msg.wp -> NoWp
          [] OTHER -> @]
  BY DEF AgentActs
<1> HIDE DEF M
<1>5. inbox[a] \in Seq(M) /\ msg \in M /\ Tail(inbox[a]) \in Seq(M)
  BY <1>1, <1>3
<1>6. inbox' \in [Agent -> Seq(M)] /\ inbox'[a] = Tail(inbox[a]) /\ \A b \in Agent \ {a} : inbox'[b] = inbox[b]
  BY <1>1, <1>3, <1>5
<1>7. /\ \A b \in Agent \ {a} : agent'[b] = agent[b]
      /\ \/ msg.type = "reserve" /\ agent[a] = NoWp /\ agent'[a] = msg.wp
         \/ msg.type = "release" /\ agent[a] = msg.wp /\ agent'[a] = NoWp
         \/ agent'[a] = agent[a]
  BY <1>1, <1>4
<1>8. agent' \in [Agent -> Wp \cup {NoWp}]
  BY <1>1, <1>2, <1>4, <1>5, <1>7
<1>9. UNCHANGED <<mission, queue, events_queue, handler, planned, runs>>
  BY DEF AgentActs
<1>10. Typed'
  BY <1>6, <1>8, <1>9, TypedAgain DEF Typed, TypeOK, Placed, M
<1> QED
  BY <1>3, <1>5, <1>6, <1>7, <1>9, <1>10 DEF M

\* Types and places are kept by every step.
LEMMA TypedStep ==
  ASSUME Typed, [Next]_vars
  PROVE  Typed'
<1>1. ASSUME NEW h \in Handler, Handle(h) PROVE Typed'
  BY <1>1, HandleRunStep, HandleQueueCancelStep, HandleInsertionStep, HandleDispatchedStep,
     HandleCancelingStep, HandleFailureStep, HandleCompletedStep DEF Handle
<1>2. ASSUME NEW h \in Handler, QueueSteps(h) PROVE Typed'
  BY <1>2, SetRunningStep, StartNextStep, StopQueueStep, CancelMissionStep DEF QueueSteps
<1>3. ASSUME NEW h \in Handler, PrepareSteps(h) PROVE Typed'
  BY <1>3, PrepareStep, WriteSettingsStep, AgentsAreFreeStep, SendGetReadyStep, ReadAgentsStep, DecideReadyStep,
     FailPreparationStep, CreateRequestsStep, FailPlanningStep, MarkCalculatingStep DEF PrepareSteps
<1>4. ASSUME NEW h \in Handler, EndSteps(h) PROVE Typed'
  BY <1>4, EndMissionStep, CleanUpStep, ReadEndedStep, ReleaseStep, SelectNextStep DEF EndSteps
<1>5. ASSUME NEW w \in Wp, UserCancels(w) \/ PipelineExecutes(w) \/ PipelineFails(w) \/ PipelineCompletes(w)
      PROVE  Typed'
  BY <1>5, UserCancelsStep, PipelineExecutesStep, PipelineFailsStep, PipelineCompletesStep
<1>6. CASE UNCHANGED vars
  BY <1>6 DEF vars, Typed, TypeOK, Placed
<1> QED
  BY <1>1, <1>2, <1>3, <1>4, <1>5, <1>6, UserRunsStep, UserCancelsQueueStep, WaitTimesOutStep, AgentActsStep
     DEF Next, Continue

\* ... and hold at the start.
LEMMA TypedInit ==
  ASSUME Init
  PROVE  Typed
<1>1. mission \in [Wp -> MissionStatus]
  BY StatusFacts DEF Init, MissionStatus
<1>2. events_queue \in [Event -> Nat] /\ \A w \in Wp : events_queue[MissionEvent("insertion", w)] > 0 => w \in Direct
  <2>1. \A w \in Wp : MissionEvent("insertion", w).wp = w
    BY DEF MissionEvent
  <2> QED
    BY <2>1, EventFacts DEF Init
<1>3. handler \in [Handler -> Task] /\ \A h \in Handler : TaskPlaced(handler[h])
  BY IdleTask DEF Init
<1>4. inbox \in [Agent -> Seq([type: {"reserve", "release"}, wp: Wp])]
  <2>1. \A M : <<>> \in Seq(M)
    OBVIOUS
  <2> QED
    BY <2>1 DEF Init
<1> QED
  BY <1>1, <1>2, <1>3, <1>4 DEF Init, Typed, TypeOK, Placed

\* The variables keep their types: the statuses, the events, the steps and
\* the missions of the computations, the messages of the agents.
THEOREM TypeCorrect == Spec => []TypeOK
<1>1. Typed /\ [Next]_vars => Typed'
  BY TypedStep
<1>2. Typed => TypeOK
  BY DEF Typed
<1> QED
  BY TypedInit, <1>1, <1>2, PTL DEF Spec

----------------------------------------------------------------------------
(* Reservation *)

\* Statuses of a mission that has been neither canceled nor failed nor completed.
Alive == {"draft", "dispatched", Preparing, "calculating", "executing"}
Gone(w) == mission[w] \notin Alive

\* What releases the agents of a mission comes after its end.
EndsGone ==
  /\ \A w \in Wp, k \in HandledMission \ {"dispatched"} : events_queue[MissionEvent(k, w)] > 0 => Gone(w)
  /\ \A h \in Handler : handler[h].pc \in EndPc => Gone(handler[h].wp)
  /\ \A a \in Agent : \A i \in DOMAIN inbox[a] : inbox[a][i].type = "release" => Gone(inbox[a][i].wp)

\* A computation that has seen the agents of mission w ready.
TaskCleared(t, w) ==
  /\ t.wp = w
  /\ \/ t.pc \in {"createRequests", "failPlanning", "markCalculating"}
     \/ t.pc = "decideReady" /\ t.val = "ready"

Kept(w) == \A a \in AgentsOf[w] \cap Acknowledges : agent[a] = w

\* From there on, and as long as the mission is at work, they are kept for it.
Reserved ==
  \A w \in Wp \ NoWait :
    /\ ~Gone(w)
    /\ mission[w] \in {"calculating", "executing"} \/ \E h \in Handler : TaskCleared(handler[h], w)
    => Kept(w)

\* No status is written over the end of a mission that would set it to work again.
NothingRevived == \A w \in Wp : Gone(w) => Gone(w)'

\* An event that ends a mission is reported by the statement that ends it.
LEMMA EndEventsGone ==
  ASSUME Typed, EndsGone, NothingRevived, NEW w, NEW l, NEW s, Changes(w, l, s)
  PROVE  \A v \in Wp, k \in HandledMission \ {"dispatched"} : events_queue'[MissionEvent(k, v)] > 0 => Gone(v)'
<1> SUFFICES ASSUME NEW v \in Wp, NEW k \in HandledMission \ {"dispatched"}, events_queue'[MissionEvent(k, v)] > 0
             PROVE  Gone(v)'
  OBVIOUS
<1>1. k \in Kind /\ k # "-" /\ k \notin Alive
  BY KindFacts, PreparingFacts DEF Kind, HandledMission, Alive
<1>2. events_queue[MissionEvent(k, v)] \in Nat
  BY <1>1, KindFacts DEF Typed, TypeOK
<1>3. CASE events_queue[MissionEvent(k, v)] > 0
  BY <1>3 DEF EndsGone, NothingRevived
<1>4. CASE ~(events_queue[MissionEvent(k, v)] > 0)
  <2>1. k = s /\ v = w
    BY <1>1, <1>2, <1>4 DEF Changes
  <2> QED
    BY <1>1, <2>1 DEF Changes, Gone
<1> QED
  BY <1>3, <1>4

\* A release that waits for an agent stays one of a mission that has ended.
LEMMA ReleasesGone ==
  ASSUME Typed, EndsGone, NothingRevived
  PROVE  \A a \in Agent : \A i \in DOMAIN inbox[a] : inbox[a][i].type = "release" => mission'[inbox[a][i].wp] \notin Alive
<1> SUFFICES ASSUME NEW a \in Agent, NEW i \in DOMAIN inbox[a], inbox[a][i].type = "release"
             PROVE mission'[inbox[a][i].wp] \notin Alive
  OBVIOUS
<1>1. inbox[a][i].wp \in Wp
  <2> DEFINE M == [type: {"reserve", "release"}, wp: Wp]
  <2>1. \A m \in M : m.wp \in Wp
    OBVIOUS
  <2>2. inbox[a] \in Seq(M)
    BY DEF Typed, TypeOK
  <2> HIDE DEF M
  <2>3. inbox[a][i] \in M
    BY <2>2
  <2> QED
    BY <2>1, <2>3
<1> QED
  BY <1>1 DEF EndsGone, NothingRevived, Gone

\* What ends or releases a mission keeps doing so only after its end, if that
\* holds of the computation that moves and of the messages.
LEMMA EndsGoneKept ==
  ASSUME Typed, EndsGone, NothingRevived, NEW w, NEW l, NEW s, Changes(w, l, s) \/ QueueChanges(l, s),
         \A g \in Handler : \/ handler'[g] = handler[g]
                            \/ handler'[g].pc \in EndPc => mission'[handler'[g].wp] \notin Alive,
         \A a \in Agent : \A i \in DOMAIN inbox'[a] :
           inbox'[a][i].type = "release" => mission'[inbox'[a][i].wp] \notin Alive
  PROVE  EndsGone'
<1>1. \A g \in Handler : handler'[g].pc \in EndPc => mission'[handler'[g].wp] \notin Alive
  BY AboutMission DEF EndsGone, NothingRevived, Gone
<1>2. CASE Changes(w, l, s)
  <2>1. \A v \in Wp, k \in HandledMission \ {"dispatched"} : events_queue'[MissionEvent(k, v)] > 0 => mission'[v] \notin Alive
    BY <1>2, EndEventsGone DEF Gone
  <2> QED
    BY <1>1, <2>1 DEF EndsGone, Gone
<1>3. CASE QueueChanges(l, s)
  <2>1. \A v \in Wp, k \in HandledMission \ {"dispatched"} : events_queue'[MissionEvent(k, v)] > 0 => mission'[v] \notin Alive
    BY <1>3 DEF QueueChanges, EndsGone, Gone, Kind
  <2> QED
    BY <1>1, <2>1 DEF EndsGone, Gone
<1> QED
  BY <1>2, <1>3

\* ... in particular when one computation moves and no message is sent.
LEMMA EndsGoneMoves ==
  ASSUME Typed, EndsGone, NothingRevived, NEW w, NEW l, NEW s, Changes(w, l, s) \/ QueueChanges(l, s),
         NEW h \in Handler, NEW t, Moves(h, t), t.pc \in EndPc => mission'[t.wp] \notin Alive,
         UNCHANGED inbox
  PROVE  EndsGone'
<1>1. \A g \in Handler : \/ handler'[g] = handler[g]
                         \/ handler'[g].pc \in EndPc => mission'[handler'[g].wp] \notin Alive
  BY DEF Moves
<1> QED
  BY <1>1, ReleasesGone, EndsGoneKept

\* ... or when none moves.
LEMMA EndsGoneWrites ==
  ASSUME Typed, EndsGone, NothingRevived, NEW w, NEW l, NEW s, Changes(w, l, s) \/ QueueChanges(l, s),
         UNCHANGED <<handler, inbox>>
  PROVE  EndsGone'
BY ReleasesGone, EndsGoneKept

\* ... or when messages are sent.
LEMMA EndsGoneSends ==
  ASSUME Typed, EndsGone, NothingRevived, NEW w \in Wp, Changes(w, "-", "-"),
         NEW h \in Handler, NEW t, Moves(h, t), t.pc \in EndPc => mission'[t.wp] \notin Alive,
         NEW type, SendTo(AgentsOf[w], type, w), type = "release" => mission'[w] \notin Alive
  PROVE  EndsGone'
<1>1. \A g \in Handler : \/ handler'[g] = handler[g]
                         \/ handler'[g].pc \in EndPc => mission'[handler'[g].wp] \notin Alive
  BY DEF Moves
<1>2. ASSUME NEW a \in Agent, NEW i \in DOMAIN inbox'[a], inbox'[a][i].type = "release"
      PROVE  mission'[inbox'[a][i].wp] \notin Alive
  <2> DEFINE M == [type: {"reserve", "release"}, wp: Wp]
             m == [type |-> type, wp |-> w]
  <2>1. inbox[a] \in Seq(M) /\ inbox'[a] \in {inbox[a], Append(inbox[a], m)} /\ m.type = type /\ m.wp = w
    BY DEF Typed, TypeOK, SendTo
  <2> HIDE DEF M, m
  <2>2. (i \in DOMAIN inbox[a] /\ inbox'[a][i] = inbox[a][i]) \/ inbox'[a][i] = m
    BY <2>1
  <2> QED
    BY <1>2, <2>1, <2>2, ReleasesGone
<1> QED
  BY <1>1, <1>2, EndsGoneKept

\* Every step keeps it.
LEMMA EndsGoneStep ==
  ASSUME Typed, EndsGone, NothingRevived, [Next]_vars
  PROVE  EndsGone'
<1>1. ASSUME NEW w \in Wp, UserCancels(w) \/ PipelineExecutes(w) \/ PipelineFails(w) \/ PipelineCompletes(w)
      PROVE  EndsGone'
  BY <1>1, UserCancelsStep, PipelineExecutesStep, PipelineFailsStep, PipelineCompletesStep, EndsGoneWrites
<1>2. CASE UserRuns \/ UserCancelsQueue
  BY <1>2, UserRunsStep, UserCancelsQueueStep, EndsGoneWrites
<1>3. ASSUME NEW h \in Handler, HandleRun(h) \/ HandleQueueCancel(h) \/ SetRunning(h) \/ StopQueue(h) PROVE EndsGone'
  <2>1. CASE HandleRun(h)
    BY <2>1, HandleRunStep, EndsGoneMoves DEF At, Idle, EndPc
  <2>2. CASE HandleQueueCancel(h)
    BY <2>2, HandleQueueCancelStep, EndsGoneMoves DEF At, Idle, EndPc
  <2>3. CASE SetRunning(h)
    BY <2>3, SetRunningStep, EndsGoneMoves DEF At, EndPc
  <2>4. CASE StopQueue(h)
    <3>1. [handler[h] EXCEPT !.pc = "cancelMissions"].pc = "cancelMissions"
      BY DEF Typed, TypeOK, Task
    <3> QED
      BY <2>4, <3>1, StopQueueStep, EndsGoneMoves DEF At, Idle, EndPc
  <2> QED
    BY <1>3, <2>1, <2>2, <2>3, <2>4
<1>4. ASSUME NEW h \in Handler, StartNext(h) PROVE EndsGone'
  BY <1>4, StartNextStep, EndsGoneMoves DEF At, Idle, EndPc
<1>5. ASSUME NEW h \in Handler, NEW w \in Wp, CancelMission(h, w) PROVE EndsGone'
  <2>1. [handler[h] EXCEPT !.todo = handler[h].todo \ {w}].pc = handler[h].pc
    BY DEF Typed, TypeOK, Task
  <2> QED
    BY <1>5, <2>1, CancelMissionStep, EndsGoneMoves DEF At, Idle, EndPc
<1>6. ASSUME NEW h \in Handler, NEW w \in Wp, HandleInsertion(h, w) \/ HandleDispatched(h, w) PROVE EndsGone'
  BY <1>6, HandleInsertionStep, HandleDispatchedStep, EndsGoneMoves DEF At, EndPc
<1>7. ASSUME NEW h \in Handler, NEW w \in Wp, HandleCanceling(h, w) \/ HandleFailure(h, w) \/ HandleCompleted(h, w)
      PROVE  EndsGone'
  <2>1. \A k \in {"canceling", "assignment_failed", "planning_failed", "assignments_completed"} :
          events_queue[MissionEvent(k, w)] > 0 => mission'[w] \notin Alive
    BY DEF EndsGone, HandledMission, NothingRevived, Gone
  <2>2. CASE HandleCanceling(h, w)
    BY <2>1, <2>2, HandleCancelingStep, EndsGoneMoves DEF At
  <2>3. CASE HandleFailure(h, w)
    BY <2>1, <2>3, HandleFailureStep, EndsGoneMoves DEF At
  <2>4. CASE HandleCompleted(h, w)
    BY <2>1, <2>4, HandleCompletedStep, EndsGoneMoves DEF At
  <2> QED
    BY <1>7, <2>2, <2>3, <2>4
<1>8. ASSUME NEW h \in Handler, PrepareSteps(h) \/ WaitTimesOut(h) PROVE EndsGone'
  <2>1. CASE Prepare(h)
    BY <2>1, PrepareStep, FirstWaitFacts, EndsGoneMoves DEF At, EndPc
  <2>2. CASE WriteSettings(h)
    BY <2>2, WriteSettingsStep, FirstWaitFacts, EndsGoneMoves DEF EndPc
  <2>3. CASE AgentsAreFree(h) \/ ReadAgents(h) \/ DecideReady(h) \/ WaitTimesOut(h)
    BY <2>3, AgentsAreFreeStep, ReadAgentsStep, DecideReadyStep, WaitTimesOutStep, EndsGoneMoves DEF At, EndPc
  <2>4. CASE SendGetReady(h)
    BY <2>4, SendGetReadyStep, EndsGoneSends DEF At, EndPc
  <2>5. CASE FailPreparation(h) \/ FailPlanning(h) \/ MarkCalculating(h)
    BY <2>5, FailPreparationStep, FailPlanningStep, MarkCalculatingStep, EndsGoneMoves DEF At, Idle, EndPc
  <2>6. CASE CreateRequests(h)
    BY <2>6, CreateRequestsStep, EndsGoneMoves DEF At, EndPc
  <2> QED
    BY <1>8, <2>1, <2>2, <2>3, <2>4, <2>5, <2>6 DEF PrepareSteps
<1>9. ASSUME NEW h \in Handler, EndSteps(h) PROVE EndsGone'
  <2>1. handler[h].pc \in EndPc => mission'[handler[h].wp] \notin Alive
    BY AboutMission DEF EndsGone, NothingRevived, Gone
  <2>2. CASE EndMission(h)
    BY <2>1, <2>2, EndMissionStep, EndsGoneMoves DEF At, EndPc
  <2>3. CASE CleanUp(h)
    BY <2>1, <2>3, CleanUpStep, EndsGoneMoves DEF At, EndPc
  <2>4. CASE ReadEnded(h)
    BY <2>1, <2>4, ReadEndedStep, EndsGoneMoves DEF At, EndPc
  <2>5. CASE Release(h)
    BY <2>1, <2>5, ReleaseStep, EndsGoneSends DEF At, Idle, EndPc
  <2>6. CASE SelectNext(h)
    BY <2>6, SelectNextStep, EndsGoneMoves DEF At, EndPc
  <2> QED
    BY <1>9, <2>2, <2>3, <2>4, <2>5, <2>6 DEF EndSteps
<1>10. ASSUME NEW a \in Agent, AgentActs(a) PROVE EndsGone'
  <2> DEFINE M == [type: {"reserve", "release"}, wp: Wp]
  <2>1. /\ UNCHANGED <<mission, events_queue, handler>> /\ inbox[a] \in Seq(M) /\ inbox[a] # <<>>
        /\ inbox'[a] = Tail(inbox[a]) /\ \A b \in Agent \ {a} : inbox'[b] = inbox[b]
    BY <1>10, AgentActsStep
  <2> HIDE DEF M
  <2>2. \A i \in DOMAIN inbox'[a] : i + 1 \in DOMAIN inbox[a] /\ inbox'[a][i] = inbox[a][i + 1]
    BY <2>1
  <2>3. ASSUME NEW b \in Agent, NEW i \in DOMAIN inbox'[b], inbox'[b][i].type = "release"
        PROVE  mission'[inbox'[b][i].wp] \notin Alive
    <3>1. CASE b = a
      <4>1. i + 1 \in DOMAIN inbox[a] /\ inbox'[b][i] = inbox[a][i + 1]
        BY <2>2, <2>3, <3>1
      <4> QED
        BY <2>3, <4>1, ReleasesGone
    <3>2. CASE b # a
      BY <2>1, <2>3, <3>2 DEF EndsGone, Gone
    <3> QED
      BY <3>1, <3>2
  <2> QED
    BY <2>1, <2>3 DEF EndsGone, Gone
<1>11. CASE UNCHANGED vars
  BY <1>11 DEF vars, EndsGone, Gone
<1> QED
  BY <1>1, <1>2, <1>3, <1>4, <1>5, <1>6, <1>7, <1>8, <1>9, <1>10, <1>11 DEF Next, Handle, Continue, QueueSteps

\* What a step may do to a mission or a computation without breaking the
\* reservation: only what had the agents goes on having them.
LEMMA ReservedKept ==
  ASSUME Typed, Reserved, NothingRevived, NEW w, NEW l, NEW s, Changes(w, l, s) \/ QueueChanges(l, s),
         UNCHANGED agent,
         Changes(w, l, s) /\ s \in {"calculating", "executing"} /\ w \in Wp \ NoWait /\ ~Gone(w) => Kept(w),
         \A g \in Handler : \/ handler'[g] = handler[g]
                            \/ \A v \in Wp \ NoWait : TaskCleared(handler'[g], v) /\ ~Gone(v) => Kept(v)
  PROVE  Reserved'
<1> SUFFICES ASSUME NEW v \in Wp \ NoWait, mission'[v] \in Alive,
                    mission'[v] \in {"calculating", "executing"} \/ \E g \in Handler : TaskCleared(handler'[g], v)
             PROVE  Kept(v)
  BY DEF Reserved, Gone, Kept, TaskCleared
<1>1. ~Gone(v)
  BY DEF NothingRevived, Gone
<1>2. CASE mission'[v] \in {"calculating", "executing"} /\ mission'[v] = mission[v]
  BY <1>1, <1>2 DEF Reserved
<1>3. CASE mission'[v] \in {"calculating", "executing"} /\ mission'[v] # mission[v]
  <2>1. Changes(w, l, s) /\ v = w /\ s = mission'[v]
    BY <1>3 DEF Changes, QueueChanges
  <2> QED
    BY <1>1, <1>3, <2>1
<1>4. ASSUME NEW g \in Handler, TaskCleared(handler'[g], v) PROVE Kept(v)
  BY <1>1, <1>4 DEF Reserved
<1> QED
  BY <1>2, <1>3, <1>4

\* ... in particular when one computation moves.
LEMMA ReservedMoves ==
  ASSUME Typed, Reserved, NothingRevived, NEW w, NEW l, NEW s, Changes(w, l, s) \/ QueueChanges(l, s),
         UNCHANGED agent,
         Changes(w, l, s) /\ s \in {"calculating", "executing"} /\ w \in Wp \ NoWait /\ ~Gone(w) => Kept(w),
         NEW h \in Handler, NEW t, Moves(h, t), \A v \in Wp \ NoWait : TaskCleared(t, v) /\ ~Gone(v) => Kept(v)
  PROVE  Reserved'
<1>1. \A g \in Handler : \/ handler'[g] = handler[g]
                         \/ \A v \in Wp \ NoWait : TaskCleared(handler'[g], v) /\ ~Gone(v) => Kept(v)
  BY DEF Moves
<1> QED
  BY <1>1, ReservedKept

\* A computation at an other step has cleared nothing.
LEMMA NotCleared ==
  ASSUME NEW pc, pc \notin {"createRequests", "failPlanning", "markCalculating", "decideReady"},
         NEW w, NEW val, NEW v
  PROVE  ~TaskCleared(At(pc, w, val), v)
BY DEF TaskCleared, At

\* Every step keeps the reservations.
LEMMA ReservedStep ==
  ASSUME Typed, EndsGone, Reserved, NothingRevived, [Next]_vars
  PROVE  Reserved'
<1> USE DEF Moves
<1>0. \A v : ~TaskCleared(Idle, v)
  BY NotCleared DEF Idle
<1>1. ASSUME NEW w \in Wp, UserCancels(w) \/ PipelineExecutes(w) \/ PipelineFails(w) \/ PipelineCompletes(w)
      PROVE  Reserved'
  <2>1. CASE UserCancels(w)
    BY <2>1, UserCancelsStep, ReservedKept
  <2>2. CASE PipelineExecutes(w)
    <3>1. w \notin NoWait /\ ~Gone(w) => Kept(w)
      BY <2>2, PipelineExecutesStep DEF Reserved
    <3> QED
      BY <2>2, <3>1, PipelineExecutesStep, ReservedKept
  <2>3. CASE PipelineFails(w)
    BY <2>3, PipelineFailsStep, ReservedKept
  <2>4. CASE PipelineCompletes(w)
    BY <2>4, PipelineCompletesStep, ReservedKept
  <2> QED
    BY <1>1, <2>1, <2>2, <2>3, <2>4
<1>2. CASE UserRuns \/ UserCancelsQueue
  <2>1. \A w, l, s : QueueChanges(l, s) /\ UNCHANGED <<agent, handler>> => Reserved'
    BY DEF Reserved, QueueChanges, Gone, Kept, TaskCleared
  <2> QED
    BY <1>2, <2>1, UserRunsStep, UserCancelsQueueStep
<1> HIDE DEF Moves
<1>3. ASSUME NEW h \in Handler, \/ HandleRun(h) \/ HandleQueueCancel(h) \/ SetRunning(h) \/ StopQueue(h)
      PROVE Reserved'
  <2>q. ASSUME NEW l, NEW s, QueueChanges(l, s), UNCHANGED agent, NEW t, Moves(h, t),
               t.pc \in {"idle", "stopQueue", "setRunning", "startNext", "cancelMissions"}
        PROVE  Reserved'
    <3>1. \A v : ~TaskCleared(t, v)
      BY <2>q DEF TaskCleared
    <3>2. \A v \in Wp : mission'[v] = mission[v]
      BY <2>q DEF QueueChanges
    <3> QED
      BY <2>q, <3>1, <3>2 DEF Reserved, Moves, Gone, Kept, TaskCleared
  <2>1. CASE HandleRun(h)
    BY <2>1, <2>q, HandleRunStep DEF At, Idle
  <2>2. CASE HandleQueueCancel(h)
    BY <2>2, <2>q, HandleQueueCancelStep DEF At, Idle
  <2>3. CASE SetRunning(h)
    BY <2>3, <2>q, SetRunningStep DEF At
  <2>4. CASE StopQueue(h)
    <3>1. [handler[h] EXCEPT !.pc = "cancelMissions"].pc = "cancelMissions"
      BY DEF Typed, TypeOK, Task
    <3> QED
      BY <2>4, <2>q, <3>1, StopQueueStep DEF At, Idle
  <2> QED
    BY <1>3, <2>1, <2>2, <2>3, <2>4
<1>4. ASSUME NEW h \in Handler, StartNext(h) PROVE Reserved'
  BY <1>0, <1>4, StartNextStep, ReservedMoves
<1>5. ASSUME NEW h \in Handler, NEW w \in Wp, CancelMission(h, w) PROVE Reserved'
  <2>1. \A v : ~TaskCleared([handler[h] EXCEPT !.todo = handler[h].todo \ {w}], v)
    BY <1>5, CancelMissionStep DEF Typed, TypeOK, Task, TaskCleared
  <2> QED
    BY <1>0, <1>5, <2>1, CancelMissionStep, ReservedMoves
<1>6. ASSUME NEW h \in Handler, NEW w \in Wp, HandleInsertion(h, w) \/ HandleDispatched(h, w) PROVE Reserved'
  BY <1>6, PreparingFacts, NotCleared, HandleInsertionStep, HandleDispatchedStep, ReservedMoves
<1>7. ASSUME NEW h \in Handler, NEW w \in Wp, HandleCanceling(h, w) \/ HandleFailure(h, w) \/ HandleCompleted(h, w)
      PROVE  Reserved'
  BY <1>7, NotCleared, HandleCancelingStep, HandleFailureStep, HandleCompletedStep, ReservedMoves
<1>8. ASSUME NEW h \in Handler, PrepareSteps(h) \/ WaitTimesOut(h) PROVE Reserved'
  <2> DEFINE w == handler[h].wp
  <2>f. \A v \in Wp \ NoWait : w \in Wp /\ TaskCleared(FirstWait(w), v) => Kept(v)
    BY FirstWaitFacts DEF TaskCleared, Kept
  <2>c. ASSUME NEW v \in Wp \ NoWait, ~Gone(v), TaskCleared(handler[h], v) PROVE Kept(v)
    BY <2>c DEF Reserved
  <2>1. CASE Prepare(h)
    BY <2>1, <2>f, NotCleared, PrepareStep, ReservedMoves
  <2>2. CASE WriteSettings(h)
    BY <2>2, <2>f, PreparingFacts, WriteSettingsStep, ReservedMoves
  <2>3. CASE AgentsAreFree(h) \/ SendGetReady(h) \/ WaitTimesOut(h)
    BY <2>3, NotCleared, AgentsAreFreeStep, SendGetReadyStep, WaitTimesOutStep, ReservedMoves
  <2>4. CASE ReadAgents(h)
    <3>1. PICK val \in {"ready", "waiting"} :
             /\ Moves(h, At("decideReady", w, val))
             /\ val = "ready" => \A a \in AgentsOf[w] \cap Acknowledges : agent[a] = w
      BY <2>4, ReadAgentsStep
    <3>2. \A v : TaskCleared(At("decideReady", w, val), v) => Kept(v)
      BY <3>1 DEF TaskCleared, At, Kept
    <3> QED
      BY <2>4, <3>1, <3>2, ReadAgentsStep, ReservedMoves
  <2>5. CASE DecideReady(h)
    <3>1. ASSUME handler[h].val = "ready", handler[h].pc = "decideReady", NEW v \in Wp \ NoWait, ~Gone(v),
                 TaskCleared(At("createRequests", w, "-"), v)
          PROVE  Kept(v)
      BY <2>c, <3>1 DEF TaskCleared, At
    <3> QED
      BY <2>5, <3>1, NotCleared, DecideReadyStep, ReservedMoves
  <2>6. CASE CreateRequests(h)
    <3>1. ASSUME handler[h].pc = "createRequests", NEW pc, NEW v \in Wp \ NoWait, ~Gone(v), TaskCleared(At(pc, w, "-"), v)
          PROVE  Kept(v)
      BY <2>c, <3>1 DEF TaskCleared, At
    <3> QED
      BY <2>6, <3>1, CreateRequestsStep, ReservedMoves
  <2>7. CASE FailPreparation(h) \/ FailPlanning(h)
    BY <1>0, <2>7, FailPreparationStep, FailPlanningStep, ReservedMoves
  <2>8. CASE MarkCalculating(h)
    <3>1. w \in Wp \ NoWait /\ ~Gone(w) => Kept(w)
      BY <2>8, <2>c, MarkCalculatingStep DEF TaskCleared
    <3> QED
      BY <1>0, <2>8, <3>1, MarkCalculatingStep, ReservedMoves
  <2> QED
    BY <1>8, <2>1, <2>2, <2>3, <2>4, <2>5, <2>6, <2>7, <2>8 DEF PrepareSteps
<1>9. ASSUME NEW h \in Handler, EndSteps(h) PROVE Reserved'
  <2>1. CASE EndMission(h)
    <3>1. handler[h].val \in EndStatus => handler[h].val \notin {"calculating", "executing"}
      BY DEF EndStatus
    <3> QED
      BY <2>1, <3>1, NotCleared, EndMissionStep, ReservedMoves
  <2>2. CASE CleanUp(h) \/ ReadEnded(h)
    BY <2>2, NotCleared, CleanUpStep, ReadEndedStep, ReservedMoves
  <2>3. CASE Release(h)
    BY <1>0, <2>3, NotCleared, ReleaseStep, ReservedMoves
  <2>4. CASE SelectNext(h)
    BY <2>4, NotCleared, SelectNextStep, ReservedMoves
  <2> QED
    BY <1>9, <2>1, <2>2, <2>3, <2>4 DEF EndSteps
<1>10. ASSUME NEW a \in Agent, AgentActs(a) PROVE Reserved'
  <2> SUFFICES ASSUME NEW v \in Wp \ NoWait, ~Gone(v), Kept(v) PROVE Kept(v)'
    BY <1>10, AgentActsStep DEF Reserved, Gone, TaskCleared
  <2>1. CASE agent[a] = v
    <3>1. v # NoWp
      BY QueueAssumption
    <3>2. ~(Head(inbox[a]).type = "release" /\ agent[a] = Head(inbox[a]).wp)
      <4>1. 1 \in DOMAIN inbox[a] /\ Head(inbox[a]) = inbox[a][1]
        BY <1>10, AgentActsStep
      <4> QED
        BY <2>1, <4>1 DEF EndsGone
    <3>3. agent'[a] = agent[a]
      BY <1>10, <2>1, <3>1, <3>2, AgentActsStep
    <3> QED
      BY <1>10, <3>3, AgentActsStep, QueueAssumption DEF Kept
  <2>2. CASE agent[a] # v
    BY <1>10, <2>2, AgentActsStep, QueueAssumption DEF Kept
  <2> QED
    BY <2>1, <2>2
<1>11. CASE UNCHANGED vars
  BY <1>11 DEF vars, Reserved, Gone, Kept, TaskCleared
<1> QED
  BY <1>1, <1>2, <1>3, <1>4, <1>5, <1>6, <1>7, <1>8, <1>9, <1>10, <1>11 DEF Next, Handle, Continue, QueueSteps

\* Two missions at work have no agent in common.
LEMMA ReservedExclusive ==
  ASSUME Reserved
  PROVE  ExclusiveAgents
BY DEF Reserved, ExclusiveAgents, Gone, Alive, Kept

\* Neither the messages nor the computations that end a mission exist at the start.
LEMMA ReservedInit ==
  ASSUME Init
  PROVE  EndsGone /\ Reserved
<1>1. \A w \in Wp, k \in HandledMission \ {"dispatched"} : events_queue[MissionEvent(k, w)] = 0
  <2>1. \A k, w : MissionEvent(k, w).kind = k
    BY DEF MissionEvent
  <2> QED
    BY <2>1, KindFacts DEF Init, Kind, HandledMission
<1>2. \A h \in Handler : handler[h].pc = "idle"
  BY IdleTask DEF Init
<1>3. \A a \in Agent : DOMAIN inbox[a] = {}
  BY DEF Init
<1>4. \A w \in Wp : mission[w] \notin {"calculating", "executing"}
  BY DEF Init
<1> QED
  BY <1>1, <1>2, <1>3, <1>4 DEF EndsGone, Reserved, TaskCleared, EndPc

\* Agents are never at work for two missions, for every set of missions,
\* queue, agents and number of computations, whatever the user cancels: as
\* long as no mission that has been canceled, has failed or is completed is
\* set to work again.
THEOREM ReservationSafe == Spec /\ [][NothingRevived]_vars => []ExclusiveAgents
<1> DEFINE I == Typed /\ EndsGone /\ Reserved
<1>1. Init => I
  BY TypedInit, ReservedInit
<1>2. I /\ [Next]_vars /\ [NothingRevived]_vars => I'
  <2> SUFFICES ASSUME I, [Next]_vars, [NothingRevived]_vars PROVE I'
    OBVIOUS
  <2>1. NothingRevived
    BY DEF vars, NothingRevived, Gone
  <2> QED
    BY <2>1, TypedStep, EndsGoneStep, ReservedStep
<1>3. I => ExclusiveAgents
  BY ReservedExclusive
<1> QED
  BY <1>1, <1>2, <1>3, PTL DEF Spec

----------------------------------------------------------------------------
(* A mission is prepared once *)

\* The user cancels no mission whose next step would overwrite it: a draft one,
\* a direct one before its insertion is handled, and one whose settings are
\* still to be written.
CancelAssumption ==
  /\ "draft" \notin Cancelable
  /\ Direct # {} => "dispatched" \notin Cancelable
  /\ WithSettings # {} => Cancelable \cap {"dispatched", Preparing} = {}

Waiting(k, w) == events_queue[MissionEvent(k, w)]
Prepares(t, w) == t.pc \in PreparePc /\ t.wp = w

Unprepared(w) == \A h \in Handler : ~Prepares(handler[h], w)
Startable == {"draft", "calculating", "executing"}

InsertedOnce(w) ==
  /\ Waiting("insertion", w) \in {0, 1}
  /\ Waiting("insertion", w) = 1 =>
       mission[w] = "dispatched" /\ Waiting("dispatched", w) = 0 /\ w \notin planned /\ Unprepared(w)

DispatchedOnce(w) ==
  /\ Waiting("dispatched", w) \in {0, 1}
  /\ Waiting("dispatched", w) = 1 =>
       /\ mission[w] \notin Startable /\ w \notin planned /\ Unprepared(w)
       /\ w \in WithSettings => mission[w] \in {"dispatched", Preparing}

PreparedOnce(w) ==
  \A h \in Handler : Prepares(handler[h], w) =>
    /\ \A g \in Handler : Prepares(handler[g], w) => g = h
    /\ mission[w] \notin Startable
    /\ handler[h].pc \notin {"failPlanning", "markCalculating"} => w \notin planned
    /\ handler[h].pc = "settings" => w \in WithSettings
    /\ w \in WithSettings /\ handler[h].pc \in {"prepare", "settings"} =>
         mission[w] \in {"dispatched", Preparing}

CanceledAfter(w) ==
  \A h \in Handler : w \in handler[h].todo =>
    mission[w] # "draft" /\ Waiting("dispatched", w) = 0 /\ Unprepared(w)

\* A mission is prepared for one event, by one computation, and only then
\* planned; until then nobody has ended it. A queue that is canceled has
\* read missions that are past that.
OncePrepared(w) ==
  /\ InsertedOnce(w) /\ DispatchedOnce(w) /\ PreparedOnce(w) /\ CanceledAfter(w)
  /\ mission[w] = "draft" => w \notin planned

\* A queue starts a mission that is still a draft.
StartersDraft ==
  \A h \in Handler : handler[h].pc \in {"setRunning", "startNext"} => mission[handler[h].wp] = "draft"

\* What does not concern a mission leaves its preparation as it is.
LEMMA OncePreparedFrame ==
  ASSUME NEW v \in Wp, OncePrepared(v), mission'[v] = mission[v],
         \A k \in {"insertion", "dispatched"} : Waiting(k, v)' = Waiting(k, v),
         v \in planned' <=> v \in planned,
         \A g \in Handler : \/ handler'[g] = handler[g]
                            \/ /\ ~Prepares(handler[g], v) /\ ~Prepares(handler'[g], v)
                               /\ v \in handler'[g].todo => v \in handler[g].todo
  PROVE  OncePrepared(v)'
BY DEF OncePrepared, InsertedOnce, DispatchedOnce, PreparedOnce, CanceledAfter, Unprepared, Waiting

\* ... so that a computation that moves, or a statement, concerns one mission.
LEMMA OncePreparedOthers ==
  ASSUME Typed, \A v \in Wp : OncePrepared(v), NEW w, NEW l, NEW s, Changes(w, l, s) \/ QueueChanges(l, s),
         \A v \in Wp \ {w} : v \in planned' <=> v \in planned,
         \A g \in Handler : \/ handler'[g] = handler[g]
                            \/ /\ handler[g].pc \in PreparePc => handler[g].wp = w
                               /\ handler'[g].pc \in PreparePc => handler'[g].wp = w
                               /\ handler'[g].todo \subseteq handler[g].todo
  PROVE  \A v \in Wp \ {w} : OncePrepared(v)'
<1> SUFFICES ASSUME NEW v \in Wp \ {w} PROVE OncePrepared(v)'
  OBVIOUS
<1>1. \A k \in {"insertion", "dispatched"} : Waiting(k, v)' = Waiting(k, v)
  <2>1. \A k \in {"insertion", "dispatched"} : k \in Kind /\ k # "-" /\ events_queue[MissionEvent(k, v)] \in Nat
    BY KindFacts DEF Kind, HandledMission, Typed, TypeOK
  <2> QED
    BY <2>1 DEF Changes, QueueChanges, Waiting
<1>2. mission'[v] = mission[v]
  BY DEF Changes, QueueChanges
<1> QED
  BY <1>1, <1>2, OncePreparedFrame DEF Prepares

\* The mission a statement concerns, and its events for a preparation.
LEMMA WaitingAfter ==
  ASSUME Typed, NEW w \in Wp, NEW l, NEW s, s # "insertion", Changes(w, l, s)
  PROVE  /\ Waiting("insertion", w) \in Nat /\ Waiting("dispatched", w) \in Nat
         /\ Waiting("insertion", w)' = Waiting("insertion", w) - (IF l = "insertion" THEN 1 ELSE 0)
         /\ Waiting("dispatched", w)' = Waiting("dispatched", w) - (IF l = "dispatched" THEN 1 ELSE 0)
                                          + (IF s = "dispatched" /\ s # mission[w] THEN 1 ELSE 0)
         /\ mission'[w] = IF s # "-" THEN s ELSE mission[w]
<1>1. \A k \in {"insertion", "dispatched"} : k \in Kind /\ k # "-" /\ events_queue[MissionEvent(k, w)] \in Nat
  BY KindFacts DEF Kind, HandledMission, Typed, TypeOK
<1>3. mission'[w] = IF s # "-" THEN s ELSE mission[w]
  BY DEF Changes
<1>4. \A k \in {"insertion", "dispatched"} :
        events_queue'[MissionEvent(k, w)] = events_queue[MissionEvent(k, w)] - (IF k = l THEN 1 ELSE 0)
                                              + (IF k = s /\ s # mission[w] THEN 1 ELSE 0)
  BY <1>1 DEF Changes
<1> QED
  BY <1>1, <1>3, <1>4 DEF Waiting

\* ... the same when no preparation is begun or asked for.
LEMMA WaitingKept ==
  ASSUME Typed, NEW w \in Wp, NEW l, l \notin {"insertion", "dispatched"},
         NEW s, s \notin {"insertion", "dispatched"}, Changes(w, l, s)
  PROVE  /\ Waiting("insertion", w)' = Waiting("insertion", w)
         /\ Waiting("dispatched", w)' = Waiting("dispatched", w)
         /\ mission'[w] = IF s # "-" THEN s ELSE mission[w]
BY WaitingAfter

\* A mission that nobody prepares or is to prepare.
LEMMA NobodyPrepares ==
  ASSUME NEW w \in Wp, mission'[w] # "draft", Waiting("insertion", w)' = 0, Waiting("dispatched", w)' = 0,
         Unprepared(w)'
  PROVE  OncePrepared(w)'
<1>1. InsertedOnce(w)' /\ DispatchedOnce(w)'
  BY DEF InsertedOnce, DispatchedOnce, Waiting
<1>2. PreparedOnce(w)' /\ CanceledAfter(w)'
  BY DEF PreparedOnce, CanceledAfter, Unprepared
<1> QED
  BY <1>1, <1>2 DEF OncePrepared

\* A mission that one computation prepares.
LEMMA OnePrepares ==
  ASSUME NEW w \in Wp, NEW h \in Handler, mission'[w] \notin Startable,
         Waiting("insertion", w)' = 0, Waiting("dispatched", w)' = 0,
         \A g \in Handler : (Prepares(handler'[g], w) => g = h) /\ w \notin handler'[g].todo,
         handler'[h].pc \notin {"failPlanning", "markCalculating"} => w \notin planned',
         handler'[h].pc = "settings" => w \in WithSettings,
         w \in WithSettings /\ handler'[h].pc \in {"prepare", "settings"} =>
           mission'[w] \in {"dispatched", Preparing}
  PROVE  OncePrepared(w)'
<1>1. InsertedOnce(w)' /\ DispatchedOnce(w)'
  BY DEF InsertedOnce, DispatchedOnce, Waiting
<1>2. PreparedOnce(w)'
  BY DEF PreparedOnce
<1>3. CanceledAfter(w)'
  BY DEF CanceledAfter
<1> QED
  BY <1>1, <1>2, <1>3 DEF OncePrepared, Startable

\* What is known of the mission a computation prepares.
LEMMA PreparedFacts ==
  ASSUME NEW w \in Wp, OncePrepared(w), NEW h \in Handler, Prepares(handler[h], w)
  PROVE  /\ Waiting("insertion", w) = 0 /\ Waiting("dispatched", w) = 0 /\ mission[w] \notin Startable
         /\ \A g \in Handler : (Prepares(handler[g], w) => g = h) /\ w \notin handler[g].todo
         /\ handler[h].pc \notin {"failPlanning", "markCalculating"} => w \notin planned
         /\ w \in WithSettings /\ handler[h].pc \in {"prepare", "settings"} =>
              mission[w] \in {"dispatched", Preparing}
<1>1. Waiting("insertion", w) = 0 /\ Waiting("dispatched", w) = 0
  BY DEF OncePrepared, InsertedOnce, DispatchedOnce, Unprepared
<1>2. \A g \in Handler : w \notin handler[g].todo
  BY DEF OncePrepared, CanceledAfter, Unprepared
<1> QED
  BY <1>1, <1>2 DEF OncePrepared, PreparedOnce

\* A preparation that goes on.
LEMMA PreparationMoves ==
  ASSUME Typed, NEW w \in Wp, OncePrepared(w), NEW h \in Handler, Prepares(handler[h], w), NEW t, Moves(h, t), w \notin t.todo,
         NEW s, s \notin {"insertion", "dispatched"} \cup Startable, Changes(w, "-", s),
         t.pc \notin {"failPlanning", "markCalculating"} =>
           handler[h].pc \notin {"failPlanning", "markCalculating"} /\ (w \in planned' => w \in planned),
         t.pc = "settings" => handler[h].pc = "prepare" /\ w \in WithSettings,
         t.pc # "prepare" /\ s \in {"-", Preparing}
  PROVE  OncePrepared(w)'
<1>1. /\ Waiting("insertion", w) = 0 /\ Waiting("dispatched", w) = 0 /\ mission[w] \notin Startable
      /\ \A g \in Handler : (Prepares(handler[g], w) => g = h) /\ w \notin handler[g].todo
      /\ handler[h].pc \notin {"failPlanning", "markCalculating"} => w \notin planned
      /\ w \in WithSettings /\ handler[h].pc \in {"prepare", "settings"} =>
              mission[w] \in {"dispatched", Preparing}
  BY PreparedFacts
<1>2. /\ Waiting("insertion", w)' = Waiting("insertion", w) /\ Waiting("dispatched", w)' = Waiting("dispatched", w)
      /\ mission'[w] = IF s # "-" THEN s ELSE mission[w]
  BY WaitingKept
<1>3. \A g \in Handler : (Prepares(handler'[g], w) => g = h) /\ w \notin handler'[g].todo
  BY <1>1 DEF Moves
<1>4. mission'[w] \notin Startable
  BY <1>1, <1>2
<1>5. handler'[h] = t
  BY DEF Moves
<1>6. handler'[h].pc \notin {"failPlanning", "markCalculating"} => w \notin planned'
  BY <1>1, <1>5
<1>7. w \in WithSettings /\ handler'[h].pc \in {"prepare", "settings"} =>
           mission'[w] \in {"dispatched", Preparing}
  BY <1>1, <1>2, <1>5
<1>8. Waiting("insertion", w)' = 0 /\ Waiting("dispatched", w)' = 0
  BY <1>1, <1>2
<1>9. handler'[h].pc = "settings" => w \in WithSettings
  BY <1>5
<1> QED
  BY <1>3, <1>4, <1>6, <1>7, <1>8, <1>9, OnePrepares

\* A preparation that is over.
LEMMA PreparationEnds ==
  ASSUME Typed, NEW w \in Wp, OncePrepared(w), NEW h \in Handler, Prepares(handler[h], w), Moves(h, Idle),
         NEW s, s \notin {"insertion", "dispatched", "draft"}, Changes(w, "-", s)
  PROVE  OncePrepared(w)'
<1>1. /\ Waiting("insertion", w) = 0 /\ Waiting("dispatched", w) = 0 /\ mission[w] \notin Startable
      /\ \A g \in Handler : Prepares(handler[g], w) => g = h
  BY PreparedFacts
<1>2. /\ Waiting("insertion", w)' = Waiting("insertion", w) /\ Waiting("dispatched", w)' = Waiting("dispatched", w)
      /\ mission'[w] = IF s # "-" THEN s ELSE mission[w]
  BY WaitingKept
<1>3. Unprepared(w)'
  BY <1>1, IdleTask DEF Unprepared, Moves, Prepares, PreparePc
<1>4. mission'[w] # "draft"
  BY <1>1, <1>2 DEF Startable
<1>5. Waiting("insertion", w)' = 0 /\ Waiting("dispatched", w)' = 0
  BY <1>1, <1>2
<1> QED
  BY <1>3, <1>4, <1>5, NobodyPrepares

\* Every step keeps it.
LEMMA OncePreparedStep ==
  ASSUME CancelAssumption, Typed, EndsGone, StartersDraft, \A v \in Wp : OncePrepared(v), Next
  PROVE  \A v \in Wp : OncePrepared(v)'
<1>1. ASSUME NEW w \in Wp, UserCancels(w) PROVE OncePrepared(w)'
  <2>1. Changes(w, "-", "canceling") /\ UNCHANGED <<handler, planned>> /\ mission[w] \in Cancelable
        /\ (Waiting("insertion", w) = 1 => Direct # {})
    BY <1>1, UserCancelsStep DEF Typed, Placed, Waiting
  <2>2. /\ Waiting("insertion", w)' = Waiting("insertion", w) /\ Waiting("dispatched", w)' = Waiting("dispatched", w)
        /\ mission'[w] = "canceling"
    BY <2>1, WaitingKept
  <2> QED
    BY <2>1, <2>2 DEF OncePrepared, InsertedOnce, DispatchedOnce, PreparedOnce, CanceledAfter, Unprepared, CancelAssumption, Startable
<1>2. ASSUME NEW w \in Wp, PipelineExecutes(w) PROVE OncePrepared(w)'
  <2>1. Changes(w, "-", "executing") /\ UNCHANGED <<handler, planned>> /\ mission[w] = "calculating"
    BY <1>2, PipelineExecutesStep
  <2>2. /\ Waiting("insertion", w)' = Waiting("insertion", w) /\ Waiting("dispatched", w)' = Waiting("dispatched", w)
        /\ mission'[w] = "executing"
    BY <2>1, WaitingKept
  <2> QED
    BY <2>1, <2>2 DEF OncePrepared, InsertedOnce, DispatchedOnce, PreparedOnce, CanceledAfter, Unprepared, Startable
<1>3. ASSUME NEW w \in Wp, PipelineFails(w) PROVE OncePrepared(w)'
  <2>1. PICK s \in {"assignment_failed", "planning_failed"} : Changes(w, "-", s)
    BY <1>3, PipelineFailsStep
  <2>2. UNCHANGED <<handler, planned>> /\ w \in planned
    BY <1>3, PipelineFailsStep
  <2>3. /\ Waiting("insertion", w)' = Waiting("insertion", w) /\ Waiting("dispatched", w)' = Waiting("dispatched", w)
        /\ mission'[w] = s
    BY <2>1, WaitingKept
  <2> QED
    BY <2>2, <2>3 DEF OncePrepared, InsertedOnce, DispatchedOnce, PreparedOnce, CanceledAfter, Unprepared, Startable
<1>4. ASSUME NEW w \in Wp, PipelineCompletes(w) PROVE OncePrepared(w)'
  <2>1. Changes(w, "-", "assignments_completed") /\ UNCHANGED <<handler, planned>> /\ w \in planned
    BY <1>4, PipelineCompletesStep
  <2>2. /\ Waiting("insertion", w)' = Waiting("insertion", w) /\ Waiting("dispatched", w)' = Waiting("dispatched", w)
        /\ mission'[w] = "assignments_completed"
    BY <2>1, WaitingKept
  <2> QED
    BY <2>1, <2>2 DEF OncePrepared, InsertedOnce, DispatchedOnce, PreparedOnce, CanceledAfter, Unprepared, Startable
<1>5. ASSUME NEW h \in Handler, StartNext(h), NEW w, w = handler[h].wp PROVE OncePrepared(w)'
  <2>1. Changes(w, "-", "dispatched") /\ UNCHANGED planned /\ w \in Wp /\ mission[w] = "draft" /\ Moves(h, Idle)
    BY <1>5, StartNextStep, QueueFacts DEF StartersDraft
  <2>2. /\ Waiting("insertion", w)' = Waiting("insertion", w)
        /\ Waiting("dispatched", w)' = Waiting("dispatched", w) + 1 /\ mission'[w] = "dispatched"
    BY <2>1, WaitingAfter
  <2>3. Waiting("insertion", w) = 0 /\ Waiting("dispatched", w) = 0 /\ w \notin planned
        /\ \A g \in Handler : ~Prepares(handler[g], w) /\ w \notin handler[g].todo
    BY <2>1 DEF OncePrepared, InsertedOnce, DispatchedOnce, PreparedOnce, CanceledAfter, Unprepared, Startable
  <2>4. \A g \in Handler : ~Prepares(handler'[g], w) /\ w \notin handler'[g].todo
    BY <2>1, <2>3, IdleTask DEF Moves, Prepares, PreparePc
  <2>5. /\ w \notin planned' /\ Waiting("insertion", w)' = 0 /\ Waiting("dispatched", w)' = 1
        /\ mission'[w] = "dispatched"
    BY <2>1, <2>2, <2>3
  <2> QED
    BY <2>4, <2>5 DEF OncePrepared, InsertedOnce, DispatchedOnce, PreparedOnce, CanceledAfter, Unprepared, Startable
<1>6. ASSUME NEW h \in Handler, NEW w \in Wp, CancelMission(h, w) PROVE OncePrepared(w)'
  <2>1. /\ Changes(w, "-", "canceling") /\ w \in handler[h].todo /\ w \in Range(Queue)
        /\ handler[h].pc = "cancelMissions"
        /\ Moves(h, Idle) \/ Moves(h, [handler[h] EXCEPT !.todo = handler[h].todo \ {w}])
    BY <1>6, CancelMissionStep DEF Typed, Placed, TaskPlaced
  <2>2. /\ Waiting("insertion", w)' = Waiting("insertion", w) /\ Waiting("dispatched", w)' = Waiting("dispatched", w)
        /\ mission'[w] = "canceling" /\ Waiting("insertion", w) \in Nat
    BY <2>1, WaitingKept, WaitingAfter
  <2>3. ~(Waiting("insertion", w) > 0)
    BY <2>1, QueueAssumption DEF Typed, Placed, Waiting
  <2>4. Waiting("insertion", w) = 0
    BY <2>2, <2>3
  <2>5. Waiting("dispatched", w) = 0 /\ Unprepared(w)
    BY <2>1 DEF OncePrepared, CanceledAfter
  <2>6. [handler[h] EXCEPT !.todo = handler[h].todo \ {w}].pc = "cancelMissions"
    BY <2>1 DEF Typed, TypeOK, Task
  <2>7. handler'[h].pc \notin PreparePc
    BY <2>1, <2>6, IdleTask DEF Moves, PreparePc
  <2>8. Unprepared(w)'
    BY <2>1, <2>5, <2>7 DEF Moves, Prepares, Unprepared
  <2>9. mission'[w] # "draft" /\ Waiting("insertion", w)' = 0 /\ Waiting("dispatched", w)' = 0
    BY <2>2, <2>4, <2>5
  <2> QED
    BY <2>8, <2>9, NobodyPrepares
<1>7. ASSUME NEW h \in Handler, NEW w \in Wp, HandleInsertion(h, w) PROVE OncePrepared(w)'
  <2>1. /\ Changes(w, "insertion", Preparing) /\ UNCHANGED planned /\ w \in Direct
    BY <1>7, HandleInsertionStep
  <2>m. Moves(h, At("prepare", w, "-"))
    BY <1>7, HandleInsertionStep
  <2>2. Waiting("insertion", w) > 0
    BY <1>7, HandleInsertionStep DEF Waiting
  <2>3. Waiting("insertion", w) \in {0, 1}
    BY DEF OncePrepared, InsertedOnce
  <2>4. Waiting("insertion", w) = 1
    BY <2>2, <2>3
  <2>5. Waiting("dispatched", w) = 0 /\ w \notin planned /\ Unprepared(w)
    BY <2>4 DEF OncePrepared, InsertedOnce
  <2>6. Changes(w, "insertion", Preparing)
    BY <2>1
  <2>w. /\ Waiting("insertion", w)' = Waiting("insertion", w) - 1
        /\ Waiting("dispatched", w)' = Waiting("dispatched", w) /\ mission'[w] = Preparing
    BY <2>6, PreparingFacts, WaitingAfter
  <2>7. /\ Waiting("insertion", w)' = 0 /\ Waiting("dispatched", w)' = 0 /\ mission'[w] = Preparing
    BY <2>4, <2>5, <2>w
  <2>8. \A g \in Handler : w \notin handler[g].todo
    BY <2>1, QueueAssumption DEF Typed, Placed, TaskPlaced
  <2>9. handler'[h].pc = "prepare" /\ handler'[h].todo = {} /\ \A g \in Handler \ {h} : handler'[g] = handler[g]
    BY <2>m DEF Moves, At
  <2>10. \A g \in Handler : (Prepares(handler'[g], w) => g = h) /\ w \notin handler'[g].todo
    BY <2>5, <2>8, <2>9 DEF Unprepared
  <2>11. mission'[w] \notin Startable /\ w \notin planned' /\ mission'[w] \in {"dispatched", Preparing}
    BY <2>1, <2>5, <2>7, PreparingFacts DEF Startable
  <2> QED
    BY <2>7, <2>9, <2>10, <2>11, OnePrepares
<1>8. ASSUME NEW h \in Handler, NEW w \in Wp, HandleDispatched(h, w) PROVE OncePrepared(w)'
  <2>1. /\ Changes(w, "dispatched", "-") /\ UNCHANGED planned /\ Moves(h, At("prepare", w, "-"))
    BY <1>8, HandleDispatchedStep
  <2>2. Waiting("dispatched", w) > 0
    BY <1>8, HandleDispatchedStep DEF Waiting
  <2>3. Waiting("dispatched", w) \in {0, 1} /\ Waiting("insertion", w) \in {0, 1}
    BY DEF OncePrepared, DispatchedOnce, InsertedOnce
  <2>4. Waiting("dispatched", w) = 1
    BY <2>2, <2>3
  <2>5. /\ mission[w] \notin Startable /\ w \notin planned /\ Unprepared(w)
        /\ w \in WithSettings => mission[w] \in {"dispatched", Preparing}
    BY <2>4 DEF OncePrepared, DispatchedOnce
  <2>6. Waiting("insertion", w) = 0 /\ \A g \in Handler : w \notin handler[g].todo
    BY <2>3, <2>4 DEF OncePrepared, InsertedOnce, CanceledAfter
  <2>7. Changes(w, "dispatched", "-")
    BY <2>1
  <2>8. /\ Waiting("insertion", w)' = 0 /\ Waiting("dispatched", w)' = 0 /\ mission'[w] = mission[w]
    BY <2>4, <2>6, <2>7, WaitingAfter
  <2>9. handler'[h].pc = "prepare" /\ handler'[h].todo = {} /\ \A g \in Handler \ {h} : handler'[g] = handler[g]
    BY <2>1 DEF Moves, At
  <2>10. \A g \in Handler : (Prepares(handler'[g], w) => g = h) /\ w \notin handler'[g].todo
    BY <2>5, <2>6, <2>9 DEF Unprepared
  <2>11. mission'[w] \notin Startable /\ w \notin planned' /\ (w \in WithSettings => mission'[w] \in {"dispatched", Preparing})
    BY <2>1, <2>5, <2>8
  <2> QED
    BY <2>8, <2>9, <2>10, <2>11, OnePrepares
<1>9. ASSUME NEW h \in Handler, NEW w \in Wp, HandleCanceling(h, w) \/ HandleFailure(h, w) \/ HandleCompleted(h, w)
      PROVE  OncePrepared(w)'
  <2>2. PICK l \in {"canceling", "assignment_failed", "planning_failed", "assignments_completed"}, s \in {"-", "canceled", "failed"} :
          Changes(w, l, s) /\ events_queue[MissionEvent(l, w)] > 0
    BY <1>9, HandleCancelingStep, HandleFailureStep, HandleCompletedStep
  <2>3. UNCHANGED planned /\ handler[h].pc = "idle"
        /\ \E pc \in {"cleanUp", "endMission"} : \E val : Moves(h, At(pc, w, val))
    BY <1>9, HandleCancelingStep, HandleFailureStep, HandleCompletedStep
  <2>4. Changes(w, l, s)
    BY <2>2
  <2>5. /\ Waiting("insertion", w)' = Waiting("insertion", w) /\ Waiting("dispatched", w)' = Waiting("dispatched", w)
        /\ mission'[w] = IF s # "-" THEN s ELSE mission[w]
    BY <2>4, WaitingKept
  <2>6. mission[w] \notin Alive
    BY <2>2 DEF EndsGone, Gone, HandledMission
  <2>7. \A g \in Handler : handler'[g] = handler[g] \/ (~Prepares(handler'[g], w) /\ handler'[g].todo = {})
    BY <2>3 DEF Moves, At, Prepares, PreparePc
  <2>8. mission[w] \notin Startable \cup {"dispatched", Preparing}
    BY <2>6 DEF Alive, Startable
  <2>9. Waiting("insertion", w) \in {0, 1} /\ Waiting("insertion", w) # 1
    BY <2>8 DEF OncePrepared, InsertedOnce
  <2>10. mission'[w] \notin Startable
    BY <2>5, <2>8 DEF Startable
  <2>11. \A g \in Handler : handler[g].pc = "idle" => ~Prepares(handler[g], w)
    BY DEF Prepares, PreparePc
  <2> QED
    BY <2>3, <2>5, <2>7, <2>8, <2>9, <2>10, <2>11
    DEF OncePrepared, InsertedOnce, DispatchedOnce, PreparedOnce, CanceledAfter, Unprepared, Startable
<1>10. ASSUME NEW h \in Handler, PrepareSteps(h) \/ WaitTimesOut(h), NEW w, w = handler[h].wp PROVE w \in Wp /\ OncePrepared(w)'
  <2>1. Prepares(handler[h], w) /\ w \in Wp
    BY <1>10, PrepareStep, WriteSettingsStep, AgentsAreFreeStep, SendGetReadyStep, ReadAgentsStep, DecideReadyStep, WaitTimesOutStep,
     FailPreparationStep, CreateRequestsStep, FailPlanningStep, MarkCalculatingStep DEF PrepareSteps, Prepares, PreparePc
  <2>a. \A pc, val : At(pc, w, val).pc = pc /\ At(pc, w, val).todo = {}
    BY DEF At
  <2>f. FirstWait(w).pc \in {"createRequests", "waitFree"} /\ FirstWait(w).todo = {}
    BY <2>1, FirstWaitFacts
  <2>g. PrepareSteps(h) \/ WaitTimesOut(h)
    BY <1>10
  <2>w. w = handler[h].wp
    BY <1>10
  <2>2. CASE Prepare(h)
    BY <2>1, <2>2, <2>a, <2>f, <2>w, PrepareStep, PreparationMoves DEF Startable
  <2>3. CASE WriteSettings(h)
    BY <2>1, <2>3, <2>f, <2>w, WriteSettingsStep, PreparingFacts, PreparationMoves DEF Startable
  <2>4. CASE AgentsAreFree(h) \/ SendGetReady(h) \/ ReadAgents(h) \/ DecideReady(h) \/ WaitTimesOut(h)
    <3>1. /\ Changes(w, "-", "-") /\ UNCHANGED planned /\ handler[h].pc \in {"waitFree", "reserve", "waitReady", "decideReady"}
          /\ \E pc \in {"reserve", "waitReady", "decideReady", "failPreparation", "createRequests"} : \E val : Moves(h, At(pc, w, val))
      BY <2>4, <2>w, AgentsAreFreeStep, SendGetReadyStep, ReadAgentsStep, DecideReadyStep, WaitTimesOutStep
    <3> QED
      BY <2>1, <2>a, <3>1, PreparationMoves DEF Startable
  <2>5. CASE FailPreparation(h) \/ FailPlanning(h)
    BY <2>1, <2>5, <2>w, FailPreparationStep, FailPlanningStep, PreparationEnds
  <2>6. CASE CreateRequests(h)
    <3>1. /\ Changes(w, "-", "-") /\ \E pc \in {"failPlanning", "markCalculating"} : Moves(h, At(pc, w, "-"))
      BY <2>6, <2>w, CreateRequestsStep
    <3> QED
      BY <2>1, <2>a, <3>1, PreparationMoves DEF Startable
  <2>7. CASE MarkCalculating(h)
    BY <2>1, <2>7, <2>w, MarkCalculatingStep, PreparationEnds
  <2> QED
    BY <2>1, <2>2, <2>3, <2>4, <2>5, <2>6, <2>7, <2>g DEF PrepareSteps
<1>11. ASSUME NEW h \in Handler, EndSteps(h), NEW w, w = handler[h].wp PROVE w \in Wp /\ OncePrepared(w)'
  <2>1. w \in Wp /\ handler[h].pc \in EndPc /\ (w \in planned' => w \in planned)
    BY <1>11, EndMissionStep, CleanUpStep, ReadEndedStep, ReleaseStep, SelectNextStep DEF EndSteps, EndPc
  <2>2. mission[w] \notin Alive
    BY <1>11, <2>1 DEF EndsGone, Gone
  <2>3. mission[w] \notin Startable \cup {"dispatched", Preparing}
    BY <2>2 DEF Alive, Startable
  <2>4. \E s \in {"-"} \cup EndStatus : Changes(w, "-", s)
    BY <1>11, EndMissionStep, CleanUpStep, ReadEndedStep, ReleaseStep, SelectNextStep DEF EndSteps
  <2>5. /\ Waiting("insertion", w)' = Waiting("insertion", w) /\ Waiting("dispatched", w)' = Waiting("dispatched", w)
        /\ mission'[w] \notin Startable
    BY <2>1, <2>3, <2>4, WaitingKept DEF EndStatus, Startable
  <2>6. \A g \in Handler : handler'[g] = handler[g] \/ (~Prepares(handler'[g], w) /\ handler'[g].todo = {})
    <3>1. \E t : Moves(h, t) /\ t.pc \notin PreparePc /\ t.todo = {}
      <4>1. \A pc \in {"readEnded", "release", "selectNext", "stopQueue", "startNext"} : \A v, val :
              At(pc, v, val).pc \notin PreparePc /\ At(pc, v, val).todo = {}
        BY DEF At, PreparePc
      <4>2. Idle.pc \notin PreparePc /\ Idle.todo = {}
        BY IdleTask DEF PreparePc
      <4> QED
        BY <1>11, <4>1, <4>2, EndMissionStep, CleanUpStep, ReadEndedStep, ReleaseStep, SelectNextStep DEF EndSteps
    <3> QED
      BY <3>1 DEF Moves, Prepares
  <2>7. \A g \in Handler : handler[g].pc \in EndPc => ~Prepares(handler[g], w)
    BY DEF Prepares, PreparePc, EndPc
  <2>8. Waiting("insertion", w) \in {0, 1} /\ Waiting("insertion", w) # 1
    BY <2>1, <2>3 DEF OncePrepared, InsertedOnce
  <2> QED
    BY <2>1, <2>3, <2>5, <2>6, <2>7, <2>8
    DEF OncePrepared, InsertedOnce, DispatchedOnce, PreparedOnce, CanceledAfter, Unprepared, Startable
<1>12. ASSUME NEW h \in Handler, HandleRun(h) \/ HandleQueueCancel(h) \/ SetRunning(h) \/ StopQueue(h), NEW v \in Wp
       PROVE  OncePrepared(v)'
  <2>1. \A k, t : QueueChanges(k, "-") /\ UNCHANGED planned /\ Moves(h, t) /\ handler[h].pc \notin PreparePc
                    /\ t.pc \notin PreparePc /\ t.todo \subseteq handler[h].todo => OncePrepared(v)'
    <3> SUFFICES ASSUME NEW k, NEW t, QueueChanges(k, "-"), UNCHANGED planned, Moves(h, t), handler[h].pc \notin PreparePc,
                        t.pc \notin PreparePc, t.todo \subseteq handler[h].todo
                 PROVE  OncePrepared(v)'
      OBVIOUS
    <3>1. mission'[v] = mission[v] /\ \A j \in {"insertion", "dispatched"} : Waiting(j, v)' = Waiting(j, v)
      BY KindFacts DEF QueueChanges, Waiting, Kind, HandledMission
    <3>2. \A g \in Handler : \/ handler'[g] = handler[g]
                             \/ /\ ~Prepares(handler[g], v) /\ ~Prepares(handler'[g], v)
                                /\ v \in handler'[g].todo => v \in handler[g].todo
      BY DEF Moves, Prepares
    <3> QED
      BY <3>1, <3>2, OncePreparedFrame
  <2>2. \A pc, w : At(pc, w, "-").pc = pc /\ At(pc, w, "-").todo = {}
    BY DEF At
  <2>3. {"idle", "setRunning", "startNext", "stopQueue", "cancelMissions"} \cap PreparePc = {} /\ Idle.pc = "idle" /\ Idle.todo = {}
    BY IdleTask DEF PreparePc
  <2>4. CASE HandleRun(h) \/ SetRunning(h)
    BY <2>1, <2>2, <2>3, <2>4, HandleRunStep, SetRunningStep
  <2>5. CASE StopQueue(h)
    <3>1. /\ [handler[h] EXCEPT !.pc = "cancelMissions"].pc = "cancelMissions"
          /\ [handler[h] EXCEPT !.pc = "cancelMissions"].todo = handler[h].todo
      BY DEF Typed, TypeOK, Task
    <3> QED
      BY <2>1, <2>3, <2>5, <3>1, StopQueueStep
  <2>6. CASE HandleQueueCancel(h)
    <3>1. CASE Moves(h, Idle)
      BY <2>1, <2>3, <2>6, <3>1, HandleQueueCancelStep
    <3>2. ASSUME NEW T \in SUBSET Range(Queue), Moves(h, [At("stopQueue", NoWp, "-") EXCEPT !.todo = T]),
                 \A w \in T : mission[w] = "executing"
          PROVE  OncePrepared(v)'
      <4> DEFINE t == [At("stopQueue", NoWp, "-") EXCEPT !.todo = T]
      <4>1. t.pc = "stopQueue" /\ t.todo = T /\ t.wp = NoWp
        BY DEF At
      <4>2. Moves(h, t) /\ handler[h].pc = "idle" /\ UNCHANGED planned /\ QueueChanges("cancel", "-")
        BY <2>6, <3>2, HandleQueueCancelStep
      <4> HIDE DEF t
      <4>3. mission'[v] = mission[v] /\ \A j \in {"insertion", "dispatched"} : Waiting(j, v)' = Waiting(j, v)
        BY <4>2, KindFacts DEF QueueChanges, Waiting, Kind, HandledMission
      <4>4. \A g \in Handler : /\ Prepares(handler'[g], v) <=> Prepares(handler[g], v)
                               /\ Prepares(handler[g], v) => handler'[g] = handler[g]
        BY <2>3, <4>1, <4>2 DEF Moves, Prepares
      <4>5. mission[v] = "executing" => Waiting("dispatched", v) = 0 /\ Unprepared(v)
        BY DEF OncePrepared, DispatchedOnce, PreparedOnce, Unprepared, Startable
      <4>6. \A g \in Handler : v \in handler'[g].todo => v \in handler[g].todo \/ mission[v] = "executing"
        BY <3>2, <4>1, <4>2 DEF Moves
      <4>7. CanceledAfter(v)'
        BY <4>3, <4>4, <4>5, <4>6 DEF OncePrepared, CanceledAfter, Unprepared
      <4>8. InsertedOnce(v)' /\ DispatchedOnce(v)'
        BY <4>2, <4>3, <4>4 DEF OncePrepared, InsertedOnce, DispatchedOnce, Unprepared
      <4>9. PreparedOnce(v)'
        BY <4>2, <4>3, <4>4 DEF OncePrepared, PreparedOnce
      <4> QED
        BY <4>2, <4>3, <4>7, <4>8, <4>9 DEF OncePrepared
    <3> QED
      BY <2>6, <3>1, <3>2, HandleQueueCancelStep
  <2> QED
    BY <1>12, <2>4, <2>5, <2>6
<1>13. ASSUME UserRuns \/ UserCancelsQueue, NEW v \in Wp PROVE OncePrepared(v)'
  <2>1. /\ \E s : QueueChanges("-", s)
        /\ UNCHANGED <<handler, planned>>
    BY <1>13, UserRunsStep, UserCancelsQueueStep
  <2>2. mission'[v] = mission[v] /\ \A j \in {"insertion", "dispatched"} : Waiting(j, v)' = Waiting(j, v)
    BY <2>1, KindFacts DEF QueueChanges, Waiting, Kind, HandledMission
  <2> QED
    BY <2>1, <2>2, OncePreparedFrame
<1>15. ASSUME NEW w \in Wp, NEW l, NEW s, Changes(w, l, s), UNCHANGED <<handler, planned>>, OncePrepared(w)'
       PROVE  \A v \in Wp : OncePrepared(v)'
  BY <1>15, OncePreparedOthers
<1>16. ASSUME NEW w \in Wp, NEW l, NEW s, Changes(w, l, s), \A v \in Wp \ {w} : v \in planned' <=> v \in planned,
              OncePrepared(w)',
              NEW h \in Handler, NEW t, Moves(h, t), handler[h].pc \in PreparePc => handler[h].wp = w,
              t.pc \in PreparePc => t.wp = w, t.todo \subseteq handler[h].todo
       PROVE  \A v \in Wp : OncePrepared(v)'
  <2>1. \A g \in Handler : \/ handler'[g] = handler[g]
                           \/ /\ handler[g].pc \in PreparePc => handler[g].wp = w
                              /\ handler'[g].pc \in PreparePc => handler'[g].wp = w
                              /\ handler'[g].todo \subseteq handler[g].todo
    BY <1>16 DEF Moves
  <2> QED
    BY <1>16, <2>1, OncePreparedOthers
<1>17. {"idle", "startNext", "cancelMissions"} \cap PreparePc = {} /\ Idle.pc = "idle" /\ Idle.todo = {}
  BY IdleTask DEF PreparePc
<1>18. \A pc, w, val : At(pc, w, val).pc = pc /\ At(pc, w, val).wp = w /\ At(pc, w, val).todo = {}
  BY DEF At
<1>19. ASSUME NEW w \in Wp, UserCancels(w) \/ PipelineExecutes(w) \/ PipelineFails(w) \/ PipelineCompletes(w)
       PROVE  \A v \in Wp : OncePrepared(v)'
  BY <1>1, <1>2, <1>3, <1>4, <1>15, <1>19, UserCancelsStep, PipelineExecutesStep, PipelineFailsStep, PipelineCompletesStep
<1>20. ASSUME NEW h \in Handler, StartNext(h) PROVE \A v \in Wp : OncePrepared(v)'
  <2>1. PICK w \in Wp : w = handler[h].wp
    BY <1>20, StartNextStep, QueueFacts
  <2>2. OncePrepared(w)'
    BY <1>5, <1>20, <2>1
  <2> QED
    BY <1>16, <1>17, <1>20, <2>1, <2>2, StartNextStep
<1>21. ASSUME NEW h \in Handler, NEW w \in Wp, CancelMission(h, w) PROVE \A v \in Wp : OncePrepared(v)'
  <2>1. OncePrepared(w)'
    BY <1>6, <1>21
  <2>2. /\ [handler[h] EXCEPT !.todo = handler[h].todo \ {w}].pc = handler[h].pc
        /\ [handler[h] EXCEPT !.todo = handler[h].todo \ {w}].todo \subseteq handler[h].todo
    BY DEF Typed, TypeOK, Task
  <2> QED
    BY <1>16, <1>17, <1>21, <2>1, <2>2, CancelMissionStep
<1>22. ASSUME NEW h \in Handler, NEW w \in Wp,
              \/ HandleInsertion(h, w) \/ HandleDispatched(h, w) \/ HandleCanceling(h, w)
              \/ HandleFailure(h, w) \/ HandleCompleted(h, w)
       PROVE  \A v \in Wp : OncePrepared(v)'
  <2>1. OncePrepared(w)'
    BY <1>7, <1>8, <1>9, <1>22
  <2>2. /\ UNCHANGED planned /\ handler[h].pc = "idle" /\ \E pc, val : Moves(h, At(pc, w, val))
        /\ \E l, s : Changes(w, l, s)
    BY <1>22, HandleInsertionStep, HandleDispatchedStep, HandleCancelingStep, HandleFailureStep, HandleCompletedStep
  <2> QED
    BY <1>16, <1>17, <1>18, <2>1, <2>2
<1>23. ASSUME NEW h \in Handler, PrepareSteps(h) \/ WaitTimesOut(h) PROVE \A v \in Wp : OncePrepared(v)'
  <2>1. PICK w \in Wp : w = handler[h].wp
    BY <1>10, <1>23
  <2>2. OncePrepared(w)'
    BY <1>10, <1>23, <2>1
  <2>3. FirstWait(w).wp = w /\ FirstWait(w).todo = {}
    BY FirstWaitFacts
  <2>4. /\ \A v \in Wp \ {w} : v \in planned' <=> v \in planned
        /\ \E l, s : Changes(w, l, s)
    BY <1>23, <2>1, PrepareStep, WriteSettingsStep, AgentsAreFreeStep, SendGetReadyStep, ReadAgentsStep, DecideReadyStep,
       WaitTimesOutStep, FailPreparationStep, CreateRequestsStep, FailPlanningStep, MarkCalculatingStep DEF PrepareSteps
  <2>5. \E t : /\ Moves(h, t) /\ (t.pc \in PreparePc => t.wp = w) /\ t.todo \subseteq handler[h].todo
    BY <1>17, <1>18, <1>23, <2>1, <2>3, PrepareStep, WriteSettingsStep, AgentsAreFreeStep, SendGetReadyStep, ReadAgentsStep, DecideReadyStep,
       WaitTimesOutStep, FailPreparationStep, CreateRequestsStep, FailPlanningStep, MarkCalculatingStep DEF PrepareSteps
  <2> QED
    BY <1>16, <2>1, <2>2, <2>4, <2>5
<1>24. ASSUME NEW h \in Handler, EndSteps(h) PROVE \A v \in Wp : OncePrepared(v)'
  <2>1. PICK w \in Wp : w = handler[h].wp
    BY <1>11, <1>24
  <2>2. OncePrepared(w)'
    BY <1>11, <1>24, <2>1
  <2>3. /\ \A v \in Wp \ {w} : v \in planned' <=> v \in planned
        /\ \E l, s : Changes(w, l, s)
    BY <1>24, <2>1, EndMissionStep, CleanUpStep, ReadEndedStep, ReleaseStep, SelectNextStep DEF EndSteps
  <2>4. handler[h].pc \notin PreparePc
    BY <1>24, EndMissionStep, CleanUpStep, ReadEndedStep, ReleaseStep, SelectNextStep DEF EndSteps, PreparePc
  <2>5. {"readEnded", "release", "selectNext", "stopQueue", "startNext"} \cap PreparePc = {}
    BY DEF PreparePc
  <2>6. \E t : Moves(h, t) /\ t.pc \notin PreparePc /\ t.todo = {}
    BY <1>17, <1>18, <1>24, <2>5, EndMissionStep, CleanUpStep, ReadEndedStep, ReleaseStep, SelectNextStep DEF EndSteps
  <2> QED
    BY <1>16, <2>1, <2>2, <2>3, <2>4, <2>6
<1>25. ASSUME NEW a \in Agent, AgentActs(a) PROVE \A v \in Wp : OncePrepared(v)'
  <2>1. UNCHANGED <<mission, events_queue, handler, planned>>
    BY <1>25, AgentActsStep
  <2> QED
    BY <2>1, OncePreparedFrame DEF Waiting
<1> QED
  BY <1>12, <1>13, <1>19, <1>20, <1>21, <1>22, <1>23, <1>24, <1>25 DEF Next, Handle, Continue, QueueSteps

\* A mission is revived by no step: an insertion finds it dispatched, a queue
\* finds it a draft, settings find it dispatched or preparing.
LEMMA NothingRevivedStep ==
  ASSUME Typed, StartersDraft, \A v \in Wp : OncePrepared(v), [Next]_vars
  PROVE  NothingRevived
<1> SUFFICES ASSUME NEW v \in Wp, Gone(v), ~Gone(v)' PROVE FALSE
  BY DEF NothingRevived
<1>1. mission'[v] # mission[v] /\ mission'[v] \in Alive
  BY DEF Gone
<1>2. \A w, l, s : Changes(w, l, s) => v = w /\ s = mission'[v] /\ s # "-"
  BY <1>1 DEF Changes
<1>3. \A l, s : ~QueueChanges(l, s)
  BY <1>1 DEF QueueChanges
<1>4. Alive = {"draft", "dispatched", Preparing, "calculating", "executing"}
  BY DEF Alive
<1>a. \A w, s : Changes(w, "-", s) => s \in Alive
  BY <1>1, <1>2
<1>5. ASSUME NEW w \in Wp, UserCancels(w) \/ PipelineExecutes(w) \/ PipelineFails(w) \/ PipelineCompletes(w) PROVE FALSE
  BY <1>1, <1>2, <1>4, <1>5, PreparingFacts, UserCancelsStep, PipelineExecutesStep, PipelineFailsStep, PipelineCompletesStep DEF Gone
<1>6. ASSUME NEW h \in Handler, StartNext(h) PROVE FALSE
  BY <1>2, <1>4, <1>6, StartNextStep DEF StartersDraft, Gone
<1>7. ASSUME NEW h \in Handler, NEW w \in Wp, CancelMission(h, w) PROVE FALSE
  <2>1. Changes(w, "-", "canceling")
    BY <1>7, CancelMissionStep
  <2> QED
    BY <1>a, <1>4, <2>1, PreparingFacts
<1>8. ASSUME NEW h \in Handler, NEW w \in Wp, HandleInsertion(h, w) PROVE FALSE
  <2>1. w = v /\ Waiting("insertion", w) > 0
    BY <1>2, <1>8, HandleInsertionStep DEF Waiting
  <2>2. Waiting("insertion", w) \in {0, 1}
    BY DEF OncePrepared, InsertedOnce
  <2>3. Waiting("insertion", w) = 1
    BY <2>1, <2>2
  <2> QED
    BY <1>4, <2>1, <2>3 DEF OncePrepared, InsertedOnce, Gone
<1>9. ASSUME NEW h \in Handler, NEW w \in Wp,
             HandleDispatched(h, w) \/ HandleCanceling(h, w) \/ HandleFailure(h, w) \/ HandleCompleted(h, w)
      PROVE  FALSE
  BY <1>1, <1>2, <1>4, <1>9, PreparingFacts, HandleDispatchedStep, HandleCancelingStep, HandleFailureStep, HandleCompletedStep
<1>10. ASSUME NEW h \in Handler, PrepareSteps(h) \/ WaitTimesOut(h) PROVE FALSE
  <2>1. CASE WriteSettings(h)
    <3>1. v = handler[h].wp /\ handler[h].pc = "settings"
      BY <1>2, <2>1, WriteSettingsStep
    <3>2. Prepares(handler[h], v)
      BY <3>1 DEF Prepares, PreparePc
    <3> QED
      BY <1>4, <2>1, <3>1, <3>2, WriteSettingsStep DEF OncePrepared, PreparedOnce, Gone
  <2>2. CASE FailPreparation(h) \/ FailPlanning(h)
    BY <1>1, <1>2, <1>4, <2>2, PreparingFacts, FailPreparationStep, FailPlanningStep
  <2>3. CASE MarkCalculating(h)
    BY <1>1, <1>2, <1>4, <2>3, MarkCalculatingStep DEF Gone
  <2> QED
    BY <1>2, <1>10, <2>1, <2>2, <2>3, PrepareStep, AgentsAreFreeStep, SendGetReadyStep, ReadAgentsStep, DecideReadyStep,
       WaitTimesOutStep, CreateRequestsStep DEF PrepareSteps
<1>11. ASSUME NEW h \in Handler, EndSteps(h) PROVE FALSE
  <2>1. EndStatus \cap Alive = {}
    BY <1>4, PreparingFacts DEF EndStatus
  <2> QED
    BY <1>1, <1>2, <1>11, <2>1, EndMissionStep, CleanUpStep, ReadEndedStep, ReleaseStep, SelectNextStep DEF EndSteps
<1>12. ASSUME NEW h \in Handler, HandleRun(h) \/ HandleQueueCancel(h) \/ SetRunning(h) \/ StopQueue(h) PROVE FALSE
  BY <1>3, <1>12, HandleRunStep, HandleQueueCancelStep, SetRunningStep, StopQueueStep
<1>13. ~UserRuns /\ ~UserCancelsQueue
  BY <1>3, UserRunsStep, UserCancelsQueueStep
<1>14. \A a \in Agent : ~AgentActs(a)
  BY <1>1, AgentActsStep
<1>15. ~UNCHANGED vars
  BY <1>1 DEF vars
<1> QED
  BY <1>5, <1>6, <1>7, <1>8, <1>9, <1>10, <1>11, <1>12, <1>13, <1>14, <1>15 DEF Next, Handle, Continue, QueueSteps

\* A draft mission becomes another one only when a queue starts it, and none
\* becomes a draft.
LEMMA DraftStarted ==
  ASSUME CancelAssumption, Typed, EndsGone, \A v \in Wp : OncePrepared(v), [Next]_vars, NEW w \in Wp
  PROVE  /\ mission'[w] = "draft" => mission[w] = "draft"
         /\ mission[w] = "draft" /\ mission'[w] # "draft" => \E h \in Handler : StartNext(h) /\ handler[h].wp = w
<1>1. \A v, l, s : Changes(v, l, s) => mission'[w] = mission[w] \/ (v = w /\ mission'[w] = s /\ s # "-")
  BY DEF Changes
<1>2. \A l, s : QueueChanges(l, s) => mission'[w] = mission[w]
  BY DEF QueueChanges
<1>3. mission[w] = "draft" =>
        /\ w \notin planned /\ Unprepared(w) /\ Waiting("insertion", w) # 1
        /\ \A g \in Handler : w \notin handler[g].todo
  BY DEF OncePrepared, InsertedOnce, CanceledAfter, PreparedOnce, Unprepared, Startable
<1>4. ASSUME NEW v \in Wp, UserCancels(v) \/ PipelineExecutes(v) \/ PipelineFails(v) \/ PipelineCompletes(v)
      PROVE  mission'[w] = mission[w] \/ (mission[w] # "draft" /\ mission'[w] # "draft")
  BY <1>1, <1>3, <1>4, UserCancelsStep, PipelineExecutesStep, PipelineFailsStep, PipelineCompletesStep DEF CancelAssumption
<1>5. ASSUME NEW h \in Handler, StartNext(h)
      PROVE  mission'[w] = mission[w] \/ (mission'[w] # "draft" /\ handler[h].wp = w)
  BY <1>1, <1>5, StartNextStep
<1>6. ASSUME NEW h \in Handler, NEW v \in Wp, CancelMission(h, v)
      PROVE  mission'[w] = mission[w] \/ (mission[w] # "draft" /\ mission'[w] # "draft")
  <2>1. Changes(v, "-", "canceling") /\ v \in handler[h].todo
    BY <1>6, CancelMissionStep
  <2> QED
    BY <1>1, <1>3, <2>1
<1>7. ASSUME NEW h \in Handler, NEW v \in Wp, HandleInsertion(h, v)
      PROVE  mission'[w] = mission[w] \/ (mission[w] # "draft" /\ mission'[w] # "draft")
  <2>1. Changes(v, "insertion", Preparing) /\ Waiting("insertion", v) > 0
    BY <1>7, HandleInsertionStep DEF Waiting
  <2>2. Waiting("insertion", v) \in {0, 1}
    BY DEF OncePrepared, InsertedOnce
  <2>3. Waiting("insertion", v) > 0
    BY <2>1
  <2>4. Waiting("insertion", v) = 1
    BY <2>2, <2>3
  <2> QED
    BY <1>1, <1>3, <2>1, <2>4, PreparingFacts
<1>8. ASSUME NEW h \in Handler, NEW v \in Wp,
             HandleDispatched(h, v) \/ HandleCanceling(h, v) \/ HandleFailure(h, v) \/ HandleCompleted(h, v)
      PROVE  mission'[w] = mission[w] \/ (mission[w] # "draft" /\ mission'[w] # "draft")
  BY <1>1, <1>8, HandleDispatchedStep, HandleCancelingStep, HandleFailureStep, HandleCompletedStep
<1>9. ASSUME NEW h \in Handler, PrepareSteps(h) \/ WaitTimesOut(h)
      PROVE  mission'[w] = mission[w] \/ (mission[w] # "draft" /\ mission'[w] # "draft")
  <2>1. handler[h].pc \in PreparePc
    BY <1>9, PrepareStep, WriteSettingsStep, AgentsAreFreeStep, SendGetReadyStep, ReadAgentsStep, DecideReadyStep,
       WaitTimesOutStep, FailPreparationStep, CreateRequestsStep, FailPlanningStep, MarkCalculatingStep DEF PrepareSteps, PreparePc
  <2>2. mission[w] = "draft" => handler[h].wp # w
    BY <1>3, <2>1 DEF Unprepared, Prepares
  <2>3. \E s \in {"-", Preparing, "failed", "planning_failed", "calculating"} : Changes(handler[h].wp, "-", s)
    BY <1>9, PrepareStep, WriteSettingsStep, AgentsAreFreeStep, SendGetReadyStep, ReadAgentsStep, DecideReadyStep,
       WaitTimesOutStep, FailPreparationStep, CreateRequestsStep, FailPlanningStep, MarkCalculatingStep DEF PrepareSteps
  <2> QED
    BY <1>1, <2>2, <2>3, PreparingFacts
<1>10. ASSUME NEW h \in Handler, EndSteps(h)
       PROVE  mission'[w] = mission[w] \/ (mission[w] # "draft" /\ mission'[w] # "draft")
  <2>1. handler[h].pc \in EndPc /\ \E s \in {"-"} \cup EndStatus : Changes(handler[h].wp, "-", s)
    BY <1>10, EndMissionStep, CleanUpStep, ReadEndedStep, ReleaseStep, SelectNextStep DEF EndSteps, EndPc
  <2>2. mission[w] = "draft" => handler[h].wp # w
    BY <2>1 DEF EndsGone, Gone, Alive
  <2> QED
    BY <1>1, <2>1, <2>2 DEF EndStatus
<1>11. ASSUME NEW h \in Handler, HandleRun(h) \/ HandleQueueCancel(h) \/ SetRunning(h) \/ StopQueue(h)
       PROVE  mission'[w] = mission[w]
  BY <1>2, <1>11, HandleRunStep, HandleQueueCancelStep, SetRunningStep, StopQueueStep
<1>12. UserRuns \/ UserCancelsQueue \/ (\E a \in Agent : AgentActs(a)) \/ UNCHANGED vars => mission'[w] = mission[w]
  BY <1>2, UserRunsStep, UserCancelsQueueStep, AgentActsStep DEF vars
<1> QED
  BY <1>4, <1>5, <1>6, <1>7, <1>8, <1>9, <1>10, <1>11, <1>12 DEF Next, Handle, Continue, QueueSteps

\* The preparations at the start: the insertions of the direct missions.
LEMMA OncePreparedInit ==
  ASSUME Init
  PROVE  \A v \in Wp : OncePrepared(v)
<1> SUFFICES ASSUME NEW v \in Wp PROVE OncePrepared(v)
  OBVIOUS
<1>1. Waiting("insertion", v) = (IF v \in Direct THEN 1 ELSE 0) /\ Waiting("dispatched", v) = 0
  <2>1. MissionEvent("insertion", v) \in Event /\ MissionEvent("dispatched", v) \in Event
    BY EventFacts DEF HandledMission
  <2>2. \A k : MissionEvent(k, v).kind = k /\ MissionEvent(k, v).wp = v
    BY DEF MissionEvent
  <2> QED
    BY <2>1, <2>2 DEF Init, Waiting
<1>2. Unprepared(v) /\ \A h \in Handler : handler[h].todo = {}
  BY IdleTask DEF Init, Unprepared, Prepares, PreparePc
<1>3. v \in Direct => mission[v] = "dispatched"
  BY DEF Init
<1>4. planned = {}
  BY DEF Init
<1>5. InsertedOnce(v) /\ DispatchedOnce(v)
  BY <1>1, <1>2, <1>3, <1>4 DEF InsertedOnce, DispatchedOnce
<1>6. PreparedOnce(v) /\ CanceledAfter(v)
  BY <1>2 DEF PreparedOnce, CanceledAfter, Unprepared
<1> QED
  BY <1>4, <1>5, <1>6 DEF OncePrepared

----------------------------------------------------------------------------
(* A queue of one mission, or none *)

ShortQueue == Len(Queue) <= 1

RunWaits == events_queue[QueueEvent("run")]
Starter(t) == t.pc \in {"setRunning", "startNext"}

\* As long as the mission is a draft, the queue is run once, and one
\* computation starts it.
StartedOnce ==
  /\ RunWaits \in Nat
  /\ \A w \in Range(Queue) : mission[w] = "draft" =>
       /\ 0 \notin runs => RunWaits = 0 /\ \A h \in Handler : ~Starter(handler[h])
       /\ RunWaits \in {0, 1}
       /\ RunWaits = 1 => \A h \in Handler : ~Starter(handler[h])
       /\ \A g, h \in Handler : Starter(handler[g]) /\ Starter(handler[h]) => g = h

\* The runs that wait, after a step.
LEMMA RunWaitsAfter ==
  ASSUME Typed
  PROVE  /\ RunWaits \in Nat
         /\ \A w, l, s : Changes(w, l, s) => RunWaits' = RunWaits
         /\ \A l, s : QueueChanges(l, s) =>
              RunWaits' = RunWaits - (IF "run" = l THEN 1 ELSE 0) + (IF "run" = s THEN 1 ELSE 0)
<1>1. QueueEvent("run") \in Event /\ "run" \in QueueKind
  BY EventFacts DEF QueueKind
<1>2. RunWaits \in Nat
  BY <1>1 DEF RunWaits, Typed, TypeOK
<1> QED
  BY <1>1, <1>2 DEF Changes, QueueChanges, RunWaits

\* Four actions run the queue or are about a mission it starts; the others
\* leave that alone.
LEMMA StartersKept ==
  ASSUME Typed, [Next]_vars
  PROVE  \/ UserRuns
         \/ \E h \in Handler : HandleRun(h) \/ SetRunning(h) \/ StartNext(h) \/ SelectNext(h)
         \/ /\ RunWaits' = RunWaits /\ UNCHANGED runs
            /\ \A g \in Handler : handler'[g] = handler[g] \/ (~Starter(handler[g]) /\ ~Starter(handler'[g]))
<1> DEFINE Kept1 == /\ RunWaits' = RunWaits /\ UNCHANGED runs
                    /\ \A g \in Handler : handler'[g] = handler[g] \/ (~Starter(handler[g]) /\ ~Starter(handler'[g]))
<1>1. ASSUME NEW h \in Handler, NEW t, Moves(h, t), ~Starter(handler[h]), ~Starter(t), UNCHANGED runs,
             \/ \E w, l, s : Changes(w, l, s)
             \/ \E l, s : QueueChanges(l, s) /\ l # "run" /\ s # "run"
      PROVE  Kept1
  <2>1. RunWaits' = RunWaits
    BY <1>1, RunWaitsAfter
  <2> QED
    BY <1>1, <2>1 DEF Moves
<1>2. \A pc, w, val : At(pc, w, val).pc = pc
  BY DEF At
<1>3. \A t : t.pc \in PreparePc \cup EndPc \cup {"idle", "stopQueue", "cancelMissions"} => ~Starter(t)
  BY DEF Starter, PreparePc, EndPc
<1>4. ~Starter(Idle)
  BY IdleTask DEF Starter
<1>5. ASSUME NEW w \in Wp, UserCancels(w) \/ PipelineExecutes(w) \/ PipelineFails(w) \/ PipelineCompletes(w)
      PROVE  Kept1
  <2>1. (\E s : Changes(w, "-", s)) /\ UNCHANGED <<handler, runs>>
    BY <1>5, UserCancelsStep, PipelineExecutesStep, PipelineFailsStep, PipelineCompletesStep
  <2> QED
    BY <2>1, RunWaitsAfter
<1>6. ASSUME UserCancelsQueue PROVE Kept1
  <2>1. QueueChanges("-", "cancel") /\ UNCHANGED <<handler, runs>>
    BY <1>6, UserCancelsQueueStep
  <2> QED
    BY <2>1, RunWaitsAfter
<1>7. ASSUME NEW h \in Handler, HandleQueueCancel(h) \/ StopQueue(h) PROVE Kept1
  <2>1. /\ [handler[h] EXCEPT !.pc = "cancelMissions"].pc = "cancelMissions"
        /\ \A T : [At("stopQueue", NoWp, "-") EXCEPT !.todo = T].pc = "stopQueue"
    BY DEF Typed, TypeOK, Task, At
  <2>2. CASE HandleQueueCancel(h)
    BY <1>1, <1>3, <1>4, <2>1, <2>2, HandleQueueCancelStep
  <2>3. CASE StopQueue(h)
    BY <1>1, <1>3, <1>4, <2>1, <2>3, StopQueueStep
  <2> QED
    BY <1>7, <2>2, <2>3
<1>8. ASSUME NEW h \in Handler, NEW w \in Wp, CancelMission(h, w) PROVE Kept1
  <2>1. [handler[h] EXCEPT !.todo = handler[h].todo \ {w}].pc = handler[h].pc
    BY DEF Typed, TypeOK, Task
  <2> QED
    BY <1>1, <1>3, <1>4, <1>8, <2>1, CancelMissionStep
<1>9. ASSUME NEW h \in Handler, NEW w \in Wp,
             \/ HandleInsertion(h, w) \/ HandleDispatched(h, w) \/ HandleCanceling(h, w)
             \/ HandleFailure(h, w) \/ HandleCompleted(h, w)
      PROVE  Kept1
  <2>1. /\ UNCHANGED runs /\ handler[h].pc = "idle" /\ (\E l, s : Changes(w, l, s))
        /\ \E pc \in {"prepare", "cleanUp", "endMission"} : \E val : Moves(h, At(pc, w, val))
    BY <1>9, HandleInsertionStep, HandleDispatchedStep, HandleCancelingStep, HandleFailureStep, HandleCompletedStep
  <2>2. {"prepare", "cleanUp", "endMission"} \subseteq PreparePc \cup EndPc
    BY DEF PreparePc, EndPc
  <2> QED
    BY <1>1, <1>2, <1>3, <2>1, <2>2
<1>10. ASSUME NEW h \in Handler, PrepareSteps(h) \/ WaitTimesOut(h) PROVE Kept1
  <2>1. UNCHANGED runs /\ handler[h].pc \in PreparePc /\ handler[h].wp \in Wp /\ (\E l, s : Changes(handler[h].wp, l, s))
    BY <1>10, PrepareStep, WriteSettingsStep, AgentsAreFreeStep, SendGetReadyStep, ReadAgentsStep, DecideReadyStep,
       WaitTimesOutStep, FailPreparationStep, CreateRequestsStep, FailPlanningStep, MarkCalculatingStep DEF PrepareSteps, PreparePc
  <2>2. /\ {"failPreparation", "settings", "createRequests", "waitFree", "reserve", "waitReady", "decideReady",
            "failPlanning", "markCalculating"} \subseteq PreparePc
    BY DEF PreparePc
  <2>3. \A w \in Wp : ~Starter(FirstWait(w))
    BY <1>3, <2>2, FirstWaitFacts
  <2>4. \A pc \in PreparePc : \A w, val : ~Starter(At(pc, w, val))
    BY <1>2, <1>3
  <2>5. \E t : Moves(h, t) /\ ~Starter(t)
    BY <1>4, <1>10, <2>1, <2>2, <2>3, <2>4, PrepareStep, WriteSettingsStep, AgentsAreFreeStep, SendGetReadyStep, ReadAgentsStep,
       DecideReadyStep, WaitTimesOutStep, FailPreparationStep, CreateRequestsStep, FailPlanningStep, MarkCalculatingStep
       DEF PrepareSteps
  <2> QED
    BY <1>1, <1>3, <2>1, <2>5
<1>11. ASSUME NEW h \in Handler, EndMission(h) \/ CleanUp(h) \/ ReadEnded(h) \/ Release(h) PROVE Kept1
  <2>1. UNCHANGED runs /\ handler[h].pc \in EndPc /\ (\E l, s : Changes(handler[h].wp, l, s))
    BY <1>11, EndMissionStep, CleanUpStep, ReadEndedStep, ReleaseStep DEF EndPc
  <2>2. {"readEnded", "release", "selectNext"} \subseteq EndPc
    BY DEF EndPc
  <2>3. \A pc \in EndPc : \A w, val : ~Starter(At(pc, w, val))
    BY <1>2, <1>3
  <2>4. \E t : Moves(h, t) /\ ~Starter(t)
    BY <1>4, <1>11, <2>2, <2>3, EndMissionStep, CleanUpStep, ReadEndedStep, ReleaseStep
  <2> QED
    BY <1>1, <1>3, <2>1, <2>4
<1>12. ASSUME NEW a \in Agent, AgentActs(a) PROVE Kept1
  BY <1>12, AgentActsStep DEF RunWaits
<1>13. CASE UNCHANGED vars
  BY <1>13 DEF vars, RunWaits
<1> QED
  BY <1>5, <1>6, <1>7, <1>8, <1>9, <1>10, <1>11, <1>12, <1>13 DEF Next, Handle, Continue, QueueSteps, EndSteps

\* What a queue of one mission means.
LEMMA OneMission ==
  ASSUME ShortQueue
  PROVE  /\ \A v, w \in Range(Queue) : v = w
         /\ \A i \in DOMAIN Queue : i = 1
<1>1. \A i \in DOMAIN Queue : i = 1
  BY QueueFacts DEF ShortQueue
<1>2. \A v \in Range(Queue) : \E i \in DOMAIN Queue : v = Queue[i]
  BY DEF Range
<1> QED
  BY <1>1, <1>2

\* Every step keeps that it is started once.
LEMMA StartedOnceStep ==
  ASSUME ShortQueue, CancelAssumption, Typed, EndsGone, StartersDraft, StartedOnce, \A v \in Wp : OncePrepared(v), [Next]_vars
  PROVE  StartersDraft' /\ StartedOnce'
<1>1. Range(Queue) \subseteq Wp /\ \A v, w \in Range(Queue) : v = w
  BY OneMission, QueueFacts
<1>2. \A w \in Range(Queue) : mission'[w] = "draft" => mission[w] = "draft"
  BY <1>1, DraftStarted
<1>3. \A h \in Handler : Starter(handler[h]) => handler[h].wp \in Range(Queue)
  BY DEF Starter, Typed, Placed, TaskPlaced
<1>4. RunWaits \in Nat
  BY RunWaitsAfter
<1>5. CASE UserRuns
  <2>1. PICK i \in ({0} \cup Listed("failed") \cup Listed("canceled")) \ runs :
          /\ \A j \in DOMAIN Queue : j > i => mission[Queue[j]] = "draft"
          /\ runs' = runs \cup {i}
    BY <1>5, UserRunsStep
  <2>2. UNCHANGED <<mission, handler>> /\ QueueChanges("-", "run")
    BY <1>5, UserRunsStep DEF QueueChanges
  <2>3. RunWaits' = RunWaits + 1
    BY <1>4, <2>2, RunWaitsAfter
  <2>4. ASSUME NEW w \in Range(Queue), mission[w] = "draft"
        PROVE  i = 0
    <3>1. \A j \in DOMAIN Queue : Queue[j] = w
      BY <1>1, QueueFacts
    <3> QED
      BY <2>4, <3>1 DEF Listed
  <2>5. ASSUME NEW w \in Range(Queue), mission[w] = "draft"
        PROVE  0 \notin runs /\ 0 \in runs'
    BY <2>1, <2>4, <2>5
  <2>6. \A w \in Range(Queue) : mission[w] = "draft" =>
          RunWaits' = 1 /\ 0 \in runs' /\ \A h \in Handler : ~Starter(handler[h])
    BY <2>3, <2>5 DEF StartedOnce
  <2> QED
    BY <1>4, <2>2, <2>3, <2>6 DEF StartedOnce, StartersDraft
<1>6. ASSUME NEW h \in Handler, HandleRun(h) PROVE StartersDraft' /\ StartedOnce'
  <2>1. UNCHANGED <<mission, runs>> /\ QueueChanges("run", "-") /\ RunWaits > 0 /\ handler[h].pc = "idle"
    BY <1>6, HandleRunStep DEF QueueChanges, RunWaits
  <2>2. RunWaits' = RunWaits - 1
    BY <1>4, <2>1, RunWaitsAfter
  <2>3. RunWaits' \in Nat
    BY <1>4, <2>1, <2>2
  <2>4. CASE Moves(h, Idle)
    <3>1. ~Starter(Idle)
      BY IdleTask DEF Starter
    <3>2. \A g \in Handler : Starter(handler'[g]) => handler'[g] = handler[g]
      BY <2>4, <3>1 DEF Moves
    <3>3. \A w \in Range(Queue) : mission[w] = "draft" => RunWaits = 1 /\ RunWaits' = 0 /\ 0 \in runs /\ \A g \in Handler : ~Starter(handler[g])
      <4> SUFFICES ASSUME NEW w \in Range(Queue), mission[w] = "draft"
                   PROVE RunWaits = 1 /\ RunWaits' = 0 /\ 0 \in runs /\ \A g \in Handler : ~Starter(handler[g])
        OBVIOUS
      <4>1. RunWaits = 1
        BY <2>1 DEF StartedOnce
      <4> QED
        BY <2>2, <4>1 DEF StartedOnce
    <3> QED
      BY <2>1, <2>3, <3>2, <3>3 DEF StartedOnce, StartersDraft, Starter
  <2>5. ASSUME NEW i \in DOMAIN Queue, mission[Queue[i]] = "draft", Moves(h, At("setRunning", Queue[i], "-"))
        PROVE  StartersDraft' /\ StartedOnce'
    <3>1. Queue[i] \in Range(Queue) /\ At("setRunning", Queue[i], "-").wp = Queue[i]
      BY QueueFacts DEF At
    <3>2. RunWaits = 1 /\ 0 \in runs /\ \A g \in Handler : ~Starter(handler[g])
      <4>1. RunWaits = 1
        BY <2>1, <2>5, <3>1 DEF StartedOnce
      <4> QED
        BY <2>5, <3>1, <4>1 DEF StartedOnce
    <3>3. RunWaits' = 0
      BY <2>2, <3>2
    <3>4. \A g \in Handler : Starter(handler'[g]) => g = h
      BY <2>5, <3>2 DEF Moves
    <3>5. handler'[h].wp = Queue[i]
      BY <2>5, <3>1 DEF Moves
    <3>6. StartersDraft'
      BY <2>1, <2>5, <3>4, <3>5 DEF StartersDraft, Starter
    <3> QED
      BY <2>1, <2>3, <3>2, <3>3, <3>4, <3>6 DEF StartedOnce
  <2> QED
    BY <1>6, <2>4, <2>5, HandleRunStep
<1>7. ASSUME NEW h \in Handler, SetRunning(h) PROVE StartersDraft' /\ StartedOnce'
  <2>1. /\ UNCHANGED <<mission, runs>> /\ QueueChanges("-", "-") /\ handler[h].pc = "setRunning"
        /\ Moves(h, At("startNext", handler[h].wp, "-"))
    BY <1>7, SetRunningStep DEF QueueChanges
  <2>2. RunWaits' = RunWaits
    BY <1>4, <2>1, RunWaitsAfter
  <2>3. \A g \in Handler : (Starter(handler'[g]) => Starter(handler[g])) /\ handler'[g].wp = handler[g].wp
    BY <2>1 DEF Moves, At, Starter
  <2> QED
    BY <2>1, <2>2, <2>3 DEF StartedOnce, StartersDraft, Starter
<1>8. ASSUME NEW h \in Handler, StartNext(h) PROVE StartersDraft' /\ StartedOnce'
  <2>1. /\ Changes(handler[h].wp, "-", "dispatched") /\ UNCHANGED runs /\ handler[h].pc = "startNext"
        /\ handler[h].wp \in Range(Queue) /\ Moves(h, Idle)
    BY <1>8, StartNextStep
  <2>2. RunWaits' = RunWaits
    BY <2>1, RunWaitsAfter
  <2>3. \A w \in Range(Queue) : w = handler[h].wp /\ mission'[w] = "dispatched" /\ mission[w] = "draft"
    BY <1>1, <2>1 DEF Changes, StartersDraft
  <2>4. \A g \in Handler : Starter(handler[g]) => g = h
    BY <2>1, <2>3 DEF StartedOnce, Starter
  <2>5. \A g \in Handler : ~Starter(handler'[g])
    BY <2>1, <2>4, IdleTask DEF Moves, Starter
  <2> QED
    BY <1>4, <2>2, <2>3, <2>5 DEF StartedOnce, StartersDraft, Starter
<1>9. ASSUME NEW h \in Handler, SelectNext(h) PROVE StartersDraft' /\ StartedOnce'
  <2>1. /\ UNCHANGED <<mission, runs, events_queue>> /\ handler[h].pc \in EndPc /\ handler[h].wp \in Range(Queue)
    BY <1>9, SelectNextStep DEF SelectNext, EndPc
  <2>2. \A w \in Range(Queue) : mission[w] # "draft"
    BY <1>1, <2>1 DEF EndsGone, Gone, Alive
  <2>3. Moves(h, At("stopQueue", NoWp, "-"))
    BY <1>9, <2>2, QueueFacts, SelectNextStep
  <2>4. \A g \in Handler : Starter(handler'[g]) => handler'[g] = handler[g]
    BY <2>3 DEF Moves, At, Starter
  <2>5. RunWaits' = RunWaits
    BY <2>1 DEF RunWaits
  <2> QED
    BY <1>4, <2>1, <2>2, <2>4, <2>5 DEF StartedOnce, StartersDraft, Starter
<1>10. ASSUME RunWaits' = RunWaits, UNCHANGED runs, ~\E h \in Handler : StartNext(h),
              \A g \in Handler : handler'[g] = handler[g] \/ (~Starter(handler[g]) /\ ~Starter(handler'[g]))
       PROVE  StartersDraft' /\ StartedOnce'
  <2>1. \A w \in Range(Queue) : mission'[w] = "draft" <=> mission[w] = "draft"
    BY <1>1, <1>10, DraftStarted
  <2>2. StartersDraft'
    BY <1>3, <1>10, <2>1 DEF StartersDraft, Starter
  <2> QED
    BY <1>10, <2>1, <2>2 DEF StartedOnce
<1> QED
  BY <1>5, <1>6, <1>7, <1>8, <1>9, <1>10, StartersKept

\* Agents are never at work for two missions, for every set of missions and
\* agents and any number of computations, with cancels of missions and of the
\* queue, when the queue has at most one mission.
THEOREM ShortQueueExclusive ==
  ASSUME ShortQueue, CancelAssumption
  PROVE  Spec => []ExclusiveAgents
<1> DEFINE I == Typed /\ EndsGone /\ Reserved /\ StartersDraft /\ StartedOnce /\ \A v \in Wp : OncePrepared(v)
<1>1. Init => I
  <2> SUFFICES ASSUME Init PROVE I
    OBVIOUS
  <2>1. \A h \in Handler : ~Starter(handler[h]) /\ handler[h].pc = "idle"
    BY IdleTask DEF Init, Starter
  <2>2. RunWaits = 0
    <3>1. QueueEvent("run") \in Event /\ QueueEvent("run").kind = "run"
      BY EventFacts DEF QueueEvent
    <3> QED
      BY <3>1 DEF Init, RunWaits
  <2>3. StartedOnce /\ StartersDraft
    BY <2>1, <2>2 DEF StartedOnce, StartersDraft
  <2> QED
    BY <2>3, TypedInit, ReservedInit, OncePreparedInit
<1>2. I /\ [Next]_vars => I'
  <2> SUFFICES ASSUME I, [Next]_vars PROVE I'
    OBVIOUS
  <2>1. NothingRevived
    BY NothingRevivedStep
  <2>2. Typed' /\ EndsGone' /\ Reserved'
    BY <2>1, TypedStep, EndsGoneStep, ReservedStep
  <2>3. StartersDraft' /\ StartedOnce'
    BY StartedOnceStep
  <2>4. \A v \in Wp : OncePrepared(v)'
    BY OncePreparedStep, OncePreparedFrame DEF vars, Waiting
  <2> QED
    BY <2>2, <2>3, <2>4
<1>3. I => ExclusiveAgents
  BY ReservedExclusive
<1> QED
  BY <1>1, <1>2, <1>3, PTL DEF Spec

----------------------------------------------------------------------------
(* Queues of any length that nobody cancels *)

Undisturbed == Cancelable = {} /\ ~CancelsQueue /\ HalfPlanned = {}

Completion == {"assignments_completed", "assignment_failed", "planning_failed"}
Early == {"dispatched", Preparing}

Ends(t, w) == t.pc \in EndPc /\ t.wp = w
Unended(w) == \A h \in Handler : ~Ends(handler[h], w)

\* Where the end of a mission is, and the status it has there.
EndsAt(t, s) ==
  /\ t.pc = "endMission" => s = "assignments_completed"
  /\ t.pc = "cleanUp" => s = "failed"
  /\ t.pc \in {"readEnded", "release", "selectNext"} => s \in EndStatus
  /\ t.pc = "release" => t.val = s
  /\ t.pc = "selectNext" => s = "succeeded"

NobodyCancels ==
  /\ \A h \in Handler : handler[h].todo = {} /\ handler[h].pc # "cancelMissions"
  /\ events_queue[QueueEvent("cancel")] = 0

\* A mission is ended for one event, by one computation.
EndedOnce(w) ==
  /\ mission[w] # "canceling" /\ Waiting("canceling", w) = 0
  /\ \A k \in Completion :
       /\ Waiting(k, w) \in {0, 1}
       /\ Waiting(k, w) = 1 => mission[w] = k /\ Unended(w)
  /\ \A h \in Handler : Ends(handler[h], w) =>
       /\ EndsAt(handler[h], mission[w])
       /\ \A g \in Handler : Ends(handler[g], w) => g = h

\* Until it is planned nothing ends it.
EarlyUntilPlanned(w) ==
  /\ Waiting("dispatched", w) = 1 => mission[w] \in Early
  /\ \A h \in Handler : Prepares(handler[h], w) =>
       /\ handler[h].pc # "markCalculating" => mission[w] \in Early
       /\ handler[h].pc = "failPlanning" => w \in Unplannable
  /\ w \in Unplannable => w \notin planned

\* The statuses and steps these speak of.
LEMMA EndFacts ==
  /\ \A k \in Completion : k \in Kind /\ k # "-" /\ k \in HandledMission
  /\ Completion \cap EndStatus = {} /\ "canceling" \in Kind /\ "canceling" \notin Completion \cup EndStatus
  /\ {"dispatched", Preparing, "calculating", "executing", "draft"} \cap (Completion \cup EndStatus \cup {"canceling"}) = {}
  /\ RunningMission \cap (Completion \cup EndStatus) = {} /\ UncompleteMission \cap (Completion \cup EndStatus) = {}
  /\ "-" \notin Completion \cup EndStatus /\ "failed" \in EndStatus /\ "succeeded" \in EndStatus
  /\ "dispatched" \notin Completion /\ "insertion" \notin Completion
BY PreparingFacts DEF Completion, EndStatus, Kind, HandledMission, RunningMission, UncompleteMission, Preparing

\* Steps of a computation are not of two kinds.
LEMMA StepKinds ==
  /\ \A pc \in PreparePc : pc \notin EndPc /\ pc \notin QueuePc /\ pc # "idle"
  /\ \A pc \in EndPc : pc \notin QueuePc /\ pc # "idle"
  /\ \A pc \in QueuePc : pc # "idle"
BY DEF PreparePc, EndPc, QueuePc

\* What does not concern a mission leaves its end as it is.
LEMMA EndedOnceFrame ==
  ASSUME NEW v \in Wp, EndedOnce(v), mission'[v] = mission[v],
         \A k \in Completion \cup {"canceling"} : Waiting(k, v)' = Waiting(k, v),
         \A g \in Handler : handler'[g] = handler[g] \/ (~Ends(handler[g], v) /\ ~Ends(handler'[g], v))
  PROVE  EndedOnce(v)'
<1>1. \A g \in Handler : Ends(handler'[g], v) => handler'[g] = handler[g] /\ Ends(handler[g], v)
  OBVIOUS
<1>2. mission'[v] # "canceling" /\ Waiting("canceling", v)' = 0
  BY DEF EndedOnce
<1>3. ASSUME NEW k \in Completion
      PROVE  Waiting(k, v)' \in {0, 1} /\ (Waiting(k, v)' = 1 => mission'[v] = k /\ Unended(v)')
  BY <1>1 DEF EndedOnce, Unended
<1>4. ASSUME NEW h \in Handler, Ends(handler'[h], v)
      PROVE  /\ EndsAt(handler'[h], mission'[v])
             /\ \A g \in Handler : Ends(handler'[g], v) => g = h
  BY <1>1, <1>4 DEF EndedOnce
<1> QED
  BY <1>2, <1>3, <1>4 DEF EndedOnce, Unended

\* ... and so its preparation.
LEMMA EarlyFrame ==
  ASSUME NEW v \in Wp, EarlyUntilPlanned(v), mission'[v] = mission[v],
         Waiting("dispatched", v)' = Waiting("dispatched", v), v \in planned' => v \in planned,
         \A g \in Handler : handler'[g] = handler[g] \/ ~Prepares(handler'[g], v)
  PROVE  EarlyUntilPlanned(v)'
<1>1. \A g \in Handler : Prepares(handler'[g], v) => handler'[g] = handler[g] /\ Prepares(handler[g], v)
  OBVIOUS
<1> QED
  BY <1>1 DEF EarlyUntilPlanned

\* The events and the status of the missions a step does not concern.
LEMMA OtherMissions ==
  ASSUME Typed, NEW w, NEW l, NEW s, Changes(w, l, s) \/ QueueChanges(l, s)
  PROVE  \A v \in Wp : v # w \/ QueueChanges(l, s) =>
           mission'[v] = mission[v] /\ \A k \in Kind : Waiting(k, v)' = Waiting(k, v)
<1>1. \A k \in Kind, v \in Wp : events_queue[MissionEvent(k, v)] \in Nat
  BY KindFacts DEF Typed, TypeOK
<1> QED
  BY <1>1 DEF Changes, QueueChanges, Waiting

\* The events and the status of the mission it concerns.
LEMMA ThisMission ==
  ASSUME Typed, NEW w \in Wp, NEW l, NEW s, Changes(w, l, s)
  PROVE  /\ mission'[w] = IF s # "-" THEN s ELSE mission[w]
         /\ \A k \in Kind : Waiting(k, w) \in Nat /\
              Waiting(k, w)' = Waiting(k, w) - (IF k = l THEN 1 ELSE 0) + (IF k = s /\ s # mission[w] THEN 1 ELSE 0)
<1>1. \A k \in Kind : events_queue[MissionEvent(k, w)] \in Nat
  BY KindFacts DEF Typed, TypeOK
<1> QED
  BY <1>1 DEF Changes, Waiting

\* A step that takes no event of the end and writes no status leaves both,
\* if its computation is not at the end.
LEMMA EndedOnceKept ==
  ASSUME Typed, \A v \in Wp : EndedOnce(v), NEW w, NEW l, NEW s,
         (Changes(w, l, "-") /\ l \notin Completion \cup {"canceling"}) \/ QueueChanges(l, s),
         \A g \in Handler : handler'[g] = handler[g] \/ (handler[g].pc \notin EndPc /\ handler'[g].pc \notin EndPc)
  PROVE  \A v \in Wp : EndedOnce(v)'
<1> SUFFICES ASSUME NEW v \in Wp PROVE EndedOnce(v)'
  OBVIOUS
<1>1. mission'[v] = mission[v] /\ \A k \in Completion \cup {"canceling"} : Waiting(k, v)' = Waiting(k, v)
  <2>1. CASE QueueChanges(l, s)
    BY <2>1, OtherMissions, EndFacts
  <2>2. CASE Changes(w, l, "-") /\ v # w
    BY <2>2, OtherMissions, EndFacts
  <2>3. CASE Changes(v, l, "-") /\ v = w /\ l \notin Completion \cup {"canceling"}
    <3>1. \A k \in Completion \cup {"canceling"} : k \in Kind /\ k # l /\ k # "-"
      BY <2>3, EndFacts
    <3>2. \A k \in Kind : Waiting(k, v) \in Nat /\
              Waiting(k, v)' = Waiting(k, v) - (IF k = l THEN 1 ELSE 0) + (IF k = "-" /\ "-" # mission[v] THEN 1 ELSE 0)
      BY <2>3, ThisMission
    <3>3. mission'[v] = mission[v]
      BY <2>3, ThisMission
    <3> QED
      BY <3>1, <3>2, <3>3
  <2> QED
    BY <2>1, <2>2, <2>3
<1> QED
  BY <1>1, EndedOnceFrame DEF Ends

\* A status is written over one that is not at the end.
LEMMA EndedOnceWritten ==
  ASSUME Typed, \A v \in Wp : EndedOnce(v), NEW w \in Wp, NEW l, l \notin Completion \cup {"canceling"},
         NEW s, s \notin {"-", "canceling"}, Changes(w, l, s), mission[w] \notin Completion \cup EndStatus,
         \A g \in Handler : handler'[g] = handler[g] \/ (handler[g].pc \notin EndPc /\ handler'[g].pc \notin EndPc)
  PROVE  \A v \in Wp : EndedOnce(v)'
<1>1. ASSUME NEW v \in Wp \ {w} PROVE EndedOnce(v)'
  <2>1. mission'[v] = mission[v] /\ \A k \in Completion \cup {"canceling"} : Waiting(k, v)' = Waiting(k, v)
    BY OtherMissions, EndFacts
  <2> QED
    BY <2>1, EndedOnceFrame DEF Ends
<1>2. EndedOnce(w)'
  <2>1. Unended(w)
    <3> SUFFICES ASSUME NEW h \in Handler, Ends(handler[h], w) PROVE FALSE
      BY DEF Unended
    <3>1. EndsAt(handler[h], mission[w])
      BY DEF EndedOnce
    <3> QED
      BY <3>1, EndFacts DEF EndsAt, Ends, EndPc, Completion
  <2>2. Unended(w)'
    BY <2>1 DEF Unended, Ends
  <2>3. \A k \in Completion : Waiting(k, w) = 0
    BY DEF EndedOnce
  <2>4. mission'[w] = s
    BY ThisMission
  <2>5. ASSUME NEW k \in Completion \cup {"canceling"}
        PROVE  Waiting(k, w)' = IF k = s /\ s # mission[w] THEN 1 ELSE 0
    <3>1. Waiting(k, w) = 0 /\ k \in Kind /\ k # l
      BY <2>3, EndFacts DEF EndedOnce
    <3>2. Waiting(k, w)' = Waiting(k, w) - (IF k = l THEN 1 ELSE 0) + (IF k = s /\ s # mission[w] THEN 1 ELSE 0)
      BY <3>1, ThisMission
    <3> QED
      BY <3>1, <3>2
  <2>6. \A k \in Completion : Waiting(k, w)' \in {0, 1} /\ (Waiting(k, w)' = 1 => mission'[w] = k)
    BY <2>4, <2>5
  <2>7. mission'[w] # "canceling" /\ Waiting("canceling", w)' = 0
    BY <2>4, <2>5
  <2> QED
    BY <2>2, <2>6, <2>7 DEF EndedOnce, Unended
<1> QED
  BY <1>1, <1>2

\* Nobody cancels if the user does not.
LEMMA NobodyCancelsStep ==
  ASSUME Undisturbed, Typed, NobodyCancels, [Next]_vars
  PROVE  NobodyCancels'
<1>1. QueueEvent("cancel") \in Event /\ events_queue[QueueEvent("cancel")] \in Nat /\ "cancel" \in QueueKind
  BY EventFacts DEF QueueKind, Typed, TypeOK
<1>2. \A w, l, s : Changes(w, l, s) => events_queue'[QueueEvent("cancel")] = events_queue[QueueEvent("cancel")]
  BY <1>1 DEF Changes
<1>3. \A l, s : QueueChanges(l, s) /\ l # "cancel" /\ s # "cancel" =>
        events_queue'[QueueEvent("cancel")] = events_queue[QueueEvent("cancel")]
  BY <1>1 DEF QueueChanges
<1>4. \A pc, w, val : At(pc, w, val).pc = pc /\ At(pc, w, val).todo = {}
  BY DEF At
<1>5. Idle.pc = "idle" /\ Idle.todo = {}
  BY IdleTask
<1>6. ASSUME NEW h \in Handler, NEW t, Moves(h, t), t.todo = {}, t.pc # "cancelMissions",
             \/ \E w, l, s : Changes(w, l, s)
             \/ \E l, s : QueueChanges(l, s) /\ l # "cancel" /\ s # "cancel"
      PROVE  NobodyCancels'
  BY <1>2, <1>3, <1>6 DEF NobodyCancels, Moves
<1>7. ASSUME UNCHANGED handler,
             \/ \E w, l, s : Changes(w, l, s)
             \/ \E l, s : QueueChanges(l, s) /\ l # "cancel" /\ s # "cancel"
      PROVE  NobodyCancels'
  BY <1>2, <1>3, <1>7 DEF NobodyCancels
<1>8. CASE UserRuns
  BY <1>7, <1>8, UserRunsStep
<1>9. ~UserCancelsQueue
  BY DEF UserCancelsQueue, Undisturbed
<1>10. ASSUME NEW w \in Wp, UserCancels(w) \/ PipelineExecutes(w) \/ PipelineFails(w) \/ PipelineCompletes(w)
       PROVE  NobodyCancels'
  BY <1>7, <1>10, UserCancelsStep, PipelineExecutesStep, PipelineFailsStep, PipelineCompletesStep
<1>11. ASSUME NEW h \in Handler, HandleRun(h) \/ SetRunning(h) \/ StartNext(h) PROVE NobodyCancels'
  BY <1>4, <1>5, <1>6, <1>11, HandleRunStep, SetRunningStep, StartNextStep
<1>12. \A h \in Handler : ~HandleQueueCancel(h)
  BY <1>1, HandleQueueCancelStep DEF NobodyCancels
<1>13. ASSUME NEW h \in Handler, StopQueue(h) PROVE NobodyCancels'
  BY <1>5, <1>6, <1>13, StopQueueStep DEF NobodyCancels
<1>14. \A h \in Handler, w \in Wp : ~CancelMission(h, w)
  BY CancelMissionStep DEF NobodyCancels
<1>15. ASSUME NEW h \in Handler, NEW w \in Wp,
              \/ HandleInsertion(h, w) \/ HandleDispatched(h, w) \/ HandleCanceling(h, w)
              \/ HandleFailure(h, w) \/ HandleCompleted(h, w)
       PROVE  NobodyCancels'
  BY <1>4, <1>6, <1>15, HandleInsertionStep, HandleDispatchedStep, HandleCancelingStep, HandleFailureStep, HandleCompletedStep
<1>16. ASSUME NEW h \in Handler, PrepareSteps(h) \/ WaitTimesOut(h) PROVE NobodyCancels'
  <2>1. \A w : FirstWait(w).todo = {} /\ FirstWait(w).pc # "cancelMissions"
    BY <1>4 DEF FirstWait
  <2>2. \E w, l, s : Changes(w, l, s)
    BY <1>16, PrepareStep, WriteSettingsStep, AgentsAreFreeStep, SendGetReadyStep, ReadAgentsStep, DecideReadyStep,
       WaitTimesOutStep, FailPreparationStep, CreateRequestsStep, FailPlanningStep, MarkCalculatingStep DEF PrepareSteps
  <2>3. \E t : Moves(h, t) /\ t.todo = {} /\ t.pc # "cancelMissions"
    BY <1>4, <1>5, <1>16, <2>1, PrepareStep, WriteSettingsStep, AgentsAreFreeStep, SendGetReadyStep, ReadAgentsStep,
       DecideReadyStep, WaitTimesOutStep, FailPreparationStep, CreateRequestsStep, FailPlanningStep, MarkCalculatingStep
       DEF PrepareSteps
  <2> QED
    BY <1>6, <2>2, <2>3
<1>17. ASSUME NEW h \in Handler, EndSteps(h) PROVE NobodyCancels'
  BY <1>4, <1>5, <1>6, <1>17, EndMissionStep, CleanUpStep, ReadEndedStep, ReleaseStep, SelectNextStep DEF EndSteps
<1>18. ASSUME NEW a \in Agent, AgentActs(a) PROVE NobodyCancels'
  BY <1>18, AgentActsStep DEF NobodyCancels
<1>19. CASE UNCHANGED vars
  BY <1>19 DEF vars, NobodyCancels
<1> QED
  BY <1>8, <1>9, <1>10, <1>11, <1>12, <1>13, <1>14, <1>15, <1>16, <1>17, <1>18, <1>19 DEF Next, Handle, Continue, QueueSteps

\* The end of a mission goes on from step to step.
LEMMA EndGoesOn ==
  ASSUME Typed, \A v \in Wp : EndedOnce(v), NEW h \in Handler, NEW w \in Wp, Ends(handler[h], w),
         NEW t, Moves(h, t), t.wp = w \/ t.pc \notin EndPc, NEW s, s \notin Completion \cup {"canceling"}, Changes(w, "-", s),
         t.pc \in EndPc => EndsAt(t, IF s # "-" THEN s ELSE mission[w])
  PROVE  \A v \in Wp : EndedOnce(v)'
<1>1. ASSUME NEW v \in Wp \ {w} PROVE EndedOnce(v)'
  <2>1. mission'[v] = mission[v] /\ \A k \in Completion \cup {"canceling"} : Waiting(k, v)' = Waiting(k, v)
    BY OtherMissions, EndFacts
  <2> QED
    BY <2>1, EndedOnceFrame DEF Ends, Moves
<1>2. EndedOnce(w)'
  <2>1. mission'[w] = IF s # "-" THEN s ELSE mission[w]
    BY ThisMission
  <2>2. \A k \in Completion : Waiting(k, w) = 0
    BY DEF EndedOnce, Unended
  <2>3. ASSUME NEW k \in Completion \cup {"canceling"} PROVE Waiting(k, w)' = 0
    <3>1. Waiting(k, w) = 0 /\ k \in Kind /\ k # "-" /\ k # s
      BY <2>2, EndFacts DEF EndedOnce
    <3>2. Waiting(k, w)' = Waiting(k, w) - (IF k = "-" THEN 1 ELSE 0) + (IF k = s /\ s # mission[w] THEN 1 ELSE 0)
      BY <3>1, ThisMission
    <3> QED
      BY <3>1, <3>2
  <2>4. \A g \in Handler : Ends(handler'[g], w) => g = h
    BY DEF EndedOnce, Moves
  <2>5. Ends(handler'[h], w) => EndsAt(handler'[h], mission'[w])
    BY <2>1 DEF Moves, Ends
  <2>6. mission'[w] # "canceling"
    BY <2>1 DEF EndedOnce
  <2>7. \A k \in Completion : Waiting(k, w)' = 0
    BY <2>3
  <2> QED
    BY <2>3, <2>4, <2>5, <2>6, <2>7 DEF EndedOnce
<1> QED
  BY <1>1, <1>2

\* It begins with its event.
LEMMA EndBegins ==
  ASSUME Typed, \A v \in Wp : EndedOnce(v), NEW h \in Handler, handler[h].pc = "idle", NEW w \in Wp,
         NEW l \in Completion, Waiting(l, w) > 0, NEW s \in {"-", "failed"}, Changes(w, l, s),
         NEW t, Moves(h, t), Ends(t, w), EndsAt(t, IF s # "-" THEN s ELSE mission[w])
  PROVE  \A v \in Wp : EndedOnce(v)'
<1>1. handler[h].pc \notin EndPc
  BY StepKinds
<1>2. ASSUME NEW v \in Wp \ {w} PROVE EndedOnce(v)'
  <2>1. mission'[v] = mission[v] /\ \A k \in Completion \cup {"canceling"} : Waiting(k, v)' = Waiting(k, v)
    BY OtherMissions, EndFacts
  <2> QED
    BY <1>1, <2>1, EndedOnceFrame DEF Ends, Moves
<1>3. EndedOnce(w)'
  <2>1. Waiting(l, w) = 1
    BY DEF EndedOnce
  <2>2. mission[w] = l /\ Unended(w)
    BY <2>1 DEF EndedOnce
  <2>3. mission'[w] = (IF s # "-" THEN s ELSE mission[w]) /\ "failed" # "canceling"
    BY ThisMission
  <2>4. ASSUME NEW k \in Completion \cup {"canceling"} PROVE Waiting(k, w)' = 0
    <3>1. k \in Kind /\ k # "-" /\ k # s /\ "canceling" \notin Completion
      BY EndFacts
    <3>2. Waiting(k, w)' = Waiting(k, w) - (IF k = l THEN 1 ELSE 0) + (IF k = s /\ s # mission[w] THEN 1 ELSE 0)
      BY <3>1, ThisMission
    <3>3. k # l => Waiting(k, w) = 0
      BY <2>2 DEF EndedOnce
    <3> QED
      BY <2>1, <3>1, <3>2, <3>3
  <2>5. \A k \in Completion : Waiting(k, w)' = 0
    BY <2>4
  <2>6. \A g \in Handler : Ends(handler'[g], w) => g = h
    BY <2>2 DEF Unended, Moves
  <2>7. EndsAt(handler'[h], mission'[w])
    BY <2>3 DEF Moves
  <2>8. mission'[w] # "canceling"
    BY <2>3, EndFacts DEF EndedOnce
  <2> QED
    BY <2>4, <2>5, <2>6, <2>7, <2>8 DEF EndedOnce
<1> QED
  BY <1>2, <1>3

\* A preparation that has not been planned finds its mission early.
LEMMA EarlyPreparation ==
  ASSUME \A v \in Wp : EarlyUntilPlanned(v), NEW h \in Handler, handler[h].pc \in PreparePc, handler[h].wp \in Wp,
         handler[h].pc # "markCalculating"
  PROVE  mission[handler[h].wp] \in Early /\ mission[handler[h].wp] \notin Completion \cup EndStatus
<1>1. mission[handler[h].wp] \in Early
  BY DEF EarlyUntilPlanned, Prepares
<1> QED
  BY <1>1, EndFacts DEF Early

\* Every step keeps that a mission is ended once.
LEMMA EndedOnceStep ==
  ASSUME Undisturbed, Typed, NobodyCancels, StartersDraft, \A v \in Wp : OncePrepared(v),
         \A v \in Wp : EarlyUntilPlanned(v), \A v \in Wp : EndedOnce(v), [Next]_vars
  PROVE  \A v \in Wp : EndedOnce(v)'
<1> DEFINE Goal == \A v \in Wp : EndedOnce(v)'
           Aside == \A g \in Handler : handler'[g] = handler[g] \/ (handler[g].pc \notin EndPc /\ handler'[g].pc \notin EndPc)
<1>1. \A pc, w, val : At(pc, w, val).pc = pc /\ At(pc, w, val).wp = w /\ At(pc, w, val).val = val
  BY DEF At
<1>2. Idle.pc = "idle" /\ "idle" \notin EndPc
  BY IdleTask DEF EndPc
<1>3. ASSUME NEW h \in Handler, NEW t, Moves(h, t), handler[h].pc \notin EndPc, t.pc \notin EndPc PROVE Aside
  BY <1>3 DEF Moves
<1> HIDE DEF Aside
<1>4. CASE UserRuns
  BY <1>4, UserRunsStep, EndedOnceKept
<1>5. ~UserCancelsQueue /\ \A w \in Wp : ~UserCancels(w)
  BY UserCancelsStep DEF UserCancelsQueue, Undisturbed
<1>6. ASSUME NEW w \in Wp, PipelineExecutes(w) \/ PipelineFails(w) \/ PipelineCompletes(w) PROVE Goal
  <2>1. UNCHANGED handler /\ mission[w] \notin Completion \cup EndStatus
    BY <1>6, PipelineExecutesStep, PipelineFailsStep, PipelineCompletesStep, EndFacts
  <2>2. \E s \in Completion \cup {"executing"} : Changes(w, "-", s)
    BY <1>6, PipelineExecutesStep, PipelineFailsStep, PipelineCompletesStep DEF Completion
  <2>3. "-" \notin Completion \cup {"canceling"} /\ \A s \in Completion \cup {"executing"} : s \notin {"-", "canceling"}
    BY DEF Completion
  <2> QED
    BY <2>1, <2>2, <2>3, EndedOnceWritten
<1>7. ASSUME NEW h \in Handler, HandleRun(h) \/ SetRunning(h) \/ StopQueue(h) PROVE Goal
  <2>1. handler[h].pc \notin EndPc /\ "setRunning" \notin EndPc /\ "startNext" \notin EndPc
    BY <1>2, <1>7, HandleRunStep, SetRunningStep, StopQueueStep DEF EndPc
  <2>2. handler[h].todo = {}
    BY DEF NobodyCancels
  <2>4. \E t : Moves(h, t) /\ t.pc \notin EndPc
    <3>1. CASE HandleRun(h)
      BY <1>1, <1>2, <2>1, <3>1, HandleRunStep
    <3>2. CASE SetRunning(h)
      BY <1>1, <2>1, <3>2, SetRunningStep
    <3>3. CASE StopQueue(h)
      BY <1>2, <2>2, <3>3, StopQueueStep
    <3> QED
      BY <1>7, <3>1, <3>2, <3>3
  <2>3. \E l, s : QueueChanges(l, s)
    BY <1>7, HandleRunStep, SetRunningStep, StopQueueStep
  <2> QED
    BY <1>3, <2>1, <2>3, <2>4, EndedOnceKept DEF Aside
<1>8. ASSUME NEW h \in Handler, StartNext(h) PROVE Goal
  <2>1. /\ Changes(handler[h].wp, "-", "dispatched") /\ handler[h].wp \in Wp /\ handler[h].pc = "startNext"
        /\ Moves(h, Idle) /\ mission[handler[h].wp] = "draft"
    BY <1>8, StartNextStep, QueueFacts DEF StartersDraft
  <2>2. "startNext" \notin EndPc /\ "-" \notin Completion \cup {"canceling"} /\ "dispatched" \notin {"-", "canceling"}
    BY DEF EndPc, Completion
  <2>3. mission[handler[h].wp] \notin Completion \cup EndStatus
    BY <2>1, EndFacts
  <2> QED
    BY <1>2, <1>3, <2>1, <2>2, <2>3, EndedOnceWritten DEF Aside
<1>9. ASSUME NEW h \in Handler PROVE ~HandleQueueCancel(h) /\ \A w \in Wp : ~CancelMission(h, w)
  <2>1. ~(events_queue[QueueEvent("cancel")] > 0) /\ handler[h].todo = {}
    BY DEF NobodyCancels
  <2> QED
    BY <2>1, HandleQueueCancelStep, CancelMissionStep
<1>10. ASSUME NEW h \in Handler, NEW w \in Wp, HandleInsertion(h, w) PROVE Goal
  <2>1. /\ Changes(w, "insertion", Preparing) /\ handler[h].pc = "idle" /\ Waiting("insertion", w) > 0
        /\ Moves(h, At("prepare", w, "-"))
    BY <1>10, HandleInsertionStep DEF Waiting
  <2>2. mission[w] = "dispatched"
    BY <2>1 DEF OncePrepared, InsertedOnce
  <2>3. "prepare" \notin EndPc /\ "insertion" \notin Completion \cup {"canceling"}
        /\ mission[w] \notin Completion \cup EndStatus /\ Preparing \notin {"-", "canceling"}
    BY <2>2, EndFacts, PreparingFacts DEF EndPc
  <2> QED
    BY <1>1, <1>2, <1>3, <2>1, <2>3, EndedOnceWritten DEF Aside
<1>11. ASSUME NEW h \in Handler, NEW w \in Wp, HandleDispatched(h, w) PROVE Goal
  <2>1. /\ Changes(w, "dispatched", "-") /\ handler[h].pc = "idle" /\ Moves(h, At("prepare", w, "-"))
    BY <1>11, HandleDispatchedStep
  <2>2. "prepare" \notin EndPc /\ "dispatched" \notin Completion \cup {"canceling"}
    BY EndFacts DEF EndPc
  <2>3. Aside
    BY <1>1, <1>2, <1>3, <2>1, <2>2
  <2> QED
    BY <2>1, <2>2, <2>3, EndedOnceKept DEF Aside
<1>12. ASSUME NEW h \in Handler, NEW w \in Wp PROVE ~HandleCanceling(h, w)
  BY HandleCancelingStep DEF EndedOnce, Waiting
<1>13. ASSUME NEW h \in Handler, NEW w \in Wp, HandleFailure(h, w) PROVE Goal
  <2>1. PICK l \in {"assignment_failed", "planning_failed"} :
          /\ handler[h].pc = "idle" /\ Waiting(l, w) > 0 /\ Moves(h, At("cleanUp", w, "-"))
          /\ \/ Changes(w, l, "failed") /\ mission[w] = l
             \/ Changes(w, l, "-") /\ mission[w] # l
    BY <1>13, HandleFailureStep DEF Waiting
  <2>2. l \in Completion
    BY DEF Completion
  <2>3. mission[w] = l
    BY <2>1, <2>2 DEF EndedOnce
  <2>4. Changes(w, l, "failed")
    BY <2>1, <2>3
  <2>5. Ends(At("cleanUp", w, "-"), w) /\ EndsAt(At("cleanUp", w, "-"), "failed")
    BY <1>1 DEF Ends, EndsAt, EndPc
  <2>6. "failed" # "-"
    OBVIOUS
  <2> QED
    BY <2>1, <2>2, <2>4, <2>5, <2>6, EndBegins
<1>14. ASSUME NEW h \in Handler, NEW w \in Wp, HandleCompleted(h, w) PROVE Goal
  <2>1. PICK s \in {"succeeded", "canceled"} : Moves(h, At("endMission", w, s))
    BY <1>14, HandleCompletedStep
  <2>2. /\ handler[h].pc = "idle" /\ Waiting("assignments_completed", w) > 0 /\ Changes(w, "assignments_completed", "-")
    BY <1>14, HandleCompletedStep DEF Waiting
  <2>3. "assignments_completed" \in Completion
    BY DEF Completion
  <2>4. mission[w] = "assignments_completed"
    BY <2>2, <2>3 DEF EndedOnce
  <2>5. Ends(At("endMission", w, s), w) /\ EndsAt(At("endMission", w, s), mission[w])
    BY <1>1, <2>4 DEF Ends, EndsAt, EndPc
  <2> QED
    BY <2>1, <2>2, <2>3, <2>5, EndBegins
<1>15. ASSUME NEW h \in Handler,
              \/ Prepare(h) \/ AgentsAreFree(h) \/ SendGetReady(h) \/ ReadAgents(h) \/ DecideReady(h)
              \/ CreateRequests(h) \/ WaitTimesOut(h)
       PROVE  Goal
  <2>1. handler[h].pc \in PreparePc /\ Changes(handler[h].wp, "-", "-")
    BY <1>15, PrepareStep, AgentsAreFreeStep, SendGetReadyStep, ReadAgentsStep, DecideReadyStep, CreateRequestsStep,
       WaitTimesOutStep DEF PreparePc
  <2>2. \A w : FirstWait(w).pc \notin EndPc
    BY <1>1 DEF FirstWait, EndPc
  <2>3. {"failPreparation", "settings", "reserve", "waitReady", "decideReady", "createRequests", "failPlanning",
         "markCalculating"} \cap EndPc = {}
    BY DEF EndPc
  <2>4. \E t : Moves(h, t) /\ t.pc \notin EndPc
    BY <1>1, <1>15, <2>2, <2>3, PrepareStep, AgentsAreFreeStep, SendGetReadyStep, ReadAgentsStep, DecideReadyStep,
       CreateRequestsStep, WaitTimesOutStep
  <2>5. "-" \notin Completion \cup {"canceling"} /\ handler[h].pc \notin EndPc
    BY <2>1, StepKinds DEF Completion
  <2> QED
    BY <1>3, <2>1, <2>4, <2>5, EndedOnceKept DEF Aside
<1>16. ASSUME NEW h \in Handler, WriteSettings(h) \/ FailPreparation(h) \/ FailPlanning(h) PROVE Goal
  <2>1. /\ handler[h].pc \in PreparePc /\ handler[h].wp \in Wp /\ handler[h].pc # "markCalculating"
        /\ \E s \in {Preparing, "failed", "planning_failed"} : Changes(handler[h].wp, "-", s)
    BY <1>16, WriteSettingsStep, FailPreparationStep, FailPlanningStep DEF PreparePc
  <2>2. \A w : FirstWait(w).pc \notin EndPc
    BY <1>1 DEF FirstWait, EndPc
  <2>3. \E t : Moves(h, t) /\ t.pc \notin EndPc
    BY <1>2, <1>16, <2>2, WriteSettingsStep, FailPreparationStep, FailPlanningStep
  <2>4. /\ "-" \notin Completion \cup {"canceling"} /\ handler[h].pc \notin EndPc
        /\ \A s \in {Preparing, "failed", "planning_failed"} : s \notin {"-", "canceling"}
    BY <2>1, StepKinds, PreparingFacts DEF Completion
  <2>5. mission[handler[h].wp] \notin Completion \cup EndStatus
    BY <2>1, EarlyPreparation
  <2> QED
    BY <1>3, <2>1, <2>3, <2>4, <2>5, EndedOnceWritten DEF Aside
<1>17. ASSUME NEW h \in Handler, MarkCalculating(h) PROVE Goal
  <2>1. /\ handler[h].pc \notin EndPc /\ handler[h].wp \in Wp /\ Moves(h, Idle)
        /\ "-" \notin Completion \cup {"canceling"} /\ "calculating" \notin {"-", "canceling"}
    BY <1>17, MarkCalculatingStep DEF EndPc, Completion
  <2>2. Aside
    BY <1>2, <1>3, <2>1
  <2>3. CASE Changes(handler[h].wp, "-", "-")
    BY <2>1, <2>2, <2>3, EndedOnceKept DEF Aside
  <2>4. CASE Changes(handler[h].wp, "-", "calculating") /\ mission[handler[h].wp] \in {Preparing, "dispatched", "executing"}
    <3>1. mission[handler[h].wp] \notin Completion \cup EndStatus
      BY <2>4, EndFacts
    <3> QED
      BY <2>1, <2>2, <2>4, <3>1, EndedOnceWritten DEF Aside
  <2> QED
    BY <1>17, <2>3, <2>4, MarkCalculatingStep
<1>18. ASSUME NEW h \in Handler, EndMission(h) PROVE Goal
  <2>1. /\ handler[h].wp \in Wp /\ handler[h].val \in EndStatus /\ Changes(handler[h].wp, "-", handler[h].val)
        /\ Moves(h, At("readEnded", handler[h].wp, "-")) /\ Ends(handler[h], handler[h].wp)
    BY <1>18, EndMissionStep DEF Ends, EndPc
  <2>2. /\ handler[h].val # "-" /\ handler[h].val \notin Completion \cup {"canceling"}
        /\ EndsAt(At("readEnded", handler[h].wp, "-"), handler[h].val)
    BY <1>1, <2>1, EndFacts DEF EndsAt
  <2>3. At("readEnded", handler[h].wp, "-").wp = handler[h].wp
    BY <1>1
  <2> QED
    BY <2>1, <2>2, <2>3, EndGoesOn
<1>19. ASSUME NEW h \in Handler, CleanUp(h) \/ ReadEnded(h) \/ Release(h) \/ SelectNext(h) PROVE Goal
  <2>1. /\ handler[h].wp \in Wp /\ Changes(handler[h].wp, "-", "-") /\ Ends(handler[h], handler[h].wp)
    BY <1>19, CleanUpStep, ReadEndedStep, ReleaseStep, SelectNextStep DEF Ends, EndPc
  <2>2. EndsAt(handler[h], mission[handler[h].wp]) /\ "-" \notin Completion \cup {"canceling"}
    BY <2>1 DEF EndedOnce, Completion
  <2>3. \E t : /\ Moves(h, t) /\ (t.wp = handler[h].wp \/ t.pc \notin EndPc)
               /\ t.pc \in EndPc => EndsAt(t, mission[handler[h].wp])
    <3>1. CASE CleanUp(h)
      BY <1>1, <2>2, <3>1, CleanUpStep, EndFacts DEF EndsAt
    <3>2. CASE ReadEnded(h)
      BY <1>1, <2>2, <3>2, ReadEndedStep DEF EndsAt
    <3>3. CASE Release(h)
      <4>1. mission[handler[h].wp] = handler[h].val /\ mission[handler[h].wp] \in EndStatus
        BY <2>2, <3>3, ReleaseStep DEF EndsAt
      <4>2. CASE Moves(h, Idle)
        BY <1>2, <4>2
      <4>3. CASE Moves(h, At("selectNext", handler[h].wp, "-")) /\ handler[h].val = "succeeded"
        BY <1>1, <4>1, <4>3 DEF EndsAt
      <4> QED
        BY <3>3, <4>2, <4>3, ReleaseStep
    <3>4. CASE SelectNext(h)
      <4>1. "startNext" \notin EndPc /\ "stopQueue" \notin EndPc
        BY DEF EndPc
      <4> QED
        BY <1>1, <3>4, <4>1, SelectNextStep
    <3> QED
      BY <1>19, <3>1, <3>2, <3>3, <3>4
  <2> QED
    BY <2>1, <2>2, <2>3, EndGoesOn
<1>20. ASSUME NEW a \in Agent, AgentActs(a) PROVE Goal
  BY <1>20, AgentActsStep, EndedOnceFrame DEF Waiting
<1>21. CASE UNCHANGED vars
  BY <1>21, EndedOnceFrame DEF vars, Waiting
<1> QED
  BY <1>4, <1>5, <1>6, <1>7, <1>8, <1>9, <1>10, <1>11, <1>12, <1>13, <1>14, <1>15, <1>16, <1>17, <1>18, <1>19, <1>20, <1>21
     DEF Next, Handle, Continue, QueueSteps, PrepareSteps, EndSteps

\* The preparation of a mission that is planned, or past that, is over but
\* for its last statement, whatever the mission becomes.
LEMMA EarlyPast ==
  ASSUME NEW w \in Wp, OncePrepared(w), EarlyUntilPlanned(w), mission[w] \notin Early \/ w \in planned,
         Waiting("dispatched", w)' = Waiting("dispatched", w), w \in planned' => w \in planned,
         \A g \in Handler : handler'[g] = handler[g] \/ ~Prepares(handler'[g], w)
  PROVE  EarlyUntilPlanned(w)'
<1>1. Waiting("dispatched", w) # 1
  BY DEF OncePrepared, DispatchedOnce, EarlyUntilPlanned
<1>2. \A g \in Handler : Prepares(handler[g], w) => handler[g].pc = "markCalculating"
  BY DEF OncePrepared, PreparedOnce, EarlyUntilPlanned
<1>3. \A g \in Handler : Prepares(handler'[g], w) => handler'[g].pc = "markCalculating"
  BY <1>2
<1> QED
  BY <1>1, <1>3 DEF EarlyUntilPlanned

\* A preparation goes on, or is over.
LEMMA EarlyGoesOn ==
  ASSUME NEW w \in Wp, OncePrepared(w), EarlyUntilPlanned(w), NEW h \in Handler, Prepares(handler[h], w),
         NEW t, Moves(h, t), Waiting("dispatched", w)' = Waiting("dispatched", w),
         Prepares(t, w) => /\ t.pc # "markCalculating" => mission'[w] \in Early
                           /\ t.pc = "failPlanning" => w \in Unplannable,
         w \in Unplannable /\ w \in planned' => w \in planned
  PROVE  EarlyUntilPlanned(w)'
<1>1. Waiting("dispatched", w) = 0 /\ \A g \in Handler : Prepares(handler[g], w) => g = h
  BY PreparedFacts
<1>2. \A g \in Handler : Prepares(handler'[g], w) => g = h
  BY <1>1 DEF Moves
<1> QED
  BY <1>1, <1>2 DEF EarlyUntilPlanned, Moves

\* The missions a step does not concern.
LEMMA EarlyOthers ==
  ASSUME Typed, \A v \in Wp : EarlyUntilPlanned(v), NEW w, NEW l, NEW s, Changes(w, l, s) \/ QueueChanges(l, s),
         \A v \in Wp \ {w} : v \in planned' => v \in planned,
         \A g \in Handler : handler'[g] = handler[g] \/ handler'[g].pc \notin PreparePc \/ handler'[g].wp = w
  PROVE  \A v \in Wp \ {w} : EarlyUntilPlanned(v)'
<1> SUFFICES ASSUME NEW v \in Wp \ {w} PROVE EarlyUntilPlanned(v)'
  OBVIOUS
<1>1. "dispatched" \in Kind
  BY DEF Kind, HandledMission
<1>2. mission'[v] = mission[v] /\ Waiting("dispatched", v)' = Waiting("dispatched", v)
  BY <1>1, OtherMissions
<1> QED
  BY <1>2, EarlyFrame DEF Prepares

\* A step that neither writes a mission nor takes its events, by a
\* computation that prepares none.
LEMMA EarlyKept ==
  ASSUME Typed, \A v \in Wp : EarlyUntilPlanned(v), NEW l, NEW s, QueueChanges(l, s),
         planned' \subseteq planned, \A g \in Handler : handler'[g] = handler[g] \/ handler'[g].pc \notin PreparePc
  PROVE  \A v \in Wp : EarlyUntilPlanned(v)'
<1> SUFFICES ASSUME NEW v \in Wp PROVE EarlyUntilPlanned(v)'
  OBVIOUS
<1>1. "dispatched" \in Kind
  BY DEF Kind, HandledMission
<1>2. mission'[v] = mission[v] /\ Waiting("dispatched", v)' = Waiting("dispatched", v)
  BY <1>1, OtherMissions
<1> QED
  BY <1>2, EarlyFrame DEF Prepares

\* Every step keeps that nothing ends a mission until it is planned.
LEMMA EarlyStep ==
  ASSUME Undisturbed, Typed, NobodyCancels, StartersDraft, \A v \in Wp : OncePrepared(v),
         \A v \in Wp : EarlyUntilPlanned(v), \A v \in Wp : EndedOnce(v), [Next]_vars
  PROVE  \A v \in Wp : EarlyUntilPlanned(v)'
<1> DEFINE Goal == \A v \in Wp : EarlyUntilPlanned(v)'
<1>1. \A pc, w, val : At(pc, w, val).pc = pc /\ At(pc, w, val).wp = w
  BY DEF At
<1>2. Idle.pc = "idle" /\ "idle" \notin PreparePc
  BY IdleTask DEF PreparePc
<1>3. "dispatched" \in Kind /\ "dispatched" # "-" /\ "dispatched" \notin Completion /\ "dispatched" \in Early /\ Preparing \in Early
  BY EndFacts DEF Kind, HandledMission, Early
<1>4. \A w \in Wp : \A l, s : Changes(w, l, s) /\ l # "dispatched" /\ s # "dispatched" =>
        Waiting("dispatched", w)' = Waiting("dispatched", w)
  <2> SUFFICES ASSUME NEW w \in Wp, NEW l, NEW s, Changes(w, l, s), l # "dispatched", s # "dispatched"
               PROVE  Waiting("dispatched", w)' = Waiting("dispatched", w)
    OBVIOUS
  <2>1. Waiting("dispatched", w) \in Nat /\
          Waiting("dispatched", w)' = Waiting("dispatched", w) - (IF "dispatched" = l THEN 1 ELSE 0)
             + (IF "dispatched" = s /\ s # mission[w] THEN 1 ELSE 0)
    BY <1>3, ThisMission
  <2> QED
    BY <2>1
<1>5. CASE UserRuns
  BY <1>5, UserRunsStep, EarlyKept
<1>6. ~UserCancelsQueue /\ \A w \in Wp : ~UserCancels(w)
  BY UserCancelsStep DEF UserCancelsQueue, Undisturbed
<1>7. ASSUME NEW w \in Wp, PipelineExecutes(w) \/ PipelineFails(w) \/ PipelineCompletes(w) PROVE Goal
  <2>1. UNCHANGED <<handler, planned>> /\ w \in planned
    BY <1>7, PipelineExecutesStep, PipelineFailsStep, PipelineCompletesStep
  <2>2. PICK s \in Completion \cup {"executing"} : Changes(w, "-", s)
    BY <1>7, PipelineExecutesStep, PipelineFailsStep, PipelineCompletesStep DEF Completion
  <2>3. s # "dispatched"
    BY <1>3
  <2>4. Waiting("dispatched", w)' = Waiting("dispatched", w)
    BY <1>3, <1>4, <2>2, <2>3
  <2>5. EarlyUntilPlanned(w)'
    BY <2>1, <2>4, EarlyPast
  <2> QED
    BY <2>1, <2>2, <2>5, EarlyOthers
<1>8. ASSUME NEW h \in Handler, HandleRun(h) \/ SetRunning(h) \/ StopQueue(h) PROVE Goal
  <2>1. handler[h].todo = {} /\ "setRunning" \notin PreparePc /\ "startNext" \notin PreparePc
    BY DEF NobodyCancels, PreparePc
  <2>2. UNCHANGED planned /\ (\E l, s : QueueChanges(l, s)) /\ \E t : Moves(h, t) /\ t.pc \notin PreparePc
    <3>1. CASE HandleRun(h)
      BY <1>1, <1>2, <2>1, <3>1, HandleRunStep
    <3>2. CASE SetRunning(h)
      BY <1>1, <2>1, <3>2, SetRunningStep
    <3>3. CASE StopQueue(h)
      BY <1>2, <2>1, <3>3, StopQueueStep
    <3> QED
      BY <1>8, <3>1, <3>2, <3>3
  <2> QED
    BY <2>2, EarlyKept DEF Moves
<1>9. ASSUME NEW h \in Handler, StartNext(h), NEW w, w = handler[h].wp PROVE Goal
  <2>1. /\ Changes(w, "-", "dispatched") /\ w \in Wp /\ Moves(h, Idle) /\ mission[w] = "draft" /\ UNCHANGED planned
    BY <1>9, StartNextStep, QueueFacts DEF StartersDraft
  <2>2. Unprepared(w) /\ mission'[w] \in Early
    BY <1>3, <2>1, ThisMission DEF OncePrepared, PreparedOnce, Unprepared, Startable
  <2>3. Unprepared(w)'
    BY <1>2, <2>1, <2>2 DEF Unprepared, Moves, Prepares
  <2>4. EarlyUntilPlanned(w)'
    BY <2>1, <2>2, <2>3 DEF EarlyUntilPlanned, Unprepared
  <2> QED
    BY <1>2, <2>1, <2>4, EarlyOthers DEF Moves
<1>10. ASSUME NEW h \in Handler PROVE ~HandleQueueCancel(h) /\ \A w \in Wp : ~CancelMission(h, w)
  <2>1. ~(events_queue[QueueEvent("cancel")] > 0) /\ handler[h].todo = {}
    BY DEF NobodyCancels
  <2> QED
    BY <2>1, HandleQueueCancelStep, CancelMissionStep
<1>11. ASSUME NEW h \in Handler, NEW w \in Wp, HandleInsertion(h, w) \/ HandleDispatched(h, w) PROVE Goal
  <2>1. /\ Moves(h, At("prepare", w, "-")) /\ UNCHANGED planned
        /\ \/ Changes(w, "insertion", Preparing) /\ Waiting("insertion", w) > 0
           \/ Changes(w, "dispatched", "-") /\ Waiting("dispatched", w) > 0
    BY <1>11, HandleInsertionStep, HandleDispatchedStep DEF Waiting
  <2>2. Unprepared(w) /\ mission'[w] \in Early
    <3>1. CASE Changes(w, "insertion", Preparing) /\ Waiting("insertion", w) > 0
      BY <1>3, <3>1, ThisMission, PreparingFacts DEF OncePrepared, InsertedOnce
    <3>2. CASE Changes(w, "dispatched", "-") /\ Waiting("dispatched", w) > 0
      <4>1. Waiting("dispatched", w) = 1
        BY <3>2 DEF OncePrepared, DispatchedOnce
      <4> QED
        BY <3>2, <4>1, ThisMission DEF OncePrepared, DispatchedOnce, EarlyUntilPlanned
    <3> QED
      BY <2>1, <3>1, <3>2
  <2>3. \A g \in Handler : Prepares(handler'[g], w) => handler'[g].pc = "prepare"
    BY <1>1, <2>1, <2>2 DEF Unprepared, Moves
  <2>4. EarlyUntilPlanned(w)'
    BY <2>1, <2>2, <2>3 DEF EarlyUntilPlanned
  <2> QED
    BY <1>1, <2>1, <2>4, EarlyOthers DEF Moves
<1>12. ASSUME NEW h \in Handler, NEW w \in Wp, HandleFailure(h, w) \/ HandleCompleted(h, w) PROVE Goal
  <2>1. PICK l \in Completion, s \in {"-", "failed"}, pc \in {"cleanUp", "endMission"} :
          Changes(w, l, s) /\ Waiting(l, w) > 0 /\ (\E val : Moves(h, At(pc, w, val))) /\ UNCHANGED planned
    BY <1>12, HandleFailureStep, HandleCompletedStep DEF Waiting, Completion
  <2>2. Waiting(l, w) = 1
    BY <2>1 DEF EndedOnce
  <2>3. mission[w] \notin Early
    BY <2>2, EndFacts DEF EndedOnce, Early
  <2>4. Waiting("dispatched", w)' = Waiting("dispatched", w)
    BY <1>3, <1>4, <2>1
  <2>5. pc \notin PreparePc
    BY DEF PreparePc
  <2>6. \A g \in Handler : handler'[g] = handler[g] \/ handler'[g].pc \notin PreparePc
    BY <1>1, <2>1, <2>5 DEF Moves
  <2>7. EarlyUntilPlanned(w)'
    BY <2>1, <2>3, <2>4, <2>6, EarlyPast DEF Prepares
  <2> QED
    BY <2>1, <2>6, <2>7, EarlyOthers
<1>13. ASSUME NEW h \in Handler, NEW w \in Wp PROVE ~HandleCanceling(h, w)
  BY HandleCancelingStep DEF EndedOnce, Waiting
<1>14. ASSUME NEW h \in Handler, PrepareSteps(h) \/ WaitTimesOut(h), NEW w, w = handler[h].wp PROVE Goal
  <2>1. w \in Wp /\ handler[h].pc \in PreparePc
    BY <1>14, PrepareStep, WriteSettingsStep, AgentsAreFreeStep, SendGetReadyStep, ReadAgentsStep, DecideReadyStep,
       WaitTimesOutStep, FailPreparationStep, CreateRequestsStep, FailPlanningStep, MarkCalculatingStep DEF PrepareSteps, PreparePc
  <2>2. Prepares(handler[h], w)
    BY <1>14, <2>1 DEF Prepares
  <2>3. ASSUME NEW t, Moves(h, t), t.pc \in PreparePc => t.wp = w, NEW s, s # "dispatched", Changes(w, "-", s),
               \A v \in Wp \ {w} : v \in planned' => v \in planned,
               w \in Unplannable /\ w \in planned' => w \in planned,
               t.pc \in PreparePc => /\ t.pc # "markCalculating" => mission'[w] \in Early
                                     /\ t.pc = "failPlanning" => w \in Unplannable
        PROVE  Goal
    <3>1. Waiting("dispatched", w)' = Waiting("dispatched", w)
      BY <1>3, <1>4, <2>1, <2>3
    <3>2. EarlyUntilPlanned(w)'
      BY <2>1, <2>2, <2>3, <3>1, EarlyGoesOn DEF Prepares
    <3>3. \A g \in Handler : handler'[g] = handler[g] \/ handler'[g].pc \notin PreparePc \/ handler'[g].wp = w
      BY <2>3 DEF Moves
    <3> QED
      BY <2>1, <2>3, <3>2, <3>3, EarlyOthers
  <2>4. handler[h].pc # "markCalculating" => mission[w] \in Early
    BY <2>1, <2>2 DEF EarlyUntilPlanned
  <2>5. \A l : Changes(w, l, "-") => mission'[w] = mission[w]
    BY <2>1, ThisMission
  <2>6. \A l : Changes(w, l, Preparing) => mission'[w] \in Early
    BY <1>3, <2>1, PreparingFacts, ThisMission
  <2>7. FirstWait(w).wp = w /\ FirstWait(w).pc # "failPlanning"
    BY <1>1 DEF FirstWait
  <2>8. CASE Prepare(h) \/ AgentsAreFree(h) \/ SendGetReady(h) \/ ReadAgents(h) \/ DecideReady(h) \/ WaitTimesOut(h)
    <3>1. UNCHANGED planned /\ Changes(w, "-", "-") /\ handler[h].pc # "markCalculating"
      BY <1>14, <2>8, PrepareStep, AgentsAreFreeStep, SendGetReadyStep, ReadAgentsStep, DecideReadyStep, WaitTimesOutStep
    <3>2. \E t : Moves(h, t) /\ t.wp = w /\ t.pc # "failPlanning"
      BY <1>1, <1>14, <2>7, <2>8, PrepareStep, AgentsAreFreeStep, SendGetReadyStep, ReadAgentsStep, DecideReadyStep, WaitTimesOutStep
    <3> QED
      BY <1>3, <2>3, <2>4, <2>5, <3>1, <3>2
  <2>9. CASE WriteSettings(h)
    BY <1>3, <1>14, <2>3, <2>6, <2>7, <2>9, WriteSettingsStep, PreparingFacts
  <2>10. CASE CreateRequests(h)
    <3>1. Changes(w, "-", "-") /\ mission'[w] \in Early
      BY <1>14, <2>4, <2>5, <2>10, CreateRequestsStep
    <3>2. CASE /\ Moves(h, At("failPlanning", w, "-")) /\ w \in Unplannable
               /\ planned' = IF w \in HalfPlanned THEN planned \cup {w} ELSE planned
      BY <1>1, <1>3, <2>3, <3>1, <3>2 DEF Undisturbed
    <3>3. CASE /\ Moves(h, At("markCalculating", w, "-")) /\ w \notin Unplannable /\ planned' = planned \cup {w}
      BY <1>1, <1>3, <2>3, <3>1, <3>3
    <3> QED
      BY <1>14, <2>10, <3>2, <3>3, CreateRequestsStep
  <2>11. CASE FailPreparation(h) \/ FailPlanning(h) \/ MarkCalculating(h)
    <3>1. /\ Moves(h, Idle) /\ UNCHANGED planned
          /\ \E s \in {"failed", "planning_failed", "calculating", "-"} : Changes(w, "-", s)
      BY <1>14, <2>11, FailPreparationStep, FailPlanningStep, MarkCalculatingStep
    <3>2. "dispatched" \notin {"failed", "planning_failed", "calculating", "-"}
      OBVIOUS
    <3> QED
      BY <1>2, <2>3, <3>1, <3>2
  <2> QED
    BY <1>14, <2>8, <2>9, <2>10, <2>11 DEF PrepareSteps
<1>15. ASSUME NEW h \in Handler, EndSteps(h), NEW w, w = handler[h].wp PROVE Goal
  <2>1. /\ w \in Wp /\ Ends(handler[h], w) /\ planned' \subseteq planned
        /\ (\E s : Changes(w, "-", s) /\ s # "dispatched")
    BY <1>3, <1>15, EndMissionStep, CleanUpStep, ReadEndedStep, ReleaseStep, SelectNextStep DEF EndSteps, Ends, EndPc, EndStatus
  <2>2. EndsAt(handler[h], mission[w])
    BY <2>1 DEF EndedOnce
  <2>3. mission[w] \notin Early
    BY <2>1, <2>2, EndFacts DEF EndsAt, Ends, EndPc, Early, Completion
  <2>4. {"readEnded", "release", "selectNext", "startNext", "stopQueue"} \cap PreparePc = {}
    BY DEF PreparePc
  <2>5. \E t : Moves(h, t) /\ t.pc \notin PreparePc
    BY <1>1, <1>2, <1>15, <2>4, EndMissionStep, CleanUpStep, ReadEndedStep, ReleaseStep, SelectNextStep DEF EndSteps
  <2>6. Waiting("dispatched", w)' = Waiting("dispatched", w)
    BY <1>3, <1>4, <2>1
  <2>7. \A g \in Handler : handler'[g] = handler[g] \/ handler'[g].pc \notin PreparePc
    BY <2>5 DEF Moves
  <2>8. EarlyUntilPlanned(w)'
    BY <2>1, <2>3, <2>6, <2>7, EarlyPast DEF Prepares
  <2> QED
    BY <2>1, <2>7, <2>8, EarlyOthers
<1>16. ASSUME NEW a \in Agent, AgentActs(a) PROVE Goal
  BY <1>16, AgentActsStep, EarlyFrame DEF Waiting
<1>17. CASE UNCHANGED vars
  BY <1>17, EarlyFrame DEF vars, Waiting
<1> QED
  BY <1>5, <1>6, <1>7, <1>8, <1>9, <1>10, <1>11, <1>12, <1>13, <1>14, <1>15, <1>16, <1>17 DEF Next, Handle, Continue, QueueSteps

\* A mission that has ended stays as it is.
LEMMA EndedStays ==
  ASSUME Undisturbed, Typed, NobodyCancels, StartersDraft, \A v \in Wp : OncePrepared(v),
         \A v \in Wp : EarlyUntilPlanned(v), \A v \in Wp : EndedOnce(v), [Next]_vars,
         NEW v \in Wp, mission[v] \in EndStatus
  PROVE  mission'[v] = mission[v]
<1> SUFFICES ASSUME mission'[v] # mission[v] PROVE FALSE
  OBVIOUS
<1>1. \A w, l, s : Changes(w, l, s) => v = w /\ s # "-"
  BY DEF Changes
<1>2. \A l, s : ~QueueChanges(l, s)
  BY DEF QueueChanges
<1>3. /\ mission[v] \notin {"draft", "dispatched", Preparing, "calculating", "executing"} \cup Completion
      /\ RunningMission \cap EndStatus = {} /\ UncompleteMission \cap EndStatus = {}
  BY EndFacts
<1>4. ~UserRuns /\ ~UserCancelsQueue
  BY <1>2, UserRunsStep, UserCancelsQueueStep
<1>5. ASSUME NEW w \in Wp PROVE ~UserCancels(w) /\ ~PipelineExecutes(w) /\ ~PipelineFails(w) /\ ~PipelineCompletes(w)
  BY <1>1, <1>3, UserCancelsStep, PipelineExecutesStep, PipelineFailsStep, PipelineCompletesStep DEF Undisturbed
<1>6. ASSUME NEW h \in Handler PROVE ~HandleRun(h) /\ ~SetRunning(h) /\ ~StopQueue(h) /\ ~HandleQueueCancel(h)
  BY <1>2, HandleRunStep, SetRunningStep, StopQueueStep, HandleQueueCancelStep
<1>7. ASSUME NEW h \in Handler PROVE ~StartNext(h) /\ \A w \in Wp : ~CancelMission(h, w)
  <2>1. handler[h].todo = {} /\ (handler[h].pc = "startNext" => mission[handler[h].wp] = "draft")
    BY DEF StartersDraft, NobodyCancels
  <2>2. ~StartNext(h)
    BY <1>1, <1>3, <2>1, StartNextStep
  <2> QED
    BY <2>1, <2>2, CancelMissionStep
<1>8. ASSUME NEW h \in Handler, NEW w \in Wp
      PROVE  ~HandleInsertion(h, w) /\ ~HandleDispatched(h, w) /\ ~HandleCanceling(h, w) /\ ~HandleCompleted(h, w)
  <2>1. ~HandleInsertion(h, w)
    <3> SUFFICES ASSUME HandleInsertion(h, w) PROVE FALSE
      OBVIOUS
    <3>1. Waiting("insertion", w) > 0 /\ v = w
      BY <1>1, HandleInsertionStep DEF Waiting
    <3>2. mission[w] = "dispatched"
      BY <3>1 DEF OncePrepared, InsertedOnce
    <3> QED
      BY <1>3, <3>1, <3>2
  <2>2. ~HandleDispatched(h, w) /\ ~HandleCompleted(h, w)
    BY <1>1, HandleDispatchedStep, HandleCompletedStep
  <2>3. ~HandleCanceling(h, w)
    BY HandleCancelingStep DEF EndedOnce, Waiting
  <2> QED
    BY <2>1, <2>2, <2>3
<1>9. ASSUME NEW h \in Handler, NEW w \in Wp PROVE ~HandleFailure(h, w)
  <2> SUFFICES ASSUME HandleFailure(h, w) PROVE FALSE
    OBVIOUS
  <2>1. \E l \in {"assignment_failed", "planning_failed"} : Changes(w, l, "-") \/ mission[w] = l
    BY HandleFailureStep
  <2>2. \E l, s : Changes(w, l, s)
    BY HandleFailureStep
  <2> QED
    BY <1>1, <1>3, <2>1, <2>2 DEF Completion
<1>10. ASSUME NEW h \in Handler, PrepareSteps(h) \/ WaitTimesOut(h) PROVE FALSE
  <2>1. /\ handler[h].wp \in Wp /\ handler[h].pc \in PreparePc /\ \E l, s : Changes(handler[h].wp, l, s)
    BY <1>10, PrepareStep, WriteSettingsStep, AgentsAreFreeStep, SendGetReadyStep, ReadAgentsStep, DecideReadyStep,
       WaitTimesOutStep, FailPreparationStep, CreateRequestsStep, FailPlanningStep, MarkCalculatingStep DEF PrepareSteps, PreparePc
  <2>2. v = handler[h].wp
    BY <1>1, <2>1
  <2>3. handler[h].pc = "markCalculating"
    BY <2>1, <2>2, EarlyPreparation
  <2>4. MarkCalculating(h)
    BY <1>10, <2>3, PrepareStep, WriteSettingsStep, AgentsAreFreeStep, SendGetReadyStep, ReadAgentsStep, DecideReadyStep,
       WaitTimesOutStep, FailPreparationStep, CreateRequestsStep, FailPlanningStep DEF PrepareSteps
  <2>5. mission[v] \in {Preparing, "dispatched", "executing"} \/ Changes(v, "-", "-")
    BY <2>2, <2>4, MarkCalculatingStep
  <2> QED
    BY <1>1, <1>3, <2>5
<1>11. ASSUME NEW h \in Handler PROVE ~EndSteps(h)
  <2> SUFFICES ASSUME EndSteps(h) PROVE FALSE
    OBVIOUS
  <2>1. EndMission(h)
    BY <1>1, CleanUpStep, ReadEndedStep, ReleaseStep, SelectNextStep DEF EndSteps
  <2>2. Ends(handler[h], handler[h].wp) /\ handler[h].wp = v /\ handler[h].pc = "endMission"
    BY <1>1, <2>1, EndMissionStep DEF Ends, EndPc
  <2>3. mission[v] = "assignments_completed"
    BY <2>2 DEF EndedOnce, EndsAt
  <2> QED
    BY <1>3, <2>3 DEF Completion
<1>12. \A a \in Agent : ~AgentActs(a)
  BY AgentActsStep
<1>13. ~UNCHANGED vars
  BY DEF vars
<1> QED
  BY <1>4, <1>5, <1>6, <1>7, <1>8, <1>9, <1>10, <1>11, <1>12, <1>13 DEF Next, Handle, Continue, QueueSteps

\* Only the statements of an end bring a computation to the end of a mission
\* that is written.
LEMMA ArrivesAtEnd ==
  ASSUME Typed, NobodyCancels, [Next]_vars, NEW g \in Handler, handler'[g] # handler[g],
         handler'[g].pc \in {"readEnded", "release", "selectNext"}
  PROVE  EndMission(g) \/ CleanUp(g) \/ ReadEnded(g) \/ Release(g)
<1> DEFINE Late == {"readEnded", "release", "selectNext"}
<1>1. \A pc, w, val : At(pc, w, val).pc = pc
  BY DEF At
<1>2. Idle.pc = "idle" /\ "idle" \notin Late
  BY IdleTask
<1>3. \A h \in Handler : \A t : Moves(h, t) => h = g /\ t.pc \in Late
  BY DEF Moves
<1>4. ~UserRuns /\ ~UserCancelsQueue
  BY UserRunsStep, UserCancelsQueueStep
<1>5. ASSUME NEW w \in Wp PROVE ~UserCancels(w) /\ ~PipelineExecutes(w) /\ ~PipelineFails(w) /\ ~PipelineCompletes(w)
  BY UserCancelsStep, PipelineExecutesStep, PipelineFailsStep, PipelineCompletesStep
<1>6. ASSUME NEW h \in Handler PROVE ~HandleRun(h) /\ ~SetRunning(h) /\ ~StartNext(h)
  BY <1>1, <1>2, <1>3, HandleRunStep, SetRunningStep, StartNextStep
<1>7. ASSUME NEW h \in Handler PROVE ~StopQueue(h) /\ \A w \in Wp : ~CancelMission(h, w)
  <2>1. handler[h].todo = {}
    BY DEF NobodyCancels
  <2> QED
    BY <1>2, <1>3, <2>1, StopQueueStep, CancelMissionStep
<1>8. ASSUME NEW h \in Handler PROVE ~HandleQueueCancel(h)
  <2>1. ~(events_queue[QueueEvent("cancel")] > 0)
    BY DEF NobodyCancels
  <2> QED
    BY <2>1, HandleQueueCancelStep
<1>9. ASSUME NEW h \in Handler, NEW w \in Wp
      PROVE  ~HandleInsertion(h, w) /\ ~HandleDispatched(h, w) /\ ~HandleCanceling(h, w) /\ ~HandleFailure(h, w)
             /\ ~HandleCompleted(h, w)
  BY <1>1, <1>3, HandleInsertionStep, HandleDispatchedStep, HandleCancelingStep, HandleFailureStep, HandleCompletedStep
<1>10. ASSUME NEW h \in Handler, PrepareSteps(h) \/ WaitTimesOut(h) PROVE FALSE
  <2>1. \A w : FirstWait(w).pc \notin Late
    BY <1>1 DEF FirstWait
  <2>2. \E t : Moves(h, t) /\ t.pc \notin Late
    BY <1>1, <1>2, <1>10, <2>1, PrepareStep, WriteSettingsStep, AgentsAreFreeStep, SendGetReadyStep, ReadAgentsStep, DecideReadyStep,
       WaitTimesOutStep, FailPreparationStep, CreateRequestsStep, FailPlanningStep, MarkCalculatingStep DEF PrepareSteps
  <2> QED
    BY <1>3, <2>2
<1>11. ASSUME NEW h \in Handler, SelectNext(h) PROVE FALSE
  BY <1>1, <1>3, <1>11, SelectNextStep
<1>12. ASSUME NEW h \in Handler, EndMission(h) \/ CleanUp(h) \/ ReadEnded(h) \/ Release(h) PROVE h = g
  BY <1>3, <1>12, EndMissionStep, CleanUpStep, ReadEndedStep, ReleaseStep
<1>13. \A a \in Agent : ~AgentActs(a)
  BY AgentActsStep
<1>14. ~UNCHANGED vars
  BY DEF vars
<1> QED
  BY <1>4, <1>5, <1>6, <1>7, <1>8, <1>9, <1>10, <1>11, <1>12, <1>13, <1>14 DEF Next, Handle, Continue, QueueSteps, EndSteps

\* A computation that will start the next mission of the queue, if there is one.
Succeeds(h) ==
  /\ handler[h].pc \in {"readEnded", "release", "selectNext"}
  /\ handler[h].wp \in Range(Queue) /\ mission[handler[h].wp] = "succeeded"

GoesOnWithQueue(h) == Starter(handler[h]) \/ Succeeds(h)

Quiet == \A i \in DOMAIN Queue : mission[Queue[i]] \in EndStatus \cup {"draft"}

DraftsBehind(i) == \A j \in DOMAIN Queue : j > i => mission[Queue[j]] = "draft"

UserPlace(i) == i \in {0} \cup Listed("failed") \cup Listed("canceled") /\ DraftsBehind(i)

\* The missions before one that was started have ended.
InOrder ==
  \A i, j \in DOMAIN Queue : i < j /\ mission[Queue[j]] # "draft" => mission[Queue[i]] \in EndStatus

\* Either a run waits, or one computation goes on with the queue, or a
\* mission of it is under way; where the user may start it again, that has
\* not been used.
OneAtOnce ==
  /\ RunWaits \in {0, 1}
  /\ RunWaits = 1 => Quiet /\ \A h \in Handler : ~GoesOnWithQueue(h)
  /\ \A h \in Handler : GoesOnWithQueue(h) => Quiet
  /\ \A g, h \in Handler : GoesOnWithQueue(g) /\ GoesOnWithQueue(h) => g = h
  /\ RunWaits = 1 \/ (\E h \in Handler : Starter(handler[h])) => \A i : UserPlace(i) => i \in runs
  /\ \A h \in Handler : Succeeds(h) => \E i \in DOMAIN Queue : handler[h].wp = Queue[i] /\ DraftsBehind(i)

\* The mission to be started comes next.
StartersNext ==
  \A h \in Handler : Starter(handler[h]) =>
    \E i \in DOMAIN Queue : /\ handler[h].wp = Queue[i]
                            /\ \A j \in DOMAIN Queue : j < i => mission[Queue[j]] \in EndStatus

\* All of it.
QueueInvariant ==
  /\ Typed /\ NobodyCancels /\ StartersDraft
  /\ \A v \in Wp : OncePrepared(v) /\ EarlyUntilPlanned(v) /\ EndedOnce(v)
  /\ InOrder /\ OneAtOnce /\ StartersNext

\* What becomes of the missions of the queue.
LEMMA QueueMissions ==
  ASSUME Undisturbed, QueueInvariant, EndsGone, [Next]_vars
  PROVE  \A i \in DOMAIN Queue :
           /\ mission[Queue[i]] \in EndStatus => mission'[Queue[i]] = mission[Queue[i]]
           /\ mission'[Queue[i]] = "draft" => mission[Queue[i]] = "draft"
           /\ mission[Queue[i]] = "draft" /\ mission'[Queue[i]] # "draft" =>
                \E h \in Handler : StartNext(h) /\ handler[h].wp = Queue[i]
<1>1. CancelAssumption
  BY DEF CancelAssumption, Undisturbed
<1>2. \A i \in DOMAIN Queue : Queue[i] \in Wp
  BY QueueFacts
<1>3. \A i \in DOMAIN Queue : mission[Queue[i]] \in EndStatus => mission'[Queue[i]] = mission[Queue[i]]
  BY <1>2, EndedStays DEF QueueInvariant
<1>4. \A w \in Wp : /\ mission'[w] = "draft" => mission[w] = "draft"
                    /\ mission[w] = "draft" /\ mission'[w] # "draft" => \E h \in Handler : StartNext(h) /\ handler[h].wp = w
  BY <1>1, DraftStarted DEF QueueInvariant
<1> QED
  BY <1>2, <1>3, <1>4

\* While the queue is quiet only a start changes its missions.
LEMMA QuietStays ==
  ASSUME Undisturbed, QueueInvariant, EndsGone, [Next]_vars, Quiet, \A h \in Handler : ~StartNext(h)
  PROVE  \A i \in DOMAIN Queue : mission'[Queue[i]] = mission[Queue[i]]
BY QueueMissions DEF Quiet

\* A computation that will start a mission was to do so before, unless its
\* mission ends with this step or the queue is run.
LEMMA SucceedsKept ==
  ASSUME Undisturbed, QueueInvariant, [Next]_vars, NEW g \in Handler, Succeeds(g)', ~EndMission(g)
  PROVE  Succeeds(g) /\ handler'[g].wp = handler[g].wp
<1>1. /\ handler'[g].pc \in {"readEnded", "release", "selectNext"} /\ handler'[g].wp \in Range(Queue)
      /\ mission'[handler'[g].wp] = "succeeded"
  BY DEF Succeeds
<1>2. ASSUME NEW w, w = handler[g].wp, w = handler'[g].wp, handler[g].pc \in {"readEnded", "release", "selectNext"}
      PROVE  Succeeds(g)
  <2>1. w \in Wp /\ Ends(handler[g], w)
    BY <1>1, <1>2, QueueFacts DEF Ends, EndPc
  <2>2. mission[w] \in EndStatus
    BY <1>2, <2>1 DEF QueueInvariant, EndedOnce, EndsAt
  <2>3. mission'[w] = mission[w]
    BY <2>1, <2>2, EndedStays DEF QueueInvariant
  <2> QED
    BY <1>1, <1>2, <2>3 DEF Succeeds
<1>3. CASE handler'[g] = handler[g]
  BY <1>1, <1>2, <1>3
<1>4. CASE handler'[g] # handler[g]
  <2>1. CleanUp(g) \/ ReadEnded(g) \/ Release(g)
    BY <1>1, <1>4, ArrivesAtEnd DEF QueueInvariant
  <2>2. \A pc, w, val : At(pc, w, val).wp = w
    BY DEF At
  <2>3. CASE CleanUp(g)
    <3>1. PICK w \in Wp : w = handler[g].wp /\ handler[g].pc = "cleanUp" /\ Changes(w, "-", "-") /\ handler'[g].wp = w
      BY <2>2, <2>3, CleanUpStep DEF QueueInvariant, Moves
    <3>2. mission[w] = "failed"
      BY <3>1 DEF QueueInvariant, EndedOnce, Ends, EndsAt, EndPc
    <3>3. mission'[w] = "failed"
      BY <3>1, <3>2 DEF Changes
    <3> QED
      BY <1>1, <3>1, <3>3
  <2>4. CASE ReadEnded(g)
    <3>1. handler[g].pc = "readEnded" /\ handler'[g].wp = handler[g].wp
      BY <2>2, <2>4, ReadEndedStep DEF QueueInvariant, Moves
    <3> QED
      BY <1>2, <3>1
  <2>5. CASE Release(g)
    <3>1. handler[g].pc = "release" /\ (handler'[g] = Idle \/ handler'[g] = At("selectNext", handler[g].wp, "-"))
      BY <2>5, ReleaseStep DEF QueueInvariant, Moves
    <3>2. handler'[g].wp = handler[g].wp
      BY <1>1, <2>2, <3>1, IdleTask
    <3> QED
      BY <1>2, <3>1, <3>2
  <2> QED
    BY <2>1, <2>3, <2>4, <2>5
<1> QED
  BY <1>3, <1>4

\* The user may start the queue again at one place only, and at none while it
\* goes on by itself.
LEMMA UserPlaces ==
  /\ \A i, j : UserPlace(i) /\ UserPlace(j) => i = j
  /\ \A i, k : UserPlace(i) /\ k \in DOMAIN Queue /\ mission[Queue[k]] = "succeeded" => ~DraftsBehind(k)
<1>1. DOMAIN Queue = 1..Len(Queue) /\ Len(Queue) \in Nat
  BY QueueFacts
<1>2. ASSUME NEW i, UserPlace(i)
      PROVE  /\ i \in Nat /\ (i = 0 \/ (i \in DOMAIN Queue /\ mission[Queue[i]] \in {"failed", "canceled"}))
             /\ \A j \in DOMAIN Queue : j > i => mission[Queue[j]] = "draft"
  BY <1>1, <1>2 DEF UserPlace, DraftsBehind, Listed
<1>3. ASSUME NEW i, NEW j, UserPlace(i), UserPlace(j) PROVE ~(i < j)
  BY <1>1, <1>2, <1>3
<1>4. ASSUME NEW i, NEW j, UserPlace(i), UserPlace(j) PROVE i = j
  <2>1. i \in Nat /\ j \in Nat
    BY <1>2, <1>4
  <2>2. ~(i < j) /\ ~(j < i)
    BY <1>3, <1>4
  <2> QED
    BY <2>1, <2>2
<1>5. ASSUME NEW i, NEW k, UserPlace(i), k \in DOMAIN Queue, mission[Queue[k]] = "succeeded", DraftsBehind(k) PROVE FALSE
  <2>1. \A j \in DOMAIN Queue : j > k => mission[Queue[j]] = "draft"
    BY <1>5 DEF DraftsBehind
  <2> QED
    BY <1>1, <1>2, <1>5, <2>1
<1> QED
  BY <1>4, <1>5

\* The order of the missions is kept.
LEMMA InOrderStep ==
  ASSUME Undisturbed, QueueInvariant, EndsGone, [Next]_vars
  PROVE  InOrder'
<1> SUFFICES ASSUME NEW i \in DOMAIN Queue, NEW j \in DOMAIN Queue, i < j, mission'[Queue[j]] # "draft"
             PROVE  mission'[Queue[i]] \in EndStatus
  BY DEF InOrder
<1>1. mission[Queue[i]] \in EndStatus
  <2>1. CASE mission[Queue[j]] # "draft"
    BY <2>1 DEF QueueInvariant, InOrder
  <2>2. CASE mission[Queue[j]] = "draft"
    <3>1. PICK h \in Handler : StartNext(h) /\ handler[h].wp = Queue[j]
      BY <2>2, QueueMissions
    <3>2. Starter(handler[h])
      BY <3>1, StartNextStep DEF QueueInvariant, Starter
    <3> QED
      BY <3>1, <3>2, QueueFacts DEF QueueInvariant, StartersNext
  <2> QED
    BY <2>1, <2>2
<1> QED
  BY <1>1, QueueMissions

\* The user runs the queue.
LEMMA RunBegins ==
  ASSUME Undisturbed, QueueInvariant, UserRuns
  PROVE  StartersDraft' /\ StartersNext' /\ OneAtOnce'
<1>1. PICK i \in ({0} \cup Listed("failed") \cup Listed("canceled")) \ runs :
        /\ \A j \in DOMAIN Queue : j > i => mission[Queue[j]] = "draft"
        /\ runs' = runs \cup {i}
  BY UserRunsStep DEF QueueInvariant
<1>2. UNCHANGED <<mission, handler>> /\ QueueChanges("-", "run")
  BY UserRunsStep DEF QueueInvariant, QueueChanges
<1>3. UserPlace(i) /\ i \notin runs
  BY <1>1 DEF UserPlace, DraftsBehind
<1>4. RunWaits = 0 /\ \A h \in Handler : ~Starter(handler[h])
  BY <1>3 DEF QueueInvariant, OneAtOnce
<1>5. \A h \in Handler : ~Succeeds(h)
  <2> SUFFICES ASSUME NEW h \in Handler, Succeeds(h) PROVE FALSE
    OBVIOUS
  <2>1. PICK k \in DOMAIN Queue : handler[h].wp = Queue[k] /\ DraftsBehind(k)
    BY DEF QueueInvariant, OneAtOnce
  <2> QED
    BY <1>3, <2>1, UserPlaces DEF Succeeds
<1>6. Quiet
  <2> SUFFICES ASSUME NEW j \in DOMAIN Queue PROVE mission[Queue[j]] \in EndStatus \cup {"draft"}
    BY DEF Quiet
  <2>1. DOMAIN Queue = 1..Len(Queue) /\ Len(Queue) \in Nat /\ j \in Nat /\ j # 0
    BY QueueFacts
  <2>2. i = 0 \/ (i \in DOMAIN Queue /\ mission[Queue[i]] \in EndStatus /\ mission[Queue[i]] # "draft")
    BY <1>1 DEF Listed, EndStatus
  <2>3. CASE j > i
    BY <1>1, <2>3
  <2>4. CASE i \in DOMAIN Queue /\ j < i
    <3>1. mission[Queue[i]] # "draft"
      BY <2>1, <2>2, <2>4
    <3>2. InOrder
      BY DEF QueueInvariant
    <3> QED
      BY <2>4, <3>1, <3>2 DEF InOrder
  <2>5. CASE j = i
    BY <2>1, <2>2, <2>5
  <2> QED
    BY <2>1, <2>2, <2>3, <2>4, <2>5
<1>7. RunWaits' = 1
  BY <1>2, <1>4, RunWaitsAfter DEF QueueInvariant
<1>8. \A k : UserPlace(k)' => UserPlace(k)
  BY <1>2 DEF UserPlace, Listed, DraftsBehind
<1>9. \A k : UserPlace(k)' => k \in runs'
  BY <1>1, <1>3, <1>8, UserPlaces
<1>10. \A h \in Handler : ~GoesOnWithQueue(h)' /\ ~Succeeds(h)'
  BY <1>2, <1>4, <1>5 DEF GoesOnWithQueue, Succeeds
<1>11. Quiet'
  BY <1>2, <1>6 DEF Quiet
<1>12. OneAtOnce'
  BY <1>7, <1>9, <1>10, <1>11 DEF OneAtOnce
<1> QED
  BY <1>2, <1>12 DEF QueueInvariant, StartersDraft, StartersNext

\* What one computation has taken over, it alone does.
LEMMA OneTakesOver ==
  ASSUME NEW h \in Handler, RunWaits' = 0, Quiet', \A g \in Handler : GoesOnWithQueue(g)' => g = h,
         Starter(handler'[h]) =>
           /\ \A k : UserPlace(k)' => k \in runs'
           /\ mission'[handler'[h].wp] = "draft"
           /\ \E i \in DOMAIN Queue : /\ handler'[h].wp = Queue[i]
                                      /\ \A j \in DOMAIN Queue : j < i => mission'[Queue[j]] \in EndStatus,
         Succeeds(h)' => \E i \in DOMAIN Queue : handler'[h].wp = Queue[i] /\ DraftsBehind(i)'
  PROVE  StartersDraft' /\ StartersNext' /\ OneAtOnce'
<1>1. \A g \in Handler : Starter(handler'[g]) => g = h
  BY DEF GoesOnWithQueue
<1>2. \A g \in Handler : Succeeds(g)' => g = h
  BY DEF GoesOnWithQueue
<1>3. OneAtOnce'
  BY <1>1, <1>2 DEF OneAtOnce
<1>4. StartersNext'
  BY <1>1 DEF StartersNext
<1> QED
  BY <1>1, <1>3, <1>4 DEF StartersDraft, Starter

\* The first draft mission is next when the queue is quiet.
LEMMA FirstDraftNext ==
  ASSUME Quiet, UNCHANGED mission, NEW i \in DOMAIN Queue, mission[Queue[i]] = "draft",
         \A j \in DOMAIN Queue : mission[Queue[j]] = "draft" => i <= j
  PROVE  mission'[Queue[i]] = "draft" /\ \A j \in DOMAIN Queue : j < i => mission'[Queue[j]] \in EndStatus
<1>1. \A j \in DOMAIN Queue : j < i => ~(i <= j)
  BY QueueFacts
<1> QED
  BY <1>1 DEF Quiet

\* A run of the queue is taken over by a computation.
LEMMA RunTaken ==
  ASSUME Undisturbed, QueueInvariant, NEW h \in Handler, HandleRun(h)
  PROVE  StartersDraft' /\ StartersNext' /\ OneAtOnce'
<1>1. QueueChanges("run", "-") /\ UNCHANGED <<mission, runs>> /\ RunWaits > 0
  BY HandleRunStep DEF QueueInvariant, QueueChanges, RunWaits
<1>2. RunWaits = 1
  BY <1>1 DEF QueueInvariant, OneAtOnce
<1>3. Quiet /\ (\A g \in Handler : ~GoesOnWithQueue(g)) /\ \A k : UserPlace(k) => k \in runs
  BY <1>2 DEF QueueInvariant, OneAtOnce
<1>4. RunWaits' = 0
  BY <1>1, <1>2, RunWaitsAfter DEF QueueInvariant
<1>5. Quiet' /\ \A k : UserPlace(k)' => k \in runs'
  BY <1>1, <1>3 DEF Quiet, UserPlace, DraftsBehind, Listed
<1>6. \E t : Moves(h, t)
  BY HandleRunStep DEF QueueInvariant
<1>7. \A g \in Handler : GoesOnWithQueue(g)' => g = h
  BY <1>1, <1>3, <1>6 DEF GoesOnWithQueue, Succeeds, Moves
<1>8. CASE Moves(h, Idle)
  <2>1. ~Starter(handler'[h]) /\ ~Succeeds(h)'
    BY <1>8, IdleTask DEF Moves, Starter, Succeeds
  <2> QED
    BY <1>4, <1>5, <1>7, <2>1, OneTakesOver
<1>9. ASSUME NEW i \in DOMAIN Queue, mission[Queue[i]] = "draft", Moves(h, At("setRunning", Queue[i], "-")),
             \A j \in DOMAIN Queue : mission[Queue[j]] = "draft" => i <= j
      PROVE  StartersDraft' /\ StartersNext' /\ OneAtOnce'
  <2>1. handler'[h].wp = Queue[i] /\ ~Succeeds(h)'
    BY <1>9 DEF Moves, At, Succeeds
  <2>2. mission'[Queue[i]] = "draft" /\ \A j \in DOMAIN Queue : j < i => mission'[Queue[j]] \in EndStatus
    BY <1>1, <1>3, <1>9, FirstDraftNext
  <2> QED
    BY <1>4, <1>5, <1>7, <1>9, <2>1, <2>2, OneTakesOver
<1> QED
  BY <1>8, <1>9, HandleRunStep DEF QueueInvariant

\* After a success a computation goes on with the next mission, or stops.
LEMMA NextSelected ==
  ASSUME Undisturbed, QueueInvariant, NEW h \in Handler, SelectNext(h)
  PROVE  StartersDraft' /\ StartersNext' /\ OneAtOnce'
<1>1. UNCHANGED <<mission, runs, events_queue>> /\ handler[h].pc = "selectNext" /\ handler[h].wp \in Range(Queue) /\ handler[h].wp \in Wp
  BY SelectNextStep DEF QueueInvariant, SelectNext
<1>2. mission[handler[h].wp] = "succeeded"
  BY <1>1 DEF QueueInvariant, EndedOnce, Ends, EndPc, EndsAt
<1>3. Succeeds(h) /\ GoesOnWithQueue(h)
  BY <1>1, <1>2 DEF Succeeds, GoesOnWithQueue
<1>4. Quiet /\ RunWaits = 0 /\ \A g \in Handler : GoesOnWithQueue(g) => g = h
  BY <1>3 DEF QueueInvariant, OneAtOnce
<1>5. \A k : ~UserPlace(k)
  <2>1. PICK i \in DOMAIN Queue : handler[h].wp = Queue[i] /\ DraftsBehind(i)
    BY <1>3 DEF QueueInvariant, OneAtOnce
  <2> QED
    BY <1>2, <2>1, UserPlaces
<1>6. RunWaits' = 0 /\ Quiet' /\ \A k : ~UserPlace(k)'
  BY <1>1, <1>4, <1>5 DEF RunWaits, Quiet, UserPlace, DraftsBehind, Listed
<1>7. \E t : Moves(h, t)
  BY SelectNextStep DEF QueueInvariant
<1>8. \A g \in Handler : GoesOnWithQueue(g)' => g = h
  BY <1>1, <1>4, <1>7 DEF GoesOnWithQueue, Succeeds, Moves
<1>9. CASE Moves(h, At("stopQueue", NoWp, "-"))
  <2>1. ~Starter(handler'[h]) /\ ~Succeeds(h)'
    BY <1>9 DEF Moves, At, Starter, Succeeds
  <2> QED
    BY <1>6, <1>8, <2>1, OneTakesOver
<1>10. ASSUME NEW i \in DOMAIN Queue, mission[Queue[i]] = "draft", Moves(h, At("startNext", Queue[i], "-")),
              \A j \in DOMAIN Queue : mission[Queue[j]] = "draft" => i <= j
       PROVE  StartersDraft' /\ StartersNext' /\ OneAtOnce'
  <2>1. handler'[h].wp = Queue[i] /\ ~Succeeds(h)'
    BY <1>10 DEF Moves, At, Succeeds
  <2>2. mission'[Queue[i]] = "draft" /\ \A j \in DOMAIN Queue : j < i => mission'[Queue[j]] \in EndStatus
    BY <1>1, <1>4, <1>10, FirstDraftNext
  <2> QED
    BY <1>6, <1>8, <2>1, <2>2, OneTakesOver
<1> QED
  BY <1>9, <1>10, SelectNextStep DEF QueueInvariant

\* The handler that ends a mission goes on to read it back.
LEMMA EndMissionMoves ==
  ASSUME QueueInvariant, NEW g \in Handler, EndMission(g)
  PROVE  handler'[g].wp = handler[g].wp /\ handler'[g] # handler[g]
<1>1. Typed
  BY DEF QueueInvariant
<1>2. handler[g].pc = "endMission" /\ Moves(g, At("readEnded", handler[g].wp, "-"))
  BY <1>1, EndMissionStep
<1>3. handler'[g] = At("readEnded", handler[g].wp, "-")
  BY <1>2 DEF Moves
<1>4. handler'[g].pc = "readEnded" /\ handler'[g].wp = handler[g].wp
  BY <1>3 DEF At
<1> QED
  BY <1>2, <1>4

\* The queue is set to running, and the computation goes on.
LEMMA RunGoesOn ==
  ASSUME Undisturbed, QueueInvariant, NEW h \in Handler, SetRunning(h)
  PROVE  StartersDraft' /\ StartersNext' /\ OneAtOnce'
<1>1. /\ UNCHANGED <<mission, runs>> /\ QueueChanges("-", "-") /\ handler[h].pc = "setRunning"
      /\ Moves(h, At("startNext", handler[h].wp, "-"))
  BY SetRunningStep DEF QueueInvariant, QueueChanges
<1>2. RunWaits' = RunWaits
  BY <1>1, RunWaitsAfter DEF QueueInvariant
<1>3. \A g \in Handler : (Starter(handler'[g]) <=> Starter(handler[g])) /\ handler'[g].wp = handler[g].wp
  BY <1>1 DEF Moves, At, Starter
<1>4. \A g \in Handler : Succeeds(g)' <=> Succeeds(g)
  <2>1. \A g \in Handler : handler'[g] = handler[g] \/ (handler[g].pc = "setRunning" /\ handler'[g].pc = "startNext")
    BY <1>1 DEF Moves, At
  <2> QED
    BY <1>1, <2>1 DEF Succeeds
<1>5. StartersDraft' /\ StartersNext'
  BY <1>1, <1>3 DEF QueueInvariant, StartersDraft, StartersNext, Starter
<1>6. \A k : (UserPlace(k)' <=> UserPlace(k)) /\ (DraftsBehind(k)' <=> DraftsBehind(k))
  BY <1>1 DEF UserPlace, DraftsBehind, Listed
<1>7. Quiet' <=> Quiet
  BY <1>1 DEF Quiet
<1>8. OneAtOnce'
  BY <1>1, <1>2, <1>3, <1>4, <1>6, <1>7 DEF QueueInvariant, OneAtOnce, GoesOnWithQueue
<1> QED
  BY <1>5, <1>8

\* A mission is started: nobody goes on with the queue until it ends.
LEMMA MissionStarted ==
  ASSUME Undisturbed, QueueInvariant, EndsGone, NEW h \in Handler, StartNext(h), Next
  PROVE  StartersDraft' /\ StartersNext' /\ OneAtOnce'
<1>1. /\ Changes(handler[h].wp, "-", "dispatched") /\ UNCHANGED runs /\ handler[h].pc = "startNext"
      /\ handler[h].wp \in Range(Queue) /\ Moves(h, Idle)
  BY StartNextStep DEF QueueInvariant
<1>2. GoesOnWithQueue(h)
  BY <1>1 DEF GoesOnWithQueue, Starter
<1>3. RunWaits = 0 /\ \A g \in Handler : GoesOnWithQueue(g) => g = h
  BY <1>2 DEF QueueInvariant, OneAtOnce
<1>4. RunWaits' = 0
  BY <1>1, <1>3, RunWaitsAfter DEF QueueInvariant
<1>5. \A g \in Handler : ~Starter(handler'[g])
  BY <1>1, <1>3, IdleTask DEF Moves, Starter, GoesOnWithQueue
<1>6. \A g \in Handler : ~Succeeds(g)'
  <2> SUFFICES ASSUME NEW g \in Handler, Succeeds(g)' PROVE FALSE
    OBVIOUS
  <2>1. g # h /\ handler'[g] = handler[g]
    BY <1>1, IdleTask DEF Succeeds, Moves
  <2>2. ~EndMission(g)
    BY <2>1, EndMissionMoves
  <2>3. Succeeds(g)
    BY <2>2, SucceedsKept
  <2> QED
    BY <1>3, <2>1, <2>3 DEF GoesOnWithQueue
<1>7. OneAtOnce'
  BY <1>4, <1>5, <1>6 DEF OneAtOnce, GoesOnWithQueue
<1> QED
  BY <1>5, <1>7 DEF StartersDraft, StartersNext, Starter

\* A mission of the queue ends; if it has succeeded its computation goes on.
LEMMA MissionEnds ==
  ASSUME Undisturbed, QueueInvariant, EndsGone, NEW h \in Handler, EndMission(h), Next,
         handler[h].wp \in Range(Queue)
  PROVE  StartersDraft' /\ StartersNext' /\ OneAtOnce'
<1>1. /\ Changes(handler[h].wp, "-", handler[h].val) /\ handler[h].val \in EndStatus /\ UNCHANGED runs
      /\ handler[h].pc = "endMission" /\ Moves(h, At("readEnded", handler[h].wp, "-")) /\ handler[h].wp \in Wp
  BY EndMissionStep DEF QueueInvariant
<1>2. PICK k \in DOMAIN Queue : handler[h].wp = Queue[k]
  BY DEF Range
<1>3. mission[Queue[k]] = "assignments_completed" /\ mission[Queue[k]] \notin EndStatus \cup {"draft"}
  <2>1. mission[Queue[k]] = "assignments_completed"
    BY <1>1, <1>2 DEF QueueInvariant, EndedOnce, Ends, EndsAt, EndPc
  <2> QED
    BY <2>1, EndFacts DEF Completion
<1>4. ~Quiet
  BY <1>3 DEF Quiet
<1>5. RunWaits = 0 /\ \A g \in Handler : ~GoesOnWithQueue(g)
  BY <1>4 DEF QueueInvariant, OneAtOnce
<1>6. RunWaits' = 0
  BY <1>1, <1>5, RunWaitsAfter DEF QueueInvariant
<1>7. \A j \in DOMAIN Queue : /\ j < k => mission[Queue[j]] \in EndStatus
                              /\ j > k => mission[Queue[j]] = "draft"
  BY <1>3 DEF QueueInvariant, InOrder
<1>8. \A j \in DOMAIN Queue : mission'[Queue[j]] = IF j = k THEN handler[h].val ELSE mission[Queue[j]]
  <2>1. \A j \in DOMAIN Queue : Queue[j] \in Wp /\ (Queue[j] = Queue[k] => j = k) /\ handler[h].val # "-"
    BY <1>1, EndFacts, QueueFacts
  <2> QED
    BY <1>1, <1>2, <2>1 DEF Changes
<1>9. Quiet' /\ DraftsBehind(k)'
  <2>1. \A j \in DOMAIN Queue : j < k \/ j > k \/ j = k
    BY QueueFacts
  <2>2. \A j \in DOMAIN Queue : mission'[Queue[j]] \in EndStatus \cup {"draft"}
    BY <1>1, <1>7, <1>8, <2>1
  <2>3. \A j \in DOMAIN Queue : j > k => mission'[Queue[j]] = "draft"
    BY <1>7, <1>8, QueueFacts
  <2> QED
    BY <2>2, <2>3 DEF Quiet, DraftsBehind
<1>10. handler'[h].pc = "readEnded" /\ handler'[h].wp = Queue[k]
  BY <1>1, <1>2 DEF Moves, At
<1>11. ASSUME NEW g \in Handler, GoesOnWithQueue(g)', g # h PROVE FALSE
  <2>1. handler'[g] = handler[g]
    BY <1>1, <1>11 DEF Moves
  <2>2. ~EndMission(g)
    BY <2>1, EndMissionMoves
  <2>3. Succeeds(g)' => Succeeds(g)
    BY <2>2, SucceedsKept
  <2> QED
    BY <1>5, <1>11, <2>1, <2>3 DEF GoesOnWithQueue
<1>12. ~Starter(handler'[h])
  BY <1>10 DEF Starter
<1> QED
  BY <1>6, <1>9, <1>10, <1>11, <1>12, OneTakesOver

\* Nothing concerns the queue.
LEMMA QueueLeft ==
  ASSUME Undisturbed, QueueInvariant, EndsGone, [Next]_vars,
         RunWaits' = RunWaits, UNCHANGED runs, \A h \in Handler : ~StartNext(h),
         \A g \in Handler : (Starter(handler'[g]) <=> Starter(handler[g])) /\ (Starter(handler[g]) => handler'[g].wp = handler[g].wp),
         \A g \in Handler : Succeeds(g)' => Succeeds(g) /\ handler'[g].wp = handler[g].wp
  PROVE  StartersDraft' /\ StartersNext' /\ OneAtOnce'
<1>1. \A g \in Handler : GoesOnWithQueue(g)' => GoesOnWithQueue(g)
  BY DEF GoesOnWithQueue
<1>2. CASE RunWaits = 0 /\ \A g \in Handler : ~GoesOnWithQueue(g)
  <2>1. \A g \in Handler : ~GoesOnWithQueue(g)' /\ ~Starter(handler'[g]) /\ ~Succeeds(g)'
    BY <1>1, <1>2 DEF GoesOnWithQueue
  <2>2. OneAtOnce'
    BY <1>2, <2>1 DEF OneAtOnce
  <2> QED
    BY <2>1, <2>2 DEF StartersDraft, StartersNext, Starter
<1>3. CASE RunWaits = 1 \/ \E g \in Handler : GoesOnWithQueue(g)
  <2>1. Quiet
    BY <1>3 DEF QueueInvariant, OneAtOnce
  <2>2. \A i \in DOMAIN Queue : mission'[Queue[i]] = mission[Queue[i]]
    BY <2>1, QuietStays
  <2>3. Quiet' /\ \A k : (UserPlace(k)' <=> UserPlace(k)) /\ (DraftsBehind(k)' <=> DraftsBehind(k))
    BY <2>1, <2>2 DEF Quiet, UserPlace, DraftsBehind, Listed
  <2>4. StartersNext'
    BY <2>2 DEF QueueInvariant, StartersNext
  <2>5. StartersDraft'
    <3> SUFFICES ASSUME NEW g \in Handler, Starter(handler'[g]) PROVE mission'[handler'[g].wp] = "draft"
      BY DEF StartersDraft, Starter
    <3>1. PICK i \in DOMAIN Queue : handler[g].wp = Queue[i]
      BY DEF QueueInvariant, StartersNext
    <3>2. mission[handler[g].wp] = "draft"
      BY DEF QueueInvariant, StartersDraft, Starter
    <3> QED
      BY <2>2, <3>1, <3>2
  <2>6. OneAtOnce'
    <3>1. RunWaits' \in {0, 1} /\ (RunWaits' = 1 => Quiet' /\ \A h \in Handler : ~GoesOnWithQueue(h)')
      BY <1>1, <2>3 DEF QueueInvariant, OneAtOnce
    <3>2. /\ \A h \in Handler : GoesOnWithQueue(h)' => Quiet'
          /\ \A g, h \in Handler : GoesOnWithQueue(g)' /\ GoesOnWithQueue(h)' => g = h
      BY <1>1, <2>3 DEF QueueInvariant, OneAtOnce
    <3>3. RunWaits' = 1 \/ (\E h \in Handler : Starter(handler'[h])) => \A i : UserPlace(i)' => i \in runs'
      BY <2>3 DEF QueueInvariant, OneAtOnce
    <3>4. \A h \in Handler : Succeeds(h)' => \E i \in DOMAIN Queue : handler'[h].wp = Queue[i] /\ DraftsBehind(i)'
      BY <2>3 DEF QueueInvariant, OneAtOnce
    <3> QED
      BY <3>1, <3>2, <3>3, <3>4 DEF OneAtOnce
  <2> QED
    BY <2>4, <2>5, <2>6
<1> QED
  BY <1>2, <1>3 DEF QueueInvariant, OneAtOnce

\* Every step keeps that one thing happens at once.
LEMMA OneAtOnceStep ==
  ASSUME Undisturbed, QueueInvariant, EndsGone, [Next]_vars
  PROVE  StartersDraft' /\ StartersNext' /\ OneAtOnce'
<1> DEFINE Goal == StartersDraft' /\ StartersNext' /\ OneAtOnce'
<1>1. CASE UserRuns
  BY <1>1, RunBegins
<1>2. ASSUME NEW h \in Handler, HandleRun(h) \/ SetRunning(h) \/ SelectNext(h) PROVE Goal
  BY <1>2, RunTaken, RunGoesOn, NextSelected
<1>3. ASSUME NEW h \in Handler, StartNext(h) PROVE Goal
  <2>1. Next
    BY <1>3 DEF Next, Continue, QueueSteps
  <2> QED
    BY <1>3, <2>1, MissionStarted
<1>4. ASSUME NEW h \in Handler, EndMission(h), handler[h].wp \in Range(Queue) PROVE Goal
  <2>1. Next
    BY <1>4 DEF Next, Continue, EndSteps
  <2> QED
    BY <1>4, <2>1, MissionEnds
<1>5. ASSUME RunWaits' = RunWaits, UNCHANGED runs, \A h \in Handler : ~StartNext(h),
             \A g \in Handler : handler'[g] = handler[g] \/ (~Starter(handler[g]) /\ ~Starter(handler'[g])),
             \A h \in Handler : ~(EndMission(h) /\ handler[h].wp \in Range(Queue))
      PROVE  Goal
  <2>1. \A g \in Handler : (Starter(handler'[g]) <=> Starter(handler[g])) /\ (Starter(handler[g]) => handler'[g].wp = handler[g].wp)
    BY <1>5
  <2>2. ASSUME NEW g \in Handler, Succeeds(g)' PROVE Succeeds(g) /\ handler'[g].wp = handler[g].wp
    <3>1. CASE EndMission(g)
      <4>1. handler'[g].wp = handler[g].wp
        BY <3>1, EndMissionMoves
      <4> QED
        BY <1>5, <2>2, <3>1, <4>1 DEF Succeeds
    <3>2. CASE ~EndMission(g)
      BY <2>2, <3>2, SucceedsKept
    <3> QED
      BY <3>1, <3>2
  <2> QED
    BY <1>5, <2>1, <2>2, QueueLeft
<1> QED
  BY <1>1, <1>2, <1>3, <1>4, <1>5, StartersKept DEF QueueInvariant

\* Every step keeps the whole invariant.
LEMMA QueueInvariantStep ==
  ASSUME Undisturbed, QueueInvariant, EndsGone, [Next]_vars
  PROVE  QueueInvariant'
<1>1. CancelAssumption
  BY DEF CancelAssumption, Undisturbed
<1>2. \A v \in Wp : OncePrepared(v)'
  BY <1>1, OncePreparedStep, OncePreparedFrame DEF QueueInvariant, vars, Waiting
<1>3. Typed' /\ NobodyCancels'
  BY TypedStep, NobodyCancelsStep DEF QueueInvariant
<1>4. \A v \in Wp : EarlyUntilPlanned(v)' /\ EndedOnce(v)'
  BY EarlyStep, EndedOnceStep DEF QueueInvariant
<1>5. InOrder' /\ StartersDraft' /\ StartersNext' /\ OneAtOnce'
  BY InOrderStep, OneAtOnceStep
<1> QED
  BY <1>2, <1>3, <1>4, <1>5 DEF QueueInvariant

\* At the start no mission of the queue is under way and nothing waits.
LEMMA QueueInvariantInit ==
  ASSUME Init, Undisturbed
  PROVE  QueueInvariant
<1>1. \A h \in Handler : handler[h] = Idle /\ handler[h].pc = "idle" /\ handler[h].todo = {}
  BY IdleTask DEF Init
<1>2. \A h \in Handler : ~Starter(handler[h]) /\ ~Succeeds(h)
  BY <1>1 DEF Starter, Succeeds
<1>3. \A v \in Wp, h \in Handler : ~Ends(handler[h], v) /\ ~Prepares(handler[h], v)
  BY <1>1, StepKinds DEF Ends, Prepares
<1>4. \A e \in Event : e.kind # "insertion" => events_queue[e] = 0
  BY DEF Init
<1>5. RunWaits = 0 /\ events_queue[QueueEvent("cancel")] = 0
  <2>1. QueueEvent("run") \in Event /\ QueueEvent("cancel") \in Event
    BY EventFacts DEF QueueEvent
  <2>2. QueueEvent("run").kind = "run" /\ QueueEvent("cancel").kind = "cancel"
    BY DEF QueueEvent
  <2> QED
    BY <1>4, <2>1, <2>2 DEF RunWaits
<1>6. \A v \in Wp : \A k \in Completion \cup {"canceling", "dispatched"} : Waiting(k, v) = 0
  <2> SUFFICES ASSUME NEW v \in Wp, NEW k \in Completion \cup {"canceling", "dispatched"} PROVE Waiting(k, v) = 0
    OBVIOUS
  <2>1. MissionEvent(k, v) \in Event /\ k # "insertion"
    BY EventFacts DEF Completion, HandledMission
  <2>2. MissionEvent(k, v).kind = k
    BY DEF MissionEvent
  <2> QED
    BY <1>4, <2>1, <2>2 DEF Waiting
<1>7. \A v \in Wp : EndedOnce(v) /\ EarlyUntilPlanned(v)
  <2> SUFFICES ASSUME NEW v \in Wp PROVE EndedOnce(v) /\ EarlyUntilPlanned(v)
    OBVIOUS
  <2>1. mission[v] \in {"draft", "dispatched"} /\ planned = {}
    BY DEF Init
  <2>2. EndedOnce(v)
    BY <1>3, <1>6, <2>1 DEF EndedOnce
  <2>3. EarlyUntilPlanned(v)
    BY <1>3, <1>6, <2>1 DEF EarlyUntilPlanned
  <2> QED
    BY <2>2, <2>3
<1>8. \A i \in DOMAIN Queue : mission[Queue[i]] = "draft"
  BY QueueFacts, QueueAssumption DEF Init
<1>9. InOrder
  BY <1>8 DEF InOrder
<1>10. OneAtOnce /\ StartersNext
  BY <1>2, <1>5 DEF OneAtOnce, StartersNext, GoesOnWithQueue
<1>11. NobodyCancels
  BY <1>1, <1>5 DEF NobodyCancels
<1>12. StartersDraft
  BY <1>2 DEF StartersDraft, Starter
<1> QED
  BY <1>7, <1>9, <1>10, <1>11, <1>12, TypedInit, OncePreparedInit DEF QueueInvariant

\* What holds along every behaviour of a queue that nobody cancels.
QueueHolds == QueueInvariant /\ EndsGone /\ Reserved

\* At first the queue holds.
LEMMA QueueHoldsInit ==
  ASSUME Init, Undisturbed
  PROVE  QueueHolds
BY QueueInvariantInit, ReservedInit DEF QueueHolds

\* ... and every step keeps.
LEMMA QueueHoldsStep ==
  ASSUME Undisturbed, QueueHolds, [Next]_vars
  PROVE  QueueHolds'
<1>1. QueueInvariant /\ EndsGone /\ Reserved /\ Typed /\ StartersDraft /\ \A v \in Wp : OncePrepared(v)
  BY DEF QueueHolds, QueueInvariant
<1>2. QueueInvariant'
  BY <1>1, QueueInvariantStep
<1>3. NothingRevived
  BY <1>1, NothingRevivedStep
<1>4. EndsGone' /\ Reserved'
  BY <1>1, <1>3, EndsGoneStep, ReservedStep
<1> QED
  BY <1>2, <1>4 DEF QueueHolds

\* Agents are never at work for two missions, for queues of every length and
\* any number of computations, agents and missions besides the queue, unless
\* a mission or the queue is canceled.
THEOREM UndisturbedExclusive ==
  ASSUME Undisturbed
  PROVE  Spec => []ExclusiveAgents
<1>1. Init => QueueHolds
  BY QueueHoldsInit
<1>2. QueueHolds /\ [Next]_vars => QueueHolds'
  BY QueueHoldsStep
<1>3. QueueHolds => ExclusiveAgents
  BY ReservedExclusive DEF QueueHolds
<1> QED
  BY <1>1, <1>2, <1>3, PTL DEF Spec

----------------------------------------------------------------------------
(* What the users of the queue see *)

\* A step writes the status of at most one mission.
LEMMA OneMissionWritten ==
  ASSUME [Next]_vars
  PROVE  UNCHANGED mission \/ \E w, s : mission' = [mission EXCEPT ![w] = s]
<1> DEFINE Written == UNCHANGED mission \/ \E w, s : mission' = [mission EXCEPT ![w] = s]
<1>1. ASSUME NEW w, NEW s, NEW taken, SetMission(w, s, taken) PROVE Written
  BY <1>1 DEF SetMission
<1>2. ASSUME NEW w, NEW s, NEW taken, NEW allowed, SetMissionWhere(w, allowed, s, taken) PROVE Written
  BY <1>1, <1>2 DEF SetMissionWhere
<1> HIDE DEF Written
<1>3. ASSUME NEW w \in Wp, UserCancels(w) \/ PipelineExecutes(w) \/ PipelineFails(w) \/ PipelineCompletes(w) PROVE Written
  BY <1>1, <1>3 DEF UserCancels, PipelineExecutes, PipelineFails, PipelineCompletes
<1>4. ASSUME UserRuns \/ UserCancelsQueue \/ UNCHANGED vars PROVE Written
  BY <1>4 DEF UserRuns, UserCancelsQueue, vars, Written
<1>5. ASSUME NEW h \in Handler, Handle(h) PROVE Written
  <2>1. CASE HandleRun(h) \/ HandleQueueCancel(h)
    BY <2>1 DEF HandleRun, HandleQueueCancel, Written
  <2>2. ASSUME NEW w \in Wp, HandleInsertion(h, w) \/ HandleCanceling(h, w) \/ HandleFailure(h, w) \/ HandleCompleted(h, w)
        PROVE  Written
    <3>1. CASE HandleInsertion(h, w)
      BY <1>1, <3>1 DEF HandleInsertion
    <3>2. CASE HandleCanceling(h, w)
      BY <1>2, <3>2 DEF HandleCanceling
    <3>3. CASE HandleFailure(h, w)
      BY <1>2, <3>3 DEF HandleFailure
    <3>4. CASE HandleCompleted(h, w)
      BY <3>4 DEF HandleCompleted, Written
    <3> QED
      BY <2>2, <3>1, <3>2, <3>3, <3>4
  <2>3. ASSUME NEW w \in Wp, HandleDispatched(h, w) PROVE Written
    BY <2>3 DEF HandleDispatched, Written
  <2> QED
    BY <1>5, <2>1, <2>2, <2>3 DEF Handle
<1>6. ASSUME NEW h \in Handler, QueueSteps(h) PROVE Written
  <2>1. CASE SetRunning(h) \/ StopQueue(h)
    BY <2>1 DEF SetRunning, StopQueue, Written
  <2>2. CASE StartNext(h) \/ \E w \in Wp : CancelMission(h, w)
    BY <1>1, <2>2 DEF StartNext, CancelMission
  <2> QED
    BY <1>6, <2>1, <2>2 DEF QueueSteps
<1>7. ASSUME NEW h \in Handler, PrepareSteps(h) \/ WaitTimesOut(h) PROVE Written
  <2>1. CASE WriteSettings(h) \/ FailPreparation(h) \/ FailPlanning(h) \/ MarkCalculating(h)
    BY <1>1, <1>2, <2>1 DEF WriteSettings, FailPreparation, FailPlanning, MarkCalculating
  <2>2. CASE Prepare(h) \/ AgentsAreFree(h) \/ SendGetReady(h) \/ ReadAgents(h) \/ DecideReady(h) \/ CreateRequests(h) \/ WaitTimesOut(h)
    BY <2>2 DEF Prepare, AgentsAreFree, SendGetReady, ReadAgents, DecideReady, CreateRequests, WaitTimesOut, Written
  <2> QED
    BY <1>7, <2>1, <2>2 DEF PrepareSteps
<1>8. ASSUME NEW h \in Handler, EndSteps(h) PROVE Written
  <2>1. CASE EndMission(h) \/ CleanUp(h)
    BY <1>1, <1>2, <2>1 DEF EndMission, CleanUp, Written
  <2>2. CASE ReadEnded(h) \/ Release(h) \/ SelectNext(h)
    BY <2>2 DEF ReadEnded, Release, SelectNext, Written
  <2> QED
    BY <1>8, <2>1, <2>2 DEF EndSteps
<1>9. ASSUME NEW a \in Agent, AgentActs(a) PROVE Written
  BY <1>9 DEF AgentActs, Written
<1>10. ASSUME NEW h \in Handler, Handle(h) \/ Continue(h) \/ WaitTimesOut(h) PROVE Written
  BY <1>5, <1>6, <1>7, <1>8, <1>10 DEF Continue
<1>11. Written
  BY <1>3, <1>4, <1>9, <1>10 DEF Next
<1> QED
  BY <1>11 DEF Written

\* The stages a status stands for.
LEMMA Stages ==
  /\ \A s : /\ StageOf(s) = "waiting" <=> s = "draft"
            /\ StageOf(s) \in {"succeeded", "stopped"} <=> s \in EndStatus
            /\ StageOf(s) = "underway" <=> s \notin EndStatus \cup {"draft"}
            /\ StageOf(s) \in {"waiting", "underway", "succeeded", "stopped"}
  /\ Sequence!Position = DOMAIN Queue /\ DOMAIN Queue = 1..Len(Queue) /\ Len(Queue) \in Nat
  /\ Stage = [i \in 1..Len(Queue) |-> StageOf(mission[Queue[i]])]
  /\ Stage' = [i \in 1..Len(Queue) |-> StageOf(mission'[Queue[i]])]
<1>1. \A s : /\ StageOf(s) = "waiting" <=> s = "draft"
             /\ StageOf(s) \in {"succeeded", "stopped"} <=> s \in EndStatus
             /\ StageOf(s) = "underway" <=> s \notin EndStatus \cup {"draft"}
             /\ StageOf(s) \in {"waiting", "underway", "succeeded", "stopped"}
  BY DEF StageOf, EndStatus
<1> QED
  BY <1>1, QueueFacts DEF Sequence!Position, Stage

\* A mission is started in its turn: after a success by itself, else by the user.
LEMMA MissionBegins ==
  ASSUME NEW i \in DOMAIN Queue, mission[Queue[i]] = "draft", mission'[Queue[i]] \notin EndStatus \cup {"draft"},
         \A j \in DOMAIN Queue \ {i} : mission'[Queue[j]] = mission[Queue[j]],
         \A j \in DOMAIN Queue : j < i => mission[Queue[j]] \in EndStatus
  PROVE  Sequence!Next
<1>1. Stage[i] = "waiting" /\ \A j \in 1..i-1 : Stage[j] \in {"succeeded", "stopped"}
  BY Stages
<1>2. Stage' = [Stage EXCEPT ![i] = "underway"]
  BY Stages
<1>3. CASE i > 1 /\ Stage[i - 1] = "succeeded"
  BY <1>1, <1>2, <1>3, Stages DEF Sequence!Next, Sequence!Follow, Sequence!Begins
<1>4. CASE i = 1 \/ Stage[i - 1] = "stopped"
  BY <1>1, <1>2, <1>4, Stages DEF Sequence!Next, Sequence!UserStarts, Sequence!Begins
<1>5. i = 1 \/ (i > 1 /\ i - 1 \in 1..i-1)
  BY Stages
<1> QED
  BY <1>1, <1>3, <1>4, <1>5

\* A step of the events, handlers and computations is one of the sequence, or none.
LEMMA SequenceStep ==
  ASSUME Undisturbed, QueueHolds, [Next]_vars
  PROVE  [Sequence!Next]_Stage
<1>0. QueueInvariant /\ EndsGone /\ Typed
  BY DEF QueueHolds, QueueInvariant
<1>1. \A i \in DOMAIN Queue : Queue[i] \in Wp /\ \A j \in DOMAIN Queue : Queue[i] = Queue[j] => i = j
  BY QueueFacts
<1>2. CASE \A i \in DOMAIN Queue : mission'[Queue[i]] = mission[Queue[i]]
  BY <1>2, Stages
<1>3. ASSUME NEW i \in DOMAIN Queue, mission'[Queue[i]] # mission[Queue[i]]
      PROVE  [Sequence!Next]_Stage
  <2>1. PICK w, s : mission' = [mission EXCEPT ![w] = s]
    BY <1>3, OneMissionWritten
  <2>2. w = Queue[i]
    BY <1>3, <2>1
  <2>3. \A j \in DOMAIN Queue \ {i} : mission'[Queue[j]] = mission[Queue[j]]
    BY <1>1, <2>1, <2>2
  <2>4. mission[Queue[i]] \notin EndStatus /\ mission'[Queue[i]] # "draft"
    BY <1>0, <1>3, QueueMissions
  <2>5. CASE mission[Queue[i]] = "draft"
    <3>1. PICK h \in Handler : StartNext(h) /\ handler[h].wp = Queue[i]
      BY <1>0, <2>4, <2>5, QueueMissions
    <3>2. handler[h].pc = "startNext" /\ Changes(handler[h].wp, "-", "dispatched")
      BY <1>0, <3>1, StartNextStep
    <3>3. mission'[Queue[i]] = "dispatched" /\ Starter(handler[h])
      BY <1>1, <3>1, <3>2 DEF Changes, Starter
    <3>4. \A j \in DOMAIN Queue : j < i => mission[Queue[j]] \in EndStatus
      BY <1>0, <1>1, <3>1, <3>3 DEF QueueInvariant, StartersNext
    <3> QED
      BY <2>3, <2>5, <3>3, <3>4, MissionBegins DEF EndStatus
  <2>6. CASE mission[Queue[i]] # "draft"
    <3>1. Stage[i] = "underway" /\ Stage' = [Stage EXCEPT ![i] = StageOf(mission'[Queue[i]])]
      <4>1. Stage[i] = StageOf(mission[Queue[i]]) /\ mission[Queue[i]] \notin EndStatus \cup {"draft"}
        BY <2>4, <2>6, Stages
      <4>2. Stage[i] = "underway"
        BY <4>1, Stages
      <4>3. \A j \in DOMAIN Queue \ {i} : Stage'[j] = Stage[j]
        BY <2>3, Stages
      <4> QED
        BY <4>2, <4>3, Stages
    <3>2. StageOf(mission'[Queue[i]]) \in {"underway", "succeeded", "stopped"}
      BY <2>4, Stages
    <3>3. CASE StageOf(mission'[Queue[i]]) = "underway"
      BY <3>1, <3>3, Stages
    <3>4. CASE StageOf(mission'[Queue[i]]) \in {"succeeded", "stopped"}
      BY <3>1, <3>4, Stages DEF Sequence!Next, Sequence!Finish
    <3> QED
      BY <3>2, <3>3, <3>4
  <2> QED
    BY <2>5, <2>6
<1> QED
  BY <1>2, <1>3

\* The events, handlers and computations of a queue implement, in safety, the
\* sequence its users rely on: one mission after the other, the next one after
\* a success or when the user starts the queue again.
THEOREM ImplementsSequence ==
  ASSUME Undisturbed
  PROVE  Spec => Sequence!Safety
<1>1. Init => QueueHolds /\ Sequence!Init
  <2> SUFFICES ASSUME Init PROVE QueueHolds /\ Sequence!Init
    OBVIOUS
  <2>1. \A i \in DOMAIN Queue : mission[Queue[i]] = "draft"
    BY QueueFacts, QueueAssumption DEF Init
  <2> QED
    BY <2>1, QueueHoldsInit, Stages DEF Sequence!Init
<1>2. QueueHolds /\ [Next]_vars => QueueHolds'
  BY QueueHoldsStep
<1>3. QueueHolds /\ [Next]_vars => [Sequence!Next]_Stage
  BY SequenceStep
<1> QED
  BY <1>1, <1>2, <1>3, PTL DEF Spec, Sequence!Safety

\* In the sequence, a mission that begins finds those before it over, and those
\* behind it still waiting; one that is over stays over.
LEMMA OrderStep ==
  ASSUME Sequence!TypeOK, Sequence!OneAtATime, [Sequence!Next]_Stage
  PROVE  Sequence!TypeOK' /\ Sequence!OneAtATime'
<1>1. Sequence!Position = 1..Len(Queue) /\ Len(Queue) \in Nat
  BY Stages
<1>2. CASE UNCHANGED Stage
  BY <1>2 DEF Sequence!TypeOK, Sequence!OneAtATime, Sequence!Position
<1>3. ASSUME NEW i \in Sequence!Position, NEW before, Sequence!Begins(i, before)
      PROVE  Sequence!TypeOK' /\ Sequence!OneAtATime'
  <2>1. Stage' = [Stage EXCEPT ![i] = "underway"] /\ Stage[i] = "waiting"
        /\ \A j \in 1..i-1 : Stage[j] \in {"succeeded", "stopped"}
    BY <1>3 DEF Sequence!Begins
  <2>2. \A j \in Sequence!Position : j < i => j \in 1..i-1
    BY <1>1
  <2> QED
    BY <1>1, <2>1, <2>2 DEF Sequence!TypeOK, Sequence!OneAtATime, Sequence!Position
<1>4. ASSUME NEW i \in Sequence!Position, Sequence!Finish(i)
      PROVE  Sequence!TypeOK' /\ Sequence!OneAtATime'
  BY <1>1, <1>4 DEF Sequence!Finish, Sequence!TypeOK, Sequence!OneAtATime, Sequence!Position
<1> QED
  BY <1>2, <1>3, <1>4 DEF Sequence!Next, Sequence!Follow, Sequence!UserStarts

\* What the sequence promises, for queues of every length: a mission has begun
\* only if all those before it in the queue are over.
THEOREM RunsOneAtATime == Sequence!Safety => []Sequence!OneAtATime
<1>1. Sequence!Init => Sequence!TypeOK /\ Sequence!OneAtATime
  BY DEF Sequence!Init, Sequence!TypeOK, Sequence!OneAtATime
<1>2. Sequence!TypeOK /\ Sequence!OneAtATime /\ [Sequence!Next]_Stage
      => Sequence!TypeOK' /\ Sequence!OneAtATime'
  BY OrderStep
<1> QED
  BY <1>1, <1>2, PTL DEF Sequence!Safety

\* And so the handlers keep that promise: they start a mission of a queue that
\* is not canceled only when those before it have ended.
THEOREM MissionsOneAtATime ==
  ASSUME Undisturbed
  PROVE  Spec => []Sequence!OneAtATime
BY ImplementsSequence, RunsOneAtATime, PTL
=============================================================================
