---------------------------- MODULE StartUp_proofs ----------------------------
(***************************************************************************)
(* Proofs about StartUp, for any number of nodes, files, crashes and       *)
(* interruptions of the broker: at most one enabled service of each type   *)
(* is registered (OneServiceOfType), a mission type without its whole      *)
(* recipe has a node that is inserting it, unless a process has died       *)
(* (RecipeInWork), and the connections of a node at most double with each  *)
(* interruption (ConnectionsDouble).                                       *)
(*                                                                         *)
(* The first two are about races at a table: between a node's look at it   *)
(* and its insertion every other node may have inserted.  The first is     *)
(* kept by the index alone.  The second needs to know how far each         *)
(* insertion is: the steps before the current one of a node are in the     *)
(* table (Placed).  For the third, a node has and waits for no connection  *)
(* before it connects (LoadBounded).                                       *)
(***************************************************************************)
EXTENDS StartUp, TLAPS

Inserted(i, s) == \E row \in plans[MissionsYml[i].name] : row.step = s.step

\* Where a process may be in the lists, and what it has inserted so far.
Placed(s) ==
  /\ s.pc \in {"down", "start"} => s.at = 1
  /\ s.pc \in {"down", "start", "selectService", "insertService", "selectMission", "insertMission"}
       => s.step = 1
  /\ s.pc \in {"selectService", "insertService"} => s.at \in DOMAIN ServicesYml
  /\ s.pc \in {"selectMission", "insertMission", "insertStep"} => s.at \in DOMAIN MissionsYml
  /\ s.pc = "insertStep" =>
       /\ s.step \in DOMAIN RecipeSteps(s.at)
       /\ \A j \in 1..(s.step - 1) : Inserted(s.at, RecipeSteps(s.at)[j])

TablesOK ==
  /\ node \in [Node -> NodeState]
  /\ services \in [Names(ServicesYml) -> Nat]
  /\ DOMAIN plans = Names(MissionsYml)
  /\ crashes \in Nat

StartInvariant ==
  /\ TablesOK
  /\ \A n \in Node : Placed(node[n])
  /\ OneServiceOfType
  /\ RecipeInWork

----------------------------------------------------------------------------
(* The lists *)

\* Lists are not empty, and a name is at one place.
LEMMA Lists ==
  /\ Len(ServicesYml) \in Nat /\ DOMAIN ServicesYml = 1..Len(ServicesYml)
  /\ Len(MissionsYml) \in Nat /\ DOMAIN MissionsYml = 1..Len(MissionsYml)
  /\ 1 \in DOMAIN ServicesYml /\ 1 \in DOMAIN MissionsYml
BY ListsAssumption, StartAssumption

\* The steps of a recipe are a sequence.
LEMMA Steps ==
  ASSUME NEW i \in DOMAIN MissionsYml
  PROVE  /\ Len(RecipeSteps(i)) \in Nat
         /\ DOMAIN RecipeSteps(i) = 1..Len(RecipeSteps(i))
         /\ RecipeSteps(i) # <<>> => 1 \in DOMAIN RecipeSteps(i)
<1> DEFINE entries == MissionsYml[i].entries
           steps == Or(entries, "recipe", <<>>)
<1>1. steps \in Seq(Range(steps))
  <2>1. CASE "recipe" \in DOMAIN entries
    BY <2>1, ListsAssumption DEF Or
  <2>2. CASE "recipe" \notin DOMAIN entries
    BY <2>2 DEF Or
  <2>3. QED
    BY <2>1, <2>2
<1>2. Len(steps) \in Nat /\ DOMAIN steps = 1..Len(steps)
  BY <1>1
<1>3. RecipeSteps(i) = [j \in 1..Len(steps) |->
         [step |-> steps[j].step, depends_on_steps |-> Or(steps[j], "dependencies", {})]]
  BY <1>2 DEF RecipeSteps
<1>4. DOMAIN RecipeSteps(i) = 1..Len(steps) /\ Len(RecipeSteps(i)) = Len(steps)
  BY <1>2, <1>3
<1>5. Len(steps) = 0 => RecipeSteps(i) = <<>>
  BY <1>3, <1>2
<1>6. QED
  BY <1>2, <1>4, <1>5

----------------------------------------------------------------------------
(* One node moves, the tables of services, types and plans stay *)

\* A process that inserts no step moves on to another place.
LEMMA MoveKeeps ==
  ASSUME StartInvariant, NEW n \in Node, NEW s \in NodeState, Sets(n, s),
         UNCHANGED <<services, types, plans>>, crashes' \in Nat, crashes' >= crashes,
         node[n].pc # "insertStep" \/ crashes' > 0,
         Placed(s)
  PROVE  StartInvariant'
<1>1. \A m \in Node : node'[m] = IF m = n THEN s ELSE node[m]
  BY DEF Sets, StartInvariant, TablesOK
<1>2. TablesOK'
  BY DEF Sets, StartInvariant, TablesOK
<1>3. \A m \in Node : Placed(node[m])' 
  BY <1>1 DEF StartInvariant, Placed, Inserted
<1>4. OneServiceOfType'
  BY DEF StartInvariant, OneServiceOfType
<1>5. RecipeInWork'
  BY <1>1 DEF StartInvariant, TablesOK, RecipeInWork, Complete, At
<1>6. QED
  BY <1>2, <1>3, <1>4, <1>5 DEF StartInvariant

\* A process that is past the lists may be anywhere in them.
Past == {"selectAgent", "updateAgent", "insertAgent", "readConfig", "insertConfig",
         "listen", "accounts", "wait", "connect", "schema", "consume", "running"}

\* Steps of a process that is past the files of services and missions.
LEMMA PastKeeps ==
  ASSUME StartInvariant, NEW n \in Node, NEW s \in NodeState, Sets(n, s),
         UNCHANGED <<services, types, plans, crashes>>,
         node[n].pc \in Past, s.pc \in Past \/ s = Down
  PROVE  StartInvariant'
<1>1. Placed(s)
  BY DEF Placed, Past, Down
<1>2. QED
  BY <1>1, MoveKeeps DEF StartInvariant, TablesOK, Past

----------------------------------------------------------------------------
(* Registration *)

\* The next entry, or the next list.
LEMMA NextServicePlaced ==
  ASSUME StartInvariant, NEW n \in Node, node[n].at \in DOMAIN ServicesYml, NextService(n)
  PROVE  \E s \in NodeState : Sets(n, s) /\ Placed(s)
<1> DEFINE s == IF node[n].at < Len(ServicesYml)
                THEN [node[n] EXCEPT !.pc = "selectService", !.at = @ + 1, !.step = 1]
                ELSE [node[n] EXCEPT !.pc = "selectMission", !.at = 1, !.step = 1]
<1>1. node[n] \in NodeState
  BY DEF StartInvariant, TablesOK
<1>2. s \in NodeState
  <2>1. node[n].at + 1 \in Nat
    BY <1>1 DEF NodeState
  <2>2. QED
    BY <1>1, <2>1 DEF NodeState
<1>3. Placed(s)
  <2>1. s.pc = "selectService" => s.at \in DOMAIN ServicesYml
    BY <1>1, Lists DEF NodeState
  <2>2. s.pc = "selectMission" => s.at \in DOMAIN MissionsYml
    BY <1>1, Lists DEF NodeState
  <2>3. s.pc \in {"selectService", "selectMission"}
    BY <1>1 DEF NodeState
  <2>4. s.step = 1
    BY <1>1 DEF NodeState
  <2>5. QED
    BY <2>1, <2>2, <2>3, <2>4 DEF Placed
<1>4. QED
  BY <1>2, <1>3 DEF NextService, NextEntry

\* The next mission of the list, or the first agent, is a place there is.
LEMMA NextMissionPlaced ==
  ASSUME StartInvariant, NEW n \in Node, node[n].at \in DOMAIN MissionsYml, NextMission(n)
  PROVE  \E s \in NodeState : Sets(n, s) /\ Placed(s) /\ s.pc # "insertStep"
<1> DEFINE s == IF node[n].at < Len(MissionsYml)
                THEN [node[n] EXCEPT !.pc = "selectMission", !.at = @ + 1, !.step = 1]
                ELSE [node[n] EXCEPT !.pc = "selectAgent", !.at = 1, !.step = 1]
<1>1. node[n] \in NodeState
  BY DEF StartInvariant, TablesOK
<1>2. s \in NodeState
  <2>1. node[n].at + 1 \in Nat
    BY <1>1 DEF NodeState
  <2>2. QED
    BY <1>1, <2>1 DEF NodeState
<1>3. Placed(s) /\ s.pc # "insertStep"
  <2>1. s.pc = "selectMission" => s.at \in DOMAIN MissionsYml
    BY <1>1, Lists DEF NodeState
  <2>2. s.pc \in {"selectMission", "selectAgent"}
    BY <1>1 DEF NodeState
  <2>3. s.step = 1
    BY <1>1 DEF NodeState
  <2>4. QED
    BY <2>1, <2>2, <2>3 DEF Placed
<1>4. QED
  BY <1>2, <1>3 DEF NextMission, NextEntry

\* A process that only changes its place.
LEMMA GoesPlaced ==
  ASSUME StartInvariant, NEW n \in Node, NEW pc, [node[n] EXCEPT !.pc = pc] \in NodeState,
         Goes(n, pc), Placed([node[n] EXCEPT !.pc = pc]), node[n].pc # "insertStep",
         UNCHANGED <<services, types, plans, crashes>>
  PROVE  StartInvariant'
BY MoveKeeps DEF Goes, StartInvariant, TablesOK

\* The index allows one enabled service of a type.
LEMMA InsertServiceKeeps ==
  ASSUME StartInvariant, NEW n \in Node, InsertService(n)
  PROVE  StartInvariant'
<1> DEFINE a == node[n].at
           s == FlatServices[a]
<1>1. node[n].pc = "insertService" /\ a \in DOMAIN ServicesYml
  BY DEF InsertService, At, StartInvariant, Placed
<1>2. \A i \in DOMAIN ServicesYml : FlatServices[i].name = ServicesYml[i].name /\ FlatServices[i].name \in Names(ServicesYml)
  BY DEF FlatServices, FlattenService, Names
<1>3. PICK t \in NodeState : Sets(n, t) /\ Placed(t)
  BY <1>1, NextServicePlaced DEF InsertService
<1>4. UNCHANGED <<types, plans, crashes>>
  BY DEF InsertService, budget
<1>5. services' = IF ServiceRefused(s) THEN services ELSE [services EXCEPT ![s.name] = @ + 1]
  BY DEF InsertService
<1>6. DOMAIN FlatServices = DOMAIN ServicesYml
  BY DEF FlatServices
<1>7. services \in [Names(ServicesYml) -> Nat] /\ OneServiceOfType
  BY DEF StartInvariant, TablesOK
<1>8. CASE ServiceRefused(s)
  BY <1>1, <1>3, <1>4, <1>5, <1>8, MoveKeeps DEF StartInvariant, TablesOK
<1>9. CASE ~ServiceRefused(s)
  <2>1. \A i \in DOMAIN ServicesYml :
          services'[FlatServices[i].name] =
            IF i = a THEN services[FlatServices[i].name] + 1 ELSE services[FlatServices[i].name]
    BY <1>1, <1>2, <1>5, <1>7, <1>9, NamesAssumption
  <2>2. s.enabled => \A i \in DOMAIN ServicesYml :
          FlatServices[i].enabled /\ FlatServices[i].service_type = s.service_type
            => services[FlatServices[i].name] = 0
    BY <1>2, <1>6, <1>7, <1>9 DEF ServiceRefused
  <2>3. OneServiceOfType'
    <3> SUFFICES ASSUME NEW i \in DOMAIN ServicesYml, NEW j \in DOMAIN ServicesYml,
                        FlatServices[i].enabled, FlatServices[j].enabled,
                        FlatServices[i].service_type = FlatServices[j].service_type,
                        services'[FlatServices[i].name] > 0, services'[FlatServices[j].name] > 0
                 PROVE  i = j /\ services'[FlatServices[i].name] = 1
      BY <1>6 DEF OneServiceOfType
    <3>1. CASE i = a \/ j = a
      <4>1. s.enabled /\ services[FlatServices[i].name] = 0 /\ services[FlatServices[j].name] = 0
        BY <2>2, <3>1
      <4>2. QED
        BY <2>1, <3>1, <4>1
    <3>2. CASE i # a /\ j # a
      BY <1>6, <1>7, <2>1, <3>2 DEF OneServiceOfType
    <3>3. QED
      BY <3>1, <3>2
  <2>4. \A m \in Node : node'[m] = IF m = n THEN t ELSE node[m]
    BY <1>3 DEF Sets, StartInvariant, TablesOK
  <2>5. TablesOK'
    BY <1>1, <1>2, <1>3, <1>4, <1>5, <1>7 DEF Sets, StartInvariant, TablesOK
  <2>6. \A m \in Node : Placed(node[m])'
    BY <1>3, <1>4, <2>4 DEF StartInvariant, Placed, Inserted
  <2>7. RecipeInWork'
    BY <1>1, <1>4, <2>4 DEF StartInvariant, RecipeInWork, Complete, At
  <2>8. QED
    BY <2>3, <2>5, <2>6, <2>7 DEF StartInvariant
<1>10. QED
  BY <1>8, <1>9

\* Who inserts a type inserts its recipe next.
LEMMA InsertMissionKeeps ==
  ASSUME StartInvariant, NEW n \in Node, InsertMission(n)
  PROVE  StartInvariant'
<1> DEFINE a == node[n].at
           m == FlatMissions[a]
<1>1. node[n].pc = "insertMission" /\ a \in DOMAIN MissionsYml /\ node[n] \in NodeState
  BY DEF InsertMission, At, StartInvariant, Placed, TablesOK
<1>2. m.name = MissionsYml[a].name
  BY <1>1 DEF FlatMissions, FlattenMission
<1>3. UNCHANGED <<services, plans, crashes>>
  BY DEF InsertMission, budget
<1>4. CASE MissionRefused(m)
  <2>1. NextMission(n) /\ UNCHANGED types
    BY <1>4 DEF InsertMission
  <2>2. PICK t \in NodeState : Sets(n, t) /\ Placed(t)
    BY <1>1, <2>1, NextMissionPlaced
  <2>3. QED
    BY <1>1, <1>3, <2>1, <2>2, MoveKeeps DEF StartInvariant, TablesOK
<1>5. CASE ~MissionRefused(m)
  <2>1. types' = types \cup {m.name}
    BY <1>5 DEF InsertMission
  <2>2. PICK t \in NodeState : /\ Sets(n, t) /\ Placed(t)
                               /\ RecipeSteps(a) # <<>> => t.pc = "insertStep" /\ t.at = a
    <3>1. CASE RecipeSteps(a) = <<>>
      BY <1>1, <1>5, <3>1, NextMissionPlaced DEF InsertMission
    <3>2. CASE RecipeSteps(a) # <<>>
      <4> DEFINE t == [node[n] EXCEPT !.pc = "insertStep"]
      <4>1. t \in NodeState /\ t.pc = "insertStep" /\ t.at = a /\ t.step = node[n].step
        BY <1>1 DEF NodeState
      <4>2. Sets(n, t)
        BY <1>5, <3>2 DEF InsertMission, Goes
      <4>3. node[n].step = 1 /\ 1 \in DOMAIN RecipeSteps(a)
        BY <1>1, <3>2, Steps DEF StartInvariant, Placed
      <4>4. Placed(t)
        BY <1>1, <4>1, <4>3 DEF Placed
      <4>5. QED
        BY <4>1, <4>2, <4>4
    <3>3. QED
      BY <3>1, <3>2
  <2>3. \A k \in Node : node'[k] = IF k = n THEN t ELSE node[k]
    BY <2>2 DEF Sets, StartInvariant, TablesOK
  <2>4. TablesOK'
    BY <1>3, <2>2 DEF Sets, StartInvariant, TablesOK
  <2>5. \A k \in Node : Placed(node[k])'
    BY <1>3, <2>2, <2>3 DEF StartInvariant, Placed, Inserted
  <2>6. OneServiceOfType'
    BY <1>3 DEF StartInvariant, OneServiceOfType
  <2>7. ASSUME NEW i \in DOMAIN MissionsYml, MissionsYml[i].name \in types', ~Complete(i)'
        PROVE  crashes' > 0 \/ \E k \in Node : At(k, "insertStep")' /\ node'[k].at = i
    <3>1. Complete(i)' <=> Complete(i)
      BY <1>3 DEF Complete
    <3>2. CASE i = a
      <4>1. RecipeSteps(a) # <<>>
        BY <2>7, <3>1, <3>2 DEF Complete, Range
      <4>2. QED
        BY <2>2, <2>3, <3>2, <4>1 DEF At
    <3>3. CASE i # a
      <4>1. MissionsYml[i].name \in types
        BY <1>1, <1>2, <2>1, <2>7, <3>3, NamesAssumption
      <4>2. crashes > 0 \/ \E k \in Node : At(k, "insertStep") /\ node[k].at = i
        BY <2>7, <3>1, <4>1 DEF StartInvariant, RecipeInWork
      <4>3. QED
        BY <1>1, <1>3, <2>3, <4>2 DEF At
    <3>4. QED
      BY <3>2, <3>3
  <2>8. RecipeInWork'
    BY <2>7 DEF RecipeInWork
  <2>9. QED
    BY <2>4, <2>5, <2>6, <2>8 DEF StartInvariant
<1>6. QED
  BY <1>4, <1>5

\* A step of a recipe is inserted, or is there; after the last one the
\* recipe is complete.
LEMMA InsertStepKeeps ==
  ASSUME StartInvariant, NEW n \in Node, InsertStep(n)
  PROVE  StartInvariant'
<1>0. PICK a, k : a = node[n].at /\ k = node[n].step
  OBVIOUS
<1> DEFINE m == MissionsYml[a].name
           s == RecipeSteps(a)[k]
<1>1. /\ node[n].pc = "insertStep" /\ a \in DOMAIN MissionsYml /\ node[n] \in NodeState
      /\ k \in DOMAIN RecipeSteps(a)
      /\ \A j \in 1..(k - 1) : Inserted(a, RecipeSteps(a)[j])
  BY <1>0 DEF InsertStep, At, StartInvariant, Placed, TablesOK
<1>2. FlatMissions[a].name = m /\ m \in Names(MissionsYml) /\ DOMAIN plans = Names(MissionsYml)
  BY <1>1 DEF FlatMissions, FlattenMission, Names, StartInvariant, TablesOK
<1>3. UNCHANGED <<services, types, crashes>>
  BY DEF InsertStep, budget
<1>4. plans' = IF StepRefused(m, s) THEN plans ELSE [plans EXCEPT ![m] = @ \cup {s}]
  BY <1>0, <1>2 DEF InsertStep
<1>5. /\ DOMAIN plans' = DOMAIN plans
      /\ \A x \in DOMAIN plans : plans[x] \subseteq plans'[x]
  BY <1>4
<1>6. \A i \in DOMAIN MissionsYml : \A x : Inserted(i, x) => Inserted(i, x)'
  BY <1>2, <1>5 DEF Inserted, Names
<1>7. Inserted(a, s)'
  <2>1. CASE StepRefused(m, s)
    BY <1>4, <2>1 DEF StepRefused, Inserted
  <2>2. CASE ~StepRefused(m, s)
    BY <1>2, <1>4, <2>2 DEF Inserted
  <2>3. QED
    BY <2>1, <2>2
<1>8. k \in 1..Len(RecipeSteps(a)) /\ Len(RecipeSteps(a)) \in Nat
  BY <1>1, Steps
<1>9. \A j \in 1..k : Inserted(a, RecipeSteps(a)[j])'
  <2> SUFFICES ASSUME NEW j \in 1..k PROVE Inserted(a, RecipeSteps(a)[j])'
    OBVIOUS
  <2>1. CASE j = k
    BY <1>7, <2>1
  <2>2. CASE j # k
    <3>1. j \in 1..(k - 1)
      BY <1>8, <2>2
    <3>2. QED
      BY <1>1, <1>6, <3>1
  <2>3. QED
    BY <2>1, <2>2
<1>10. PICK t \in NodeState : /\ Sets(n, t) /\ Placed(t)'
                              /\ (t.pc = "insertStep" /\ t.at = a) \/ k = Len(RecipeSteps(a))
  <2>1. CASE k < Len(RecipeSteps(a))
    <3>0. PICK t : t = [node[n] EXCEPT !.step = @ + 1]
      OBVIOUS
    <3>1. k + 1 \in Nat
      BY <1>8
    <3>2. t \in NodeState /\ t.pc = "insertStep" /\ t.at = a /\ t.step = k + 1
      BY <1>0, <1>1, <3>0, <3>1 DEF NodeState
    <3>3. k + 1 \in DOMAIN RecipeSteps(a) /\ (k + 1) - 1 = k
      BY <1>1, <1>8, <2>1, Steps
    <3>4. Placed(t)'
      BY <1>1, <1>9, <3>2, <3>3 DEF Placed
    <3>5. Sets(n, t)
      BY <1>0, <2>1, <3>0 DEF InsertStep
    <3>6. QED
      BY <3>2, <3>4, <3>5
  <2>2. CASE ~(k < Len(RecipeSteps(a)))
    <3>1. NextMission(n)
      BY <1>0, <2>2 DEF InsertStep
    <3>2. PICK t \in NodeState : Sets(n, t) /\ Placed(t) /\ t.pc # "insertStep"
      BY <1>0, <1>1, <3>1, NextMissionPlaced
    <3>3. Placed(t)'
      BY <3>2 DEF Placed
    <3>4. k = Len(RecipeSteps(a))
      BY <1>8, <2>2
    <3>5. QED
      BY <3>2, <3>3, <3>4
  <2>3. QED
    BY <2>1, <2>2
<1>11. \A q \in Node : node'[q] = IF q = n THEN t ELSE node[q]
  BY <1>10 DEF Sets, StartInvariant, TablesOK
<1>12. TablesOK'
  BY <1>3, <1>5, <1>10 DEF Sets, StartInvariant, TablesOK
<1>13. \A q \in Node : Placed(node[q])'
  <2> SUFFICES ASSUME NEW q \in Node, q # n PROVE Placed(node[q])'
    BY <1>10, <1>11 DEF Placed
  <2>1. Placed(node[q]) /\ node'[q] = node[q]
    BY <1>11 DEF StartInvariant
  <2>2. QED
    BY <1>6, <2>1 DEF Placed
<1>14. OneServiceOfType'
  BY <1>3 DEF StartInvariant, OneServiceOfType
<1>15. ASSUME NEW i \in DOMAIN MissionsYml, MissionsYml[i].name \in types', ~Complete(i)'
       PROVE  crashes' > 0 \/ \E q \in Node : At(q, "insertStep")' /\ node'[q].at = i
  <2>1. ~Complete(i)
    BY <1>6, <1>15 DEF Complete, Inserted
  <2>2. crashes > 0 \/ \E q \in Node : At(q, "insertStep") /\ node[q].at = i
    BY <1>3, <1>15, <2>1 DEF StartInvariant, RecipeInWork
  <2>3. CASE k = Len(RecipeSteps(a)) /\ i = a
    <3>1. \A j \in DOMAIN RecipeSteps(a) : Inserted(a, RecipeSteps(a)[j])'
      BY <1>9, <2>3, Steps, <1>1
    <3>2. QED
      BY <1>15, <2>3, <3>1 DEF Complete, Inserted, Range
  <2>4. CASE ~(k = Len(RecipeSteps(a)) /\ i = a)
    BY <1>0, <1>3, <1>10, <1>11, <2>2, <2>4 DEF At
  <2>5. QED
    BY <2>3, <2>4
<1>16. RecipeInWork'
  BY <1>15 DEF RecipeInWork
<1>17. QED
  BY <1>12, <1>13, <1>14, <1>16 DEF StartInvariant

\* Reading a list, or a table, moves the process on.
LEMMA SelectKeeps ==
  ASSUME StartInvariant, NEW n \in Node,
         Fork(n) \/ Start(n) \/ SelectService(n) \/ SelectMission(n)
  PROVE  StartInvariant'
<1> USE DEF db, budget
<1>0. node[n] \in NodeState /\ Placed(node[n])
  BY DEF StartInvariant, TablesOK
<1>1. CASE Fork(n)
  <2>1. [node[n] EXCEPT !.pc = "start"] \in NodeState /\ Placed([node[n] EXCEPT !.pc = "start"])
    BY <1>0, <1>1 DEF Fork, At, Placed, NodeState
  <2>2. QED
    BY <1>1, <2>1, GoesPlaced DEF Fork, At
<1>2. CASE Start(n)
  <2>1. /\ [node[n] EXCEPT !.pc = "selectService"] \in NodeState
        /\ Placed([node[n] EXCEPT !.pc = "selectService"])
    BY <1>0, <1>2, Lists DEF Start, At, Placed, NodeState
  <2>2. QED
    BY <1>2, <2>1, GoesPlaced DEF Start, At
<1>3. CASE SelectService(n)
  <2>1. CASE NextService(n)
    <3>1. PICK t \in NodeState : Sets(n, t) /\ Placed(t)
      BY <1>0, <1>3, <2>1, NextServicePlaced DEF SelectService, At, Placed
    <3>2. QED
      BY <1>3, <3>1, MoveKeeps DEF SelectService, At, StartInvariant, TablesOK
  <2>2. CASE Goes(n, "insertService")
    <3>1. /\ [node[n] EXCEPT !.pc = "insertService"] \in NodeState
          /\ Placed([node[n] EXCEPT !.pc = "insertService"])
      BY <1>0, <1>3 DEF SelectService, At, Placed, NodeState
    <3>2. QED
      BY <1>3, <2>2, <3>1, GoesPlaced DEF SelectService, At
  <2>3. QED
    BY <1>3, <2>1, <2>2 DEF SelectService
<1>4. CASE SelectMission(n)
  <2>1. CASE NextMission(n)
    <3>1. PICK t \in NodeState : Sets(n, t) /\ Placed(t)
      BY <1>0, <1>4, <2>1, NextMissionPlaced DEF SelectMission, At, Placed
    <3>2. QED
      BY <1>4, <3>1, MoveKeeps DEF SelectMission, At, StartInvariant, TablesOK
  <2>2. CASE Goes(n, "insertMission")
    <3>1. /\ [node[n] EXCEPT !.pc = "insertMission"] \in NodeState
          /\ Placed([node[n] EXCEPT !.pc = "insertMission"])
      BY <1>0, <1>4 DEF SelectMission, At, Placed, NodeState
    <3>2. QED
      BY <1>4, <2>2, <3>1, GoesPlaced DEF SelectMission, At
  <2>3. QED
    BY <1>4, <2>1, <2>2 DEF SelectMission
<1>5. QED
  BY <1>1, <1>2, <1>3, <1>4

----------------------------------------------------------------------------
(* Behind the files: agents, configuration, the broker *)

\* A process that is past the files stays there, or dies.
LEMMA LaterSteps ==
  ASSUME StartInvariant, NEW n \in Node,
         \/ SelectAgent(n) \/ UpdateAgent(n) \/ InsertAgent(n) \/ ReadConfig(n) \/ InsertConfig(n)
         \/ Listen(n) \/ UseBroker(n) \/ CreationRefused(n)
  PROVE  StartInvariant'
<1> DEFINE to(pc) == [node[n] EXCEPT !.pc = pc]
<1>0. node[n] \in NodeState
  BY DEF StartInvariant, TablesOK
<1>1. UNCHANGED <<services, types, plans, crashes>>
  BY DEF SelectAgent, UpdateAgent, InsertAgent, ReadConfig, InsertConfig, Listen, UseBroker,
         CreateAccounts, TryGuest, RetryAccounts, Connect, DeclareQueues, ConsumeMessages,
         CreationRefused, db, budget
<1>2. node[n].pc \in Past
  BY DEF SelectAgent, UpdateAgent, InsertAgent, ReadConfig, InsertConfig, Listen, UseBroker,
         CreateAccounts, TryGuest, RetryAccounts, Connect, DeclareQueues, ConsumeMessages,
         CreationRefused, At, Past
<1>3. \A pc \in Past : to(pc) \in NodeState /\ to(pc).pc \in Past
  BY <1>0 DEF NodeState, Past
<1>4. ASSUME NEW pc \in Past, Goes(n, pc) PROVE StartInvariant'
  BY <1>1, <1>2, <1>3, <1>4, PastKeeps DEF Goes
<1>5. ASSUME NextAgent(n) PROVE StartInvariant'
  <2> DEFINE s == IF node[n].at < Len(AgentKeys)
                  THEN [node[n] EXCEPT !.pc = "selectAgent", !.at = @ + 1, !.step = 1]
                  ELSE [node[n] EXCEPT !.pc = "readConfig", !.at = 1, !.step = 1]
  <2>1. node[n].at + 1 \in Nat
    BY <1>0 DEF NodeState
  <2>2. s \in NodeState /\ s.pc \in Past
    BY <1>0, <2>1 DEF NodeState, Past
  <2>3. Sets(n, s)
    BY <1>5 DEF NextAgent, NextEntry
  <2>4. QED
    BY <1>1, <1>2, <2>2, <2>3, PastKeeps
<1>6. CASE SelectAgent(n)
  BY <1>4, <1>6 DEF SelectAgent, Past
<1>7. CASE UpdateAgent(n) \/ InsertAgent(n)
  BY <1>5, <1>7 DEF UpdateAgent, InsertAgent
<1>8. CASE ReadConfig(n) \/ InsertConfig(n) \/ Listen(n) \/ CreateAccounts(n) \/ CreationRefused(n) \/ RetryAccounts(n)
  <2>1. \E pc \in Past : Goes(n, pc)
    BY <1>8 DEF ReadConfig, InsertConfig, Listen, CreateAccounts, CreationRefused, RetryAccounts, Past
  <2>2. QED
    BY <1>4, <2>1
<1>9. CASE TryGuest(n)
  <2> DEFINE s == [node[n] EXCEPT !.pc = "wait", !.asGuest = TRUE]
  <2>1. s \in NodeState /\ s.pc \in Past
    BY <1>0 DEF NodeState, Past
  <2>2. QED
    BY <1>1, <1>2, <1>9, <2>1, PastKeeps DEF TryGuest
<1>10. CASE Connect(n)
  <2> DEFINE s == [node[n] EXCEPT !.pc = "schema", !.channel = "open", !.conns = 1]
  <2>1. s \in NodeState /\ s.pc \in Past
    BY <1>0 DEF NodeState, Past
  <2>2. QED
    BY <1>1, <1>2, <1>10, <2>1, PastKeeps DEF Connect
<1>11. CASE DeclareQueues(n)
  <2>1. Down \in NodeState
    BY DEF Down, NodeState
  <2>2. CASE Sets(n, Down)
    BY <1>1, <1>2, <2>1, <2>2, PastKeeps
  <2>3. CASE Goes(n, "consume")
    BY <1>4, <2>3 DEF Past
  <2>4. QED
    BY <1>11, <2>2, <2>3 DEF DeclareQueues
<1>12. CASE ConsumeMessages(n)
  <2> DEFINE s == [node[n] EXCEPT !.pc = "running", !.consuming = TRUE]
  <2>1. s \in NodeState /\ s.pc \in Past
    BY <1>0 DEF NodeState, Past
  <2>2. QED
    BY <1>1, <1>2, <1>12, <2>1, PastKeeps DEF ConsumeMessages
<1>13. QED
  BY <1>6, <1>7, <1>8, <1>9, <1>10, <1>11, <1>12 DEF UseBroker

\* Processes that stay where they are, or die behind the files.
LEMMA StayKeeps ==
  ASSUME StartInvariant, UNCHANGED <<services, types, plans, crashes>>,
         node' \in [Node -> NodeState],
         \A n \in Node :
           \/ /\ node'[n].pc = node[n].pc /\ node'[n].at = node[n].at
              /\ node'[n].step = node[n].step
           \/ node[n].pc \in Past /\ node'[n] = Down
  PROVE  StartInvariant'
<1>1. TablesOK'
  BY DEF StartInvariant, TablesOK
<1>2. ASSUME NEW n \in Node PROVE Placed(node[n])'
  <2>1. CASE node'[n].pc = node[n].pc /\ node'[n].at = node[n].at /\ node'[n].step = node[n].step
    BY <2>1 DEF StartInvariant, Placed, Inserted
  <2>2. CASE node'[n] = Down
    BY <2>2 DEF Placed, Down
  <2>3. QED
    BY <2>1, <2>2
<1>3. OneServiceOfType'
  BY DEF StartInvariant, OneServiceOfType
<1>4. RecipeInWork'
  BY DEF StartInvariant, RecipeInWork, Complete, At, Past
<1>5. QED
  BY <1>1, <1>2, <1>3, <1>4 DEF StartInvariant

\* What the broker does to the processes.
LEMMA BrokerKeeps ==
  ASSUME StartInvariant,
         \/ \E n \in Node : GuestCreatesAdmin(n) \/ Resubscribe(n) \/ Reconnect(n)
         \/ BrokerStops \/ BrokerStarts
  PROVE  StartInvariant'
<1> USE DEF db, budget
<1>0. node \in [Node -> NodeState]
  BY DEF StartInvariant, TablesOK
<1>1. ASSUME NEW n \in Node, GuestCreatesAdmin(n) PROVE StartInvariant'
  <2> DEFINE s == [node[n] EXCEPT !.asGuest = FALSE]
  <2>1. s \in NodeState /\ s.pc = node[n].pc /\ s.at = node[n].at /\ s.step = node[n].step
    BY <1>0 DEF NodeState
  <2>2. node' = [node EXCEPT ![n] = s] /\ UNCHANGED <<services, types, plans, crashes>>
    BY <1>1 DEF GuestCreatesAdmin, Sets
  <2>3. QED
    BY <1>0, <2>1, <2>2, StayKeeps
<1>2. ASSUME NEW n \in Node, Resubscribe(n) PROVE StartInvariant'
  <2> DEFINE s == [node[n] EXCEPT !.resubscribing = @ - 1, !.reconnecting = @ + 1,
                                  !.conns = IF broker THEN @ + 1 ELSE @,
                                  !.channel = IF broker THEN "rejected" ELSE @]
  <2>1. /\ node[n].resubscribing - 1 \in Nat /\ node[n].reconnecting + 1 \in Nat
        /\ (IF broker THEN node[n].conns + 1 ELSE node[n].conns) \in Nat
    <3>1. /\ node[n].resubscribing \in Nat /\ node[n].reconnecting \in Nat /\ node[n].conns \in Nat
      BY <1>0 DEF NodeState
    <3>2. node[n].resubscribing > 0
      BY <1>2 DEF Resubscribe
    <3>3. QED
      BY <3>1, <3>2
  <2>2. s \in NodeState /\ s.pc = node[n].pc /\ s.at = node[n].at /\ s.step = node[n].step
    BY <1>0, <2>1 DEF NodeState
  <2>3. node' = [node EXCEPT ![n] = s] /\ UNCHANGED <<services, types, plans, crashes>>
    BY <1>2 DEF Resubscribe, Sets
  <2>4. QED
    BY <1>0, <2>2, <2>3, StayKeeps
<1>3. ASSUME NEW n \in Node, Reconnect(n) PROVE StartInvariant'
  <2> DEFINE s == [node[n] EXCEPT !.reconnecting = @ - 1, !.conns = @ + 1, !.channel = "open"]
  <2>1. node[n].reconnecting - 1 \in Nat /\ node[n].conns + 1 \in Nat
    <3>1. node[n].reconnecting \in Nat /\ node[n].conns \in Nat
      BY <1>0 DEF NodeState
    <3>2. node[n].reconnecting > 0
      BY <1>3 DEF Reconnect
    <3>3. QED
      BY <3>1, <3>2
  <2>2. s \in NodeState /\ s.pc = node[n].pc /\ s.at = node[n].at /\ s.step = node[n].step
    BY <1>0, <2>1 DEF NodeState
  <2>3. node' = [node EXCEPT ![n] = s] /\ UNCHANGED <<services, types, plans, crashes>>
    BY <1>3 DEF Reconnect, Sets
  <2>4. QED
    BY <1>0, <2>2, <2>3, StayKeeps
<1>4. CASE BrokerStops
  <2>1. ASSUME NEW s \in NodeState
        PROVE  /\ Interrupted(s) \in NodeState
               /\ \/ /\ Interrupted(s).pc = s.pc /\ Interrupted(s).at = s.at
                     /\ Interrupted(s).step = s.step
                  \/ s.pc \in Past /\ Interrupted(s) = Down
    <3>1. CASE s.pc \in {"schema", "consume"}
      BY <3>1 DEF Interrupted, Down, NodeState, Past
    <3>2. CASE s.pc = "running"
      <4> DEFINE t == [s EXCEPT !.resubscribing = @ + s.conns, !.conns = 0, !.consuming = FALSE,
                                !.channel = IF @ = "open" THEN "lost" ELSE @]
      <4>1. s.resubscribing + s.conns \in Nat
        BY DEF NodeState
      <4>2. t \in NodeState /\ t.pc = s.pc /\ t.at = s.at /\ t.step = s.step
        BY <4>1 DEF NodeState
      <4>3. Interrupted(s) = t
        BY <3>2 DEF Interrupted
      <4>4. QED
        BY <4>2, <4>3
    <3>3. CASE s.pc \notin {"schema", "consume", "running"}
      BY <3>3 DEF Interrupted
    <3>4. QED
      BY <3>1, <3>2, <3>3
  <2>2. /\ node' = [n \in Node |-> Interrupted(node[n])]
        /\ UNCHANGED <<services, types, plans, crashes>>
    BY <1>4 DEF BrokerStops
  <2>3. QED
    BY <1>0, <2>1, <2>2, StayKeeps
<1>5. CASE BrokerStarts
  BY <1>0, <1>5, StayKeeps DEF BrokerStarts
<1>6. QED
  BY <1>1, <1>2, <1>3, <1>4, <1>5

\* A process that dies starts from the beginning.
LEMMA CrashKeeps ==
  ASSUME StartInvariant, NEW n \in Node, Crash(n)
  PROVE  StartInvariant'
<1>1. Down \in NodeState /\ Placed(Down)
  BY DEF Down, NodeState, Placed
<1>2. crashes \in Nat /\ crashes' = crashes + 1 /\ Sets(n, Down) /\ UNCHANGED <<services, types, plans>>
  BY DEF Crash, db, StartInvariant, TablesOK
<1>3. QED
  BY <1>1, <1>2, MoveKeeps

----------------------------------------------------------------------------
\* The tables are empty at first.
LEMMA StartInit == Init => StartInvariant
<1> SUFFICES ASSUME Init PROVE StartInvariant
  OBVIOUS
<1>1. Down \in NodeState /\ Placed(Down)
  BY DEF Down, NodeState, Placed
<1>2. TablesOK
  BY <1>1 DEF Init, TablesOK
<1>3. \A n \in Node : Placed(node[n])
  BY <1>1 DEF Init
<1>4. \A i \in DOMAIN FlatServices : services[FlatServices[i].name] = 0
  BY DEF Init, FlatServices, FlattenService, Names
<1>5. OneServiceOfType
  BY <1>4 DEF OneServiceOfType
<1>6. RecipeInWork
  BY DEF Init, RecipeInWork
<1>7. QED
  BY <1>2, <1>3, <1>5, <1>6 DEF StartInvariant

\* The invariant is inductive.
LEMMA StartStep == StartInvariant /\ [Next]_vars => StartInvariant'
<1> SUFFICES ASSUME StartInvariant, [Next]_vars PROVE StartInvariant'
  OBVIOUS
<1>1. ASSUME NEW n \in Node, Register(n) PROVE StartInvariant'
  BY <1>1, SelectKeeps, InsertServiceKeeps, InsertMissionKeeps, InsertStepKeeps, LaterSteps DEF Register
<1>2. ASSUME NEW n \in Node, UseBroker(n) \/ CreationRefused(n) PROVE StartInvariant'
  BY <1>2, LaterSteps
<1>3. ASSUME NEW n \in Node, Crash(n) PROVE StartInvariant'
  BY <1>3, CrashKeeps
<1>4. ASSUME \/ \E n \in Node : GuestCreatesAdmin(n) \/ Resubscribe(n) \/ Reconnect(n)
             \/ BrokerStops \/ BrokerStarts
      PROVE  StartInvariant'
  BY <1>4, BrokerKeeps
<1>5. CASE UNCHANGED vars
  <2>1. UNCHANGED <<services, types, plans, crashes, node>>
    BY <1>5 DEF vars, db, budget
  <2>2. QED
    BY <2>1, StayKeeps DEF StartInvariant, TablesOK
<1>6. QED
  BY <1>1, <1>2, <1>3, <1>4, <1>5 DEF Next

\* However many nodes start at the same time, one enabled service of a type is
\* registered.
THEOREM OneServiceRegistered == Spec => []OneServiceOfType
<1>1. StartInvariant => OneServiceOfType
  BY DEF StartInvariant
<1>2. QED
  BY StartInit, StartStep, <1>1, PTL DEF Spec

\* The recipe of a registered type is complete or is being inserted, unless a
\* process has died.
THEOREM RecipesInWork == Spec => []RecipeInWork
<1>1. StartInvariant => RecipeInWork
  BY DEF StartInvariant
<1>2. QED
  BY StartInit, StartStep, <1>1, PTL DEF Spec
----------------------------------------------------------------------------
(* The connections of a node.  Before it connects a node has none and      *)
(* waits for none; then only an interruption adds to what it has or waits  *)
(* for, and at most as much again.                                         *)

\* Connections open or on their way: a call with subscribe opens one, and
\* makes a call that opens another.
Load(s) == s.conns + s.reconnecting + 2 * s.resubscribing

Online == {"schema", "consume", "running"}

LoadBounded ==
  /\ cuts \in Nat
  /\ 2^cuts \in Nat \ {0}
  /\ \A n \in Node : /\ Load(node[n]) <= 2^cuts
                     /\ node[n].pc \notin Online => Load(node[n]) = 0

\* The definition of powers, which the provers do not have.
Powers == \A k \in Nat : 2^(k + 1) = 2 * 2^k

\* The load is a number.
LEMMA LoadNat ==
  ASSUME NEW s \in NodeState
  PROVE  Load(s) \in Nat
BY DEF NodeState, Load

\* A step of one node that adds no more than its first connection.
LEMMA LoadKept ==
  ASSUME StartInvariant, LoadBounded, NEW n \in Node, NEW s \in NodeState, Sets(n, s), UNCHANGED cuts,
         Load(s) <= Load(node[n]) \/ Load(s) <= 1,
         s.pc \notin Online => Load(s) = 0
  PROVE  LoadBounded'
<1>1. \A m \in Node : node'[m] = IF m = n THEN s ELSE node[m]
  BY DEF Sets, StartInvariant, TablesOK
<1>2. Load(s) \in Nat /\ Load(node[n]) \in Nat
  BY LoadNat DEF StartInvariant, TablesOK
<1>3. Load(s) <= 2^cuts
  BY <1>2 DEF LoadBounded
<1> QED
  BY <1>1, <1>3 DEF LoadBounded

\* A step that moves a process and leaves its connections alone.
LEMMA SameLoad ==
  ASSUME StartInvariant, LoadBounded, NEW n \in Node, NEW s \in NodeState, Sets(n, s), UNCHANGED cuts,
         s.conns = node[n].conns, s.reconnecting = node[n].reconnecting,
         s.resubscribing = node[n].resubscribing,
         s.pc \in Online \/ node[n].pc \notin Online
  PROVE  LoadBounded'
<1>1. Load(s) = Load(node[n])
  BY DEF Load
<1>2. Load(s) \in Nat
  BY LoadNat
<1>3. s.pc \notin Online => Load(s) = 0
  BY <1>1 DEF LoadBounded
<1> QED
  BY <1>1, <1>2, <1>3, LoadKept

\* Places of the registration.
LEMMA GoesSameLoad ==
  ASSUME StartInvariant, LoadBounded, NEW n \in Node, NEW pc, Goes(n, pc), UNCHANGED cuts,
         pc \in {"start", "selectService", "insertService", "selectMission", "insertMission", "insertStep",
                 "selectAgent", "updateAgent", "insertAgent", "readConfig", "insertConfig", "listen",
                 "accounts", "wait", "connect"} \/ pc = "consume",
         pc = "consume" \/ node[n].pc \notin Online
  PROVE  LoadBounded'
<1> DEFINE s == [node[n] EXCEPT !.pc = pc]
<1>1. node[n] \in NodeState
  BY DEF StartInvariant, TablesOK
<1>2. s \in NodeState
  BY <1>1 DEF NodeState
<1>3. s.conns = node[n].conns /\ s.reconnecting = node[n].reconnecting /\ s.resubscribing = node[n].resubscribing
  BY <1>1 DEF NodeState
<1>4. s.pc = pc
  BY <1>1 DEF NodeState
<1>5. s.pc \in Online \/ node[n].pc \notin Online
  BY <1>4 DEF Online
<1>6. Sets(n, s)
  BY DEF Goes
<1> HIDE DEF s
<1> QED
  BY <1>2, <1>3, <1>5, <1>6, SameLoad

\* The next entry of a list.
LEMMA NextSameLoad ==
  ASSUME StartInvariant, LoadBounded, NEW n \in Node, NEW list, NEW pc, NEW then, NextEntry(n, list, pc, then),
         pc \in {"selectService", "selectMission", "selectAgent"},
         then \in {"selectMission", "selectAgent", "readConfig"},
         node[n].pc \notin Online, UNCHANGED cuts
  PROVE  LoadBounded'
<1>1. node[n] \in NodeState
  BY DEF StartInvariant, TablesOK
<1>2. ASSUME NEW p \in {pc, then}, NEW at \in Nat,
             Sets(n, [node[n] EXCEPT !.pc = p, !.at = at, !.step = 1])
      PROVE  LoadBounded'
  <2> DEFINE s == [node[n] EXCEPT !.pc = p, !.at = at, !.step = 1]
  <2>1. s \in NodeState
    BY <1>1, <1>2 DEF NodeState
  <2>2. s.conns = node[n].conns /\ s.reconnecting = node[n].reconnecting /\ s.resubscribing = node[n].resubscribing
    BY <1>1 DEF NodeState
  <2>3. Sets(n, s)
    BY <1>2
  <2> HIDE DEF s
  <2> QED
    BY <2>1, <2>2, <2>3, SameLoad
<1>3. CASE node[n].at < Len(list)
  <2>1. node[n].at + 1 \in Nat
    BY <1>1 DEF NodeState
  <2>2. Sets(n, [node[n] EXCEPT !.pc = pc, !.at = node[n].at + 1, !.step = 1])
    BY <1>3 DEF NextEntry
  <2> QED
    BY <1>2, <2>1, <2>2
<1>4. CASE ~(node[n].at < Len(list))
  BY <1>2, <1>4 DEF NextEntry
<1> QED
  BY <1>3, <1>4

\* While it registers the files a node has no connection.
LEMMA RegisterLoad ==
  ASSUME StartInvariant, LoadBounded, NEW n \in Node, Register(n)
  PROVE  LoadBounded'
<1>1. UNCHANGED cuts
  BY DEF Register, Fork, Start, SelectService, InsertService, SelectMission, InsertMission, InsertStep,
         SelectAgent, UpdateAgent, InsertAgent, ReadConfig, InsertConfig, Listen, budget
<1>2. node[n].pc \notin Online
  BY DEF Register, Fork, Start, SelectService, InsertService, SelectMission, InsertMission, InsertStep,
         SelectAgent, UpdateAgent, InsertAgent, ReadConfig, InsertConfig, Listen, At, Online
<1>3. CASE Fork(n) \/ Start(n) \/ ReadConfig(n) \/ InsertConfig(n) \/ Listen(n)
  BY <1>1, <1>2, <1>3, GoesSameLoad DEF Fork, Start, ReadConfig, InsertConfig, Listen
<1>4. CASE SelectService(n)
  BY <1>1, <1>2, <1>4, GoesSameLoad, NextSameLoad DEF SelectService, NextService
<1>5. CASE InsertService(n)
  BY <1>1, <1>2, <1>5, NextSameLoad DEF InsertService, NextService
<1>6. CASE SelectMission(n)
  BY <1>1, <1>2, <1>6, GoesSameLoad, NextSameLoad DEF SelectMission, NextMission
<1>7. CASE InsertMission(n)
  BY <1>1, <1>2, <1>7, GoesSameLoad, NextSameLoad DEF InsertMission, NextMission
<1>8. CASE InsertStep(n)
  <2>1. CASE NextMission(n)
    BY <1>1, <1>2, <2>1, NextSameLoad DEF NextMission
  <2>2. CASE Sets(n, [node[n] EXCEPT !.step = @ + 1])
    <3> DEFINE s == [node[n] EXCEPT !.step = @ + 1]
    <3>1. node[n] \in NodeState
      BY DEF StartInvariant, TablesOK
    <3>2. s \in NodeState
      BY <3>1 DEF NodeState
    <3>3. s.conns = node[n].conns /\ s.reconnecting = node[n].reconnecting /\ s.resubscribing = node[n].resubscribing
      BY <3>1 DEF NodeState
    <3>4. Sets(n, s)
      BY <2>2
    <3> HIDE DEF s
    <3> QED
      BY <1>1, <1>2, <3>2, <3>3, <3>4, SameLoad
  <2> QED
    BY <1>8, <2>1, <2>2 DEF InsertStep
<1>9. CASE SelectAgent(n)
  BY <1>1, <1>2, <1>9, GoesSameLoad DEF SelectAgent
<1>10. CASE UpdateAgent(n) \/ InsertAgent(n)
  BY <1>1, <1>2, <1>10, NextSameLoad DEF UpdateAgent, InsertAgent, NextAgent
<1> QED
  BY <1>3, <1>4, <1>5, <1>6, <1>7, <1>8, <1>9, <1>10 DEF Register

\* A process that ends has no connection.
LEMMA DownLoad == Down \in NodeState /\ Load(Down) = 0
BY DEF Down, NodeState, Load

\* A node connects once; its other steps until it runs open nothing.
LEMMA UseBrokerLoad ==
  ASSUME StartInvariant, LoadBounded, NEW n \in Node,
         UseBroker(n) \/ CreationRefused(n) \/ GuestCreatesAdmin(n)
  PROVE  LoadBounded'
<1>1. UNCHANGED cuts
  BY DEF UseBroker, CreateAccounts, CreationRefused, TryGuest, RetryAccounts, Connect, DeclareQueues,
         ConsumeMessages, GuestCreatesAdmin, budget
<1>2. node[n] \in NodeState
  BY DEF StartInvariant, TablesOK
<1>3. CASE CreateAccounts(n) \/ CreationRefused(n) \/ RetryAccounts(n)
  <2>1. node[n].pc \notin Online
    BY <1>3 DEF CreateAccounts, CreationRefused, RetryAccounts, At, Online
  <2> QED
    BY <1>1, <1>3, <2>1, GoesSameLoad DEF CreateAccounts, CreationRefused, RetryAccounts
<1>4. ASSUME NEW s \in NodeState, Sets(n, s), s.conns = node[n].conns, s.reconnecting = node[n].reconnecting,
             s.resubscribing = node[n].resubscribing, s.pc \in Online \/ node[n].pc \notin Online
      PROVE  LoadBounded'
  BY <1>1, <1>4, SameLoad
<1>5. CASE TryGuest(n)
  <2> DEFINE s == [node[n] EXCEPT !.pc = "wait", !.asGuest = TRUE]
  <2>1. s \in NodeState /\ s.conns = node[n].conns /\ s.reconnecting = node[n].reconnecting
        /\ s.resubscribing = node[n].resubscribing
    BY <1>2 DEF NodeState
  <2>2. Sets(n, s) /\ node[n].pc \notin Online
    BY <1>5 DEF TryGuest, At, Online
  <2> HIDE DEF s
  <2> QED
    BY <1>4, <2>1, <2>2
<1>6. CASE GuestCreatesAdmin(n)
  <2> DEFINE s == [node[n] EXCEPT !.asGuest = FALSE]
  <2>1. s \in NodeState /\ s.conns = node[n].conns /\ s.reconnecting = node[n].reconnecting
        /\ s.resubscribing = node[n].resubscribing /\ s.pc = node[n].pc
    BY <1>2 DEF NodeState
  <2>2. Sets(n, s)
    BY <1>6 DEF GuestCreatesAdmin
  <2> HIDE DEF s
  <2> QED
    BY <1>4, <2>1, <2>2
<1>7. CASE ConsumeMessages(n)
  <2> DEFINE s == [node[n] EXCEPT !.pc = "running", !.consuming = TRUE]
  <2>1. s \in NodeState /\ s.conns = node[n].conns /\ s.reconnecting = node[n].reconnecting
        /\ s.resubscribing = node[n].resubscribing /\ s.pc = "running"
    BY <1>2 DEF NodeState
  <2>2. Sets(n, s) /\ s.pc \in Online
    BY <1>7, <2>1 DEF ConsumeMessages, Online
  <2> HIDE DEF s
  <2> QED
    BY <1>4, <2>1, <2>2
<1>8. CASE DeclareQueues(n)
  <2>1. CASE Goes(n, "consume")
    BY <1>1, <2>1, GoesSameLoad
  <2>2. CASE Sets(n, Down)
    BY <1>1, <2>2, DownLoad, LoadKept
  <2> QED
    BY <1>8, <2>1, <2>2 DEF DeclareQueues
<1>9. CASE Connect(n)
  <2> DEFINE s == [node[n] EXCEPT !.pc = "schema", !.channel = "open", !.conns = 1]
  <2>1. s \in NodeState /\ s.conns = 1 /\ s.reconnecting = node[n].reconnecting
        /\ s.resubscribing = node[n].resubscribing /\ s.pc = "schema"
    BY <1>2 DEF NodeState
  <2>2. Sets(n, s) /\ node[n].pc \notin Online
    BY <1>9 DEF Connect, At, Online
  <2>3. node[n].conns \in Nat /\ node[n].reconnecting \in Nat /\ node[n].resubscribing \in Nat
    BY <1>2 DEF NodeState
  <2>4. Load(node[n]) = 0
    BY <2>2 DEF LoadBounded
  <2>5. node[n].reconnecting = 0 /\ node[n].resubscribing = 0
    BY <2>3, <2>4 DEF Load
  <2>6. Load(s) = 1
    BY <2>1, <2>5 DEF Load
  <2>7. s.pc \in Online
    BY <2>1 DEF Online
  <2> HIDE DEF s
  <2> QED
    BY <1>1, <2>1, <2>2, <2>6, <2>7, LoadKept
<1> QED
  BY <1>3, <1>5, <1>6, <1>7, <1>8, <1>9 DEF UseBroker

\* A call that waits gives way to what it opens.
LEMMA CallsLoad ==
  ASSUME StartInvariant, LoadBounded, NEW n \in Node, Resubscribe(n) \/ Reconnect(n)
  PROVE  LoadBounded'
<1>1. UNCHANGED cuts
  BY DEF Resubscribe, Reconnect, budget
<1>2. node[n] \in NodeState
  BY DEF StartInvariant, TablesOK
<1>3. node[n].conns \in Nat /\ node[n].reconnecting \in Nat /\ node[n].resubscribing \in Nat
  BY <1>2 DEF NodeState
<1>4. ASSUME NEW s \in NodeState, Sets(n, s), Load(s) <= Load(node[n]), s.pc = node[n].pc
      PROVE  LoadBounded'
  <2>1. Load(s) \in Nat
    BY LoadNat
  <2>2. s.pc \notin Online => Load(s) = 0
    BY <1>4, <2>1 DEF LoadBounded
  <2> QED
    BY <1>1, <1>4, <2>2, LoadKept
<1>5. CASE Resubscribe(n)
  <2> DEFINE s == [node[n] EXCEPT !.resubscribing = @ - 1, !.reconnecting = @ + 1,
                             !.conns = IF broker THEN @ + 1 ELSE @,
                             !.channel = IF broker THEN "rejected" ELSE @]
  <2>1. node[n].resubscribing > 0 /\ Sets(n, s)
    BY <1>5 DEF Resubscribe
  <2>2. s \in NodeState
    <3>1. /\ node[n].resubscribing - 1 \in Nat /\ node[n].reconnecting + 1 \in Nat
          /\ node[n].conns + 1 \in Nat
      BY <1>3, <2>1
    <3> QED
      BY <1>2, <1>3, <3>1 DEF NodeState
  <2>3. /\ s.resubscribing = node[n].resubscribing - 1 /\ s.reconnecting = node[n].reconnecting + 1
        /\ s.conns = node[n].conns \/ s.conns = node[n].conns + 1
        /\ s.pc = node[n].pc
    BY <1>2 DEF NodeState
  <2>4. Load(s) <= Load(node[n])
    BY <1>3, <2>3 DEF Load
  <2> HIDE DEF s
  <2> QED
    BY <1>4, <2>1, <2>2, <2>3, <2>4
<1>6. CASE Reconnect(n)
  <2> DEFINE s == [node[n] EXCEPT !.reconnecting = @ - 1, !.conns = @ + 1, !.channel = "open"]
  <2>1. node[n].reconnecting > 0 /\ Sets(n, s)
    BY <1>6 DEF Reconnect
  <2>2. s \in NodeState
    <3>1. node[n].reconnecting - 1 \in Nat /\ node[n].conns + 1 \in Nat
      BY <1>3, <2>1
    <3> QED
      BY <1>2, <3>1 DEF NodeState
  <2>3. /\ s.resubscribing = node[n].resubscribing /\ s.reconnecting = node[n].reconnecting - 1
        /\ s.conns = node[n].conns + 1 /\ s.pc = node[n].pc
    BY <1>2 DEF NodeState
  <2>4. Load(s) <= Load(node[n])
    BY <1>3, <2>3 DEF Load
  <2> HIDE DEF s
  <2> QED
    BY <1>4, <2>1, <2>2, <2>3, <2>4
<1> QED
  BY <1>5, <1>6

\* Each connection that is interrupted calls for two.
LEMMA InterruptedLoad ==
  ASSUME NEW s \in NodeState
  PROVE  /\ Interrupted(s) \in NodeState
         /\ Load(Interrupted(s)) <= 2 * Load(s)
         /\ Interrupted(s).pc \notin Online => Interrupted(s) = s \/ Load(Interrupted(s)) = 0
<1>1. s.conns \in Nat /\ s.reconnecting \in Nat /\ s.resubscribing \in Nat /\ Load(s) \in Nat
  BY LoadNat DEF NodeState
<1>2. CASE s.pc \in {"schema", "consume"}
  BY <1>1, <1>2, DownLoad DEF Interrupted, Online
<1>3. CASE s.pc = "running"
  <2> DEFINE t == [s EXCEPT !.resubscribing = @ + s.conns, !.conns = 0, !.consuming = FALSE,
                   !.channel = IF @ = "open" THEN "lost" ELSE @]
  <2>1. Interrupted(s) = t
    BY <1>3 DEF Interrupted
  <2>2. /\ t.conns = 0 /\ t.reconnecting = s.reconnecting
        /\ t.resubscribing = s.resubscribing + s.conns /\ t.pc = "running"
    BY <1>3 DEF NodeState
  <2>4. s.resubscribing + s.conns \in Nat
    BY <1>1
  <2>5. t \in NodeState
    BY <1>1, <2>4 DEF NodeState
  <2> HIDE DEF t
  <2>3. Load(t) <= 2 * Load(s)
    BY <1>1, <2>2 DEF Load
  <2> QED
    BY <1>3, <2>1, <2>2, <2>3, <2>5 DEF Online
<1>4. CASE s.pc \notin Online
  <2>1. s.pc \notin {"schema", "consume"} /\ s.pc # "running"
    BY <1>4 DEF Online
  <2>2. Interrupted(s) = s
    BY <2>1 DEF Interrupted
  <2> QED
    BY <1>1, <2>2
<1> QED
  BY <1>2, <1>3, <1>4 DEF Online

\* An interruption doubles the bound.
LEMMA BrokerStopsLoad ==
  ASSUME Powers, StartInvariant, LoadBounded, BrokerStops
  PROVE  LoadBounded'
<1>1. cuts \in Nat /\ cuts' = cuts + 1
  BY DEF LoadBounded, BrokerStops
<1>2. 2^cuts' = 2 * 2^cuts
  BY <1>1 DEF Powers
<1>3. PICK b \in Nat \ {0} : b = 2^cuts
  BY DEF LoadBounded
<1>4. ASSUME NEW n \in Node
      PROVE  /\ Load(node'[n]) <= 2 * b
             /\ node'[n].pc \notin Online => Load(node'[n]) = 0
  <2>1. node'[n] = Interrupted(node[n]) /\ node[n] \in NodeState
    BY DEF BrokerStops, StartInvariant, TablesOK
  <2>2. Load(node[n]) <= b /\ (node[n].pc \notin Online => Load(node[n]) = 0)
    BY <1>3 DEF LoadBounded
  <2>3. Load(node'[n]) <= 2 * Load(node[n])
    BY <2>1, InterruptedLoad
  <2>4. Load(node[n]) \in Nat
    BY <2>1, LoadNat
  <2>5. node'[n] \in NodeState
    BY <2>1, InterruptedLoad
  <2>6. Load(node'[n]) \in Nat
    BY <2>5, LoadNat
  <2> QED
    BY <1>3, <2>1, <2>2, <2>3, <2>4, <2>6, InterruptedLoad
<1>5. \A n \in Node : Load(node[n])' = Load(node'[n])
  BY DEF Load
<1>6. 2^cuts' \in Nat \ {0}
  BY <1>2, <1>3
<1>7. cuts' \in Nat
  BY <1>1
<1> QED
  BY <1>2, <1>3, <1>4, <1>6, <1>7 DEF LoadBounded

\* The bound is kept by every step.
LEMMA LoadStep ==
  ASSUME Powers, StartInvariant, LoadBounded, [Next]_vars
  PROVE  LoadBounded'
<1>1. ASSUME NEW n \in Node, Register(n)
      PROVE  LoadBounded'
  BY <1>1, RegisterLoad
<1>2. ASSUME NEW n \in Node, UseBroker(n) \/ CreationRefused(n) \/ GuestCreatesAdmin(n)
      PROVE  LoadBounded'
  BY <1>2, UseBrokerLoad
<1>3. ASSUME NEW n \in Node, Resubscribe(n) \/ Reconnect(n)
      PROVE  LoadBounded'
  BY <1>3, CallsLoad
<1>4. ASSUME NEW n \in Node, Crash(n)
      PROVE  LoadBounded'
  BY <1>4, DownLoad, LoadKept DEF Crash
<1>5. CASE BrokerStops
  BY <1>5, BrokerStopsLoad
<1>6. CASE UNCHANGED <<node, cuts>>
  BY <1>6 DEF LoadBounded
<1>7. BrokerStarts \/ UNCHANGED vars => UNCHANGED <<node, cuts>>
  BY DEF BrokerStarts, vars, budget
<1> QED
  BY <1>1, <1>2, <1>3, <1>4, <1>5, <1>6, <1>7 DEF Next

\* However many connections a node has lost, an interruption at most doubles
\* the connections it has and waits for.
THEOREM ConnectionsBounded ==
  ASSUME Powers
  PROVE  Spec => []ConnectionsDouble
<1>1. Init => LoadBounded
  BY DownLoad DEF Init, LoadBounded
<1>2. StartInvariant /\ LoadBounded /\ [Next]_vars => LoadBounded'
  BY LoadStep
<1>3. LoadBounded => ConnectionsDouble
  BY DEF LoadBounded, ConnectionsDouble, Load
<1> QED
  BY StartInit, StartStep, <1>1, <1>2, <1>3, PTL DEF Spec
=============================================================================
