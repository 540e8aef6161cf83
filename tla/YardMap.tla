------------------------------ MODULE YardMap -------------------------------
(***************************************************************************)
(* The map objects of one yard, and the requests by which agents read and  *)
(* change them: queryDataBase and requestMission for the messages of       *)
(* agents, yardAutoUpdate for the objects they report, updateMap for the   *)
(* map that a microservice returns, and the copies in the in-memory        *)
(* database, which the leader flushes (module InMemDB has the flush's      *)
(* time-outs and limits, and Redis; here one node keeps the copies).       *)
(*                                                                         *)
(* The content of an object is a version: 0 before it exists, 1 as it was  *)
(* inserted, then one more for every change the node accepts.  Handlers    *)
(* interleave at each await; the node's main connection runs their queries *)
(* in the order in which they were sent, its short one those of a flush.   *)
(***************************************************************************)
EXTENDS Naturals, FiniteSets, Sequences, SequencesExt

CONSTANTS
  Object,      \* ids: of the yard's first map, and of objects still to be inserted
  FirstMap,    \* the former
  Request,     \* messages of agents that are answered
  Ask,         \* Ask[q]: [type, object] of a request
  Result,      \* answers of microservices with map_objects
  NewMap,      \* NewMap[r]: the ids that the objects of a result get
  Works,       \* what Init chooses from: [requests, results, reports]
  MaxFailures  \* bound on the queries that fail

VARIABLES
  row,         \* public.map_objects: [there, deleted, data]
  memory,      \* inMemDB.map_objects: the version of each object
  buffer,      \* inMemDB.map_objects_buffer: [data, id, whole]
  connection,  \* queries on the main connection: [by, query, object, data]
  flushed,     \* queries of flushes on the short connection
  request,     \* how far each request is
  result,      \* how far each result is
  reports,     \* objects the agents may still report
  newest,      \* the last version of each object that the node accepted
  outdated,    \* objects whose newest version gave way to an older one, or was not written
  failures

copies == <<memory, buffer>>
history == <<newest, outdated, failures>>
mapVars == <<row, copies, connection, flushed, request, result, reports, history>>

Absent == [there |-> FALSE, deleted |-> FALSE, data |-> 0]
NoCopy == [data |-> 0, id |-> FALSE, whole |-> FALSE]
Query(by, query, o, data) == [by |-> by, query |-> query, object |-> o, data |-> data]
Sends(q) == connection' = Append(connection, q)

----------------------------------------------------------------------------
(* The tables, and InMemDB.update without Redis *)

\* UPDATE of one row; a row that is not there is not inserted.
Written(o, data, restores) ==
  /\ row' = IF row[o].there
            THEN [row EXCEPT ![o] = [there |-> TRUE, deleted |-> @.deleted /\ ~restores, data |-> data]]
            ELSE row
  /\ outdated' = CASE ~row[o].there -> outdated
                   [] row[o].there /\ data = newest[o] -> outdated \ {o}
                   [] row[o].there /\ data < newest[o] /\ row[o].data = newest[o] -> outdated \cup {o}
                   [] OTHER -> outdated

\* The node accepts a new version, and nothing has happened to it yet.
Accepts(objects, version) ==
  /\ newest' = [o \in Object |-> IF o \in objects THEN version ELSE newest[o]]
  /\ outdated' = outdated \ objects

\* The newest version is what is dropped here.
Drops(o, data) == outdated' = IF data = newest[o] THEN outdated \cup {o} ELSE outdated

\* The object joins the buffered one, or becomes it.  In the latter case an
\* UPDATE with the same object as its patch takes the id out of the buffer.
InMemory(o, data, isPatch, isRow) ==
  /\ memory' = [memory EXCEPT ![o] = data]
  /\ buffer' = [buffer EXCEPT ![o] = [data |-> data, id |-> @ # NoCopy \/ ~isPatch,
                                      whole |-> @.whole \/ isRow]]

\* DELETE ... WHERE id IN
DeleteByIds(o) == row' = [row EXCEPT ![o] = Absent]

\* INSERT of an object, which gets an id of its own.
InsertMany(objects) ==
  /\ row' = [o \in Object |-> IF o \in objects THEN [there |-> TRUE, deleted |-> FALSE, data |-> 1]
                                               ELSE row[o]]
  /\ Accepts(objects, 1)

----------------------------------------------------------------------------
(* Messages of agents *)

\* queryDataBase up to its first query: a patch goes to the in-memory
\* database and to the row.  Agents name only objects that have been inserted.
QueryDataBase(q) ==
  LET ask == Ask[q]
      version == newest[ask.object] + 1 IN
  /\ request[q] = "sent" /\ ask.type # "mission"
  /\ ask.type = "createMapObjects" \/ newest[ask.object] > 0
  /\ request' = [request EXCEPT ![q] = "queried"]
  /\ IF ask.type = "updateMapObjects"
     THEN /\ Accepts({ask.object}, version)
          /\ InMemory(ask.object, version, TRUE, FALSE)
          /\ Sends(Query(q, ask.type, ask.object, version))
     ELSE Sends(Query(q, ask.type, ask.object, 0)) /\ UNCHANGED <<copies, newest, outdated>>
  /\ UNCHANGED <<row, flushed, result, reports, failures>>

\* requestMission: the mission it inserts is one of MissionQueue's Direct.
RequestMission(q) ==
  /\ request[q] = "sent" /\ Ask[q].type = "mission"
  /\ request' = [request EXCEPT ![q] = "queried"]
  /\ Sends(Query(q, "mission", Ask[q].object, 0))
  /\ UNCHANGED <<row, copies, flushed, result, reports, history>>

\* yardAutoUpdate: an object that agents have seen is reported again.
YardAutoUpdate(o) ==
  /\ o \in reports /\ newest[o] > 0
  /\ reports' = reports \ {o}
  /\ Accepts({o}, newest[o] + 1)
  /\ InMemory(o, newest[o] + 1, FALSE, FALSE)
  /\ UNCHANGED <<row, connection, flushed, request, result, failures>>

----------------------------------------------------------------------------
(* The map of a microservice *)

\* updateMap: first all the objects of the yard are marked as deleted.
UpdateMap(r) ==
  /\ result[r] = "received"
  /\ result' = [result EXCEPT ![r] = "deleting"]
  /\ Sends(Query(r, "deleteYard", CHOOSE o \in NewMap[r] : TRUE, 0))
  /\ UNCHANGED <<row, copies, flushed, request, reports, history>>

\* insertManyMapObjectsAsync: one INSERT per object.
InsertManyMapObjectsAsync(r, rest) ==
  connection' = rest \o SetToSeq({Query(r, "insertObject", o, 0) : o \in NewMap[r]})

----------------------------------------------------------------------------
(* The main connection *)

Answers(q) == request' = [request EXCEPT ![q] = "answered"]

\* The next query, with the code that follows it.  Of createMapObjects these
\* are the INSERT and a SELECT of the new rows, which are on their way to the
\* node (listed) while it may handle other messages.
StatementDone ==
  /\ connection # <<>>
  /\ LET now == Head(connection)
         rest == Tail(connection)
         o == now.object IN
     \/ /\ now.query = "createMapObjects"
        /\ InsertMany({o})
        /\ connection' = Append(rest, [now EXCEPT !.query = "list"])
        /\ UNCHANGED <<copies, request, result>>
     \/ /\ now.query = "list"
        /\ connection' = <<[now EXCEPT !.query = "listed", !.data = row[o].data]>> \o rest
        /\ UNCHANGED <<row, copies, request, result, newest, outdated>>
     \/ /\ now.query = "listed"
        /\ IF now.data = 0 THEN UNCHANGED <<copies, outdated>>
           ELSE /\ InMemory(o, now.data, FALSE, TRUE)
                /\ IF now.data < newest[o] THEN Drops(o, buffer[o].data) ELSE UNCHANGED outdated
        /\ Answers(now.by) /\ connection' = rest
        /\ UNCHANGED <<row, result, newest>>
     \/ /\ now.query = "updateMapObjects"
        /\ Written(o, now.data, FALSE)
        /\ Answers(now.by) /\ connection' = rest
        /\ UNCHANGED <<copies, result, newest>>
     \/ /\ now.query = "deleteMapObjects"
        /\ DeleteByIds(o)
        /\ Answers(now.by) /\ connection' = rest
        /\ UNCHANGED <<copies, result, newest, outdated>>
     \/ /\ now.query = "deleteMapObjectByIds"
        /\ DeleteByIds(o)
        /\ memory' = [memory EXCEPT ![o] = 0] /\ buffer' = [buffer EXCEPT ![o] = NoCopy]
        /\ Answers(now.by) /\ connection' = rest
        /\ UNCHANGED <<result, newest, outdated>>
     \/ /\ now.query \in {"mission", "query"}
        /\ Answers(now.by) /\ connection' = rest
        /\ UNCHANGED <<row, copies, result, newest, outdated>>
     \/ /\ now.query = "deleteYard"
        /\ row' = [p \in Object |-> IF row[p].there THEN [row[p] EXCEPT !.deleted = TRUE] ELSE row[p]]
        /\ result' = [result EXCEPT ![now.by] = "inserting"]
        /\ InsertManyMapObjectsAsync(now.by, rest)
        /\ UNCHANGED <<copies, request, newest, outdated>>
     \/ /\ now.query = "insertObject"
        /\ InsertMany({o})
        /\ connection' = rest
        /\ UNCHANGED <<copies, request, result>>
  /\ UNCHANGED <<flushed, reports, failures>>

\* The catch of queryDataBase answers with the error; those of updateMap give
\* up what was left of the map and let the mission go on.
StatementFails ==
  /\ connection # <<>> /\ failures < MaxFailures
  /\ LET now == Head(connection) IN
     /\ now.query # "listed"
     /\ IF now.by \in Request THEN Answers(now.by) ELSE UNCHANGED request
     /\ IF now.query = "updateMapObjects" THEN Drops(now.object, now.data) ELSE UNCHANGED outdated
  /\ connection' = Tail(connection)
  /\ failures' = failures + 1
  /\ UNCHANGED <<row, copies, flushed, result, reports, newest>>

----------------------------------------------------------------------------
(* The flush *)

Flush ==
  LET waiting == {o \in Object : buffer[o] # NoCopy} IN
  /\ waiting # {}
  /\ flushed' = flushed \o SetToSeq({[object |-> o, copy |-> buffer[o]] : o \in waiting})
  /\ buffer' = [o \in Object |-> NoCopy]
  /\ UNCHANGED <<row, memory, connection, request, result, reports, history>>

\* Mutant of FlushDone: the buffer is emptied when the flush has been written.
FlushDoneMutant ==
  /\ flushed # <<>>
  /\ LET o == Head(flushed).object
         copy == Head(flushed).copy IN
     IF copy.id THEN Written(o, copy.data, copy.whole) ELSE UNCHANGED <<row, outdated>>
  /\ buffer' = [o \in Object |-> NoCopy]
  /\ flushed' = Tail(flushed)
  /\ UNCHANGED <<memory, connection, request, result, reports, newest, failures>>

\* A copy of a whole row has deleted_at = null; one without id matches no row.
FlushDone ==
  /\ flushed # <<>>
  /\ LET o == Head(flushed).object
         copy == Head(flushed).copy IN
     \/ /\ IF copy.id THEN Written(o, copy.data, copy.whole) ELSE UNCHANGED <<row, outdated>>
        /\ UNCHANGED failures
     \/ /\ failures < MaxFailures
        /\ failures' = failures + 1
        /\ Drops(o, copy.data) /\ UNCHANGED row
  /\ flushed' = Tail(flushed)
  /\ UNCHANGED <<copies, connection, request, result, reports, newest>>

----------------------------------------------------------------------------
MapInit ==
  /\ row = [o \in Object |-> IF o \in FirstMap THEN [there |-> TRUE, deleted |-> FALSE, data |-> 1] ELSE Absent]
  /\ newest = [o \in Object |-> IF o \in FirstMap THEN 1 ELSE 0]
  /\ memory = [o \in Object |-> 0] /\ buffer = [o \in Object |-> NoCopy]
  /\ connection = <<>> /\ flushed = <<>>
  /\ \E work \in Works :
       /\ request = [q \in Request |-> IF q \in work.requests THEN "sent" ELSE "none"]
       /\ result = [r \in Result |-> IF r \in work.results THEN "received" ELSE "none"]
       /\ reports = work.reports
  /\ outdated = {} /\ failures = 0

Requests == \E q \in Request : QueryDataBase(q) \/ RequestMission(q)
Results == \E r \in Result : UpdateMap(r)

MapNext ==
  \/ Requests \/ Results \/ StatementDone \/ StatementFails \/ Flush \/ FlushDone
  \/ \E o \in Object : YardAutoUpdate(o)

(* Messages are handled, the database answers, the timer fires. *)
MapFairness ==
  /\ \A q \in Request : WF_mapVars(QueryDataBase(q) \/ RequestMission(q))
  /\ WF_mapVars(Results) /\ WF_mapVars(StatementDone \/ StatementFails)
  /\ WF_mapVars(Flush) /\ WF_mapVars(FlushDone)

----------------------------------------------------------------------------
(* Properties *)

\* The row of an object settles at the newest version that the node accepted,
\* be it through the buffer, directly or both, while flushes, patches, reports
\* and a late SELECT overlap; unless, and only as long as, that very version
\* has given way to an older one, which another connection or the SELECT
\* brought later, or its own write failed.
MapSettles ==
  <>[](\A o \in Object : row[o].there => row[o].data = newest[o] \/ o \in outdated)

\* A request is answered, also when one of its queries fails.
RequestAnswered == \A q \in Request : request[q] = "queried" ~> request[q] = "answered"
=============================================================================
