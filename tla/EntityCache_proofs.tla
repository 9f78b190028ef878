------------------------- MODULE EntityCache_proofs -------------------------
(***************************************************************************)
(* Proofs about EntityCache: types, and that every stale line and list     *)
(* that is sound has a clear on its way, for all instances, threads, keys  *)
(* and orders.                                                             *)
(*                                                                         *)
(* The invariant says more than the properties: while a transaction has    *)
(* written a row, every instance that holds a sound value of the row is    *)
(* still to be cleared, by the writer, by what the writer will publish or  *)
(* by what it has published.  So when the transaction commits, and the     *)
(* writer has nothing left to do, a published clear is on its way.         *)
(***************************************************************************)
EXTENDS EntityCache, TLAPS

\* A listener only clears; it neither writes nor publishes.
ListenersClear ==
  \A t \in Listeners : /\ ~InTransaction(t)
                       /\ job[t].at \in {"idle", "clear", "clearLists"}
                       /\ ~job[t].tell

\* The writer t is to tell the other instances.
Tells(t, i, k) == /\ InstanceOf[t] # i /\ job[t].tell /\ k \in job[t].keys
                  /\ job[t].at \in {"clear", "clearLists", "publish"}

\* Row k of cache e of instance i is to be cleared because t has written it.
RowClearIsDue(t, i, e, k) ==
  \/ RowClearIsComing(i, k)
  \/ Tells(t, i, k)
  \/ InstanceOf[t] = i /\ At(t, "clear") /\ k \in job[t].keys
  \/ InstanceOf[t] = i /\ At(t, "clearAll") /\ k \in job[t].keys /\ e = "entity"

ListClearIsDue(t, i, k) ==
  \/ ListClearIsComing(i, k)
  \/ Tells(t, i, k)
  \/ /\ InstanceOf[t] = i /\ k \in job[t].keys
     /\ job[t].at \in {"clear", "clearAll", "clearLists"}

\* The value v of row k may be in cache e of instance i, or on its way there.
RowOK(i, e, k, v) ==
  /\ v = db[k] \/ RowClearIsComing(i, k)
  /\ \A t \in Threads : pending[t][k] # None => RowClearIsDue(t, i, e, k)

ListOK(i, v) ==
  \A k \in Keys :
    /\ v[k] = db[k] \/ ListClearIsComing(i, k)
    /\ \A t \in Threads : pending[t][k] # None => ListClearIsDue(t, i, k)

LinesOK ==
  \A i \in Instances, e \in Entities, k \in Keys :
    line[i][e][k].row # None /\ line[i][e][k].sound => RowOK(i, e, k, line[i][e][k].row)

AnswersOK ==
  \A t \in Threads, e \in Entities, k \in Keys :
    At(t, "put") /\ job[t].entity = e /\ k \in job[t].keys /\ job[t].sound =>
      RowOK(InstanceOf[t], e, k, job[t].row)

ListsOK ==
  \A i \in Instances, o \in Orders :
    lists[i][o].list # None /\ lists[i][o].sound => ListOK(i, lists[i][o].list)

\* An answer goes to the cache, unless the map that is to take it has gone.
ListAnswer(t) == \/ job[t].at \in {"map", "newMap"}
                 \/ At(t, "putList") /\ job[t].inMap
ListAnswersOK ==
  \A t \in Threads : ListAnswer(t) /\ job[t].sound =>
    job[t].list # None /\ ListOK(InstanceOf[t], job[t].list)

IInv == TypeOK /\ ListenersClear /\ LinesOK /\ AnswersOK /\ ListsOK /\ ListAnswersOK

-----------------------------------------------------------------------------
(* Types *)

\* The record of an idle thread is one.
LEMMA NoJobType == NoJob \in Job
  BY DEF NoJob, Job, Places, Entities, Row, Version

\* The variables begin with their types.
LEMMA InitType == Init => TypeOK
  BY NoJobType DEF Init, TypeOK, NoLine, NoList, NoLists, Row, Version, Table

\* An operation that goes on, whose answer is overtaken, or whose map has gone
\* is a job.
LEMMA JobUpdates ==
  ASSUME NEW j \in Job
  PROVE  /\ \A p \in Places : [j EXCEPT !.at = p] \in Job
         /\ UnsoundJob(j) \in Job
         /\ [j EXCEPT !.inMap = FALSE] \in Job
  BY DEF Job, UnsoundJob

\* The jobs after a step of Clear, ClearAll, ClearLists and the eviction of lists.
LEMMA JobsUpdates ==
  ASSUME TypeOK, NEW i \in Instances
  PROVE  /\ \A K \in SUBSET Keys : Overtaken(i, K) \in [Threads -> Job]
         /\ \A jobs \in [Threads -> Job] : DropLists(i, jobs) =>
              /\ job' \in [Threads -> Job]
              /\ lists' \in [Instances -> [Orders -> [list : Table \cup {None}, sound : BOOLEAN]]]
              /\ mapped' \in [Instances -> BOOLEAN]
<1>1. \A u \in Threads : job[u] \in Job /\ UnsoundJob(job[u]) \in Job
  BY JobUpdates DEF TypeOK
<1>2. \A K \in SUBSET Keys : Overtaken(i, K) \in [Threads -> Job]
  BY <1>1 DEF Overtaken
<1>3. ASSUME NEW jobs \in [Threads -> Job], DropLists(i, jobs) PROVE job' \in [Threads -> Job]
  BY <1>3, JobUpdates DEF DropLists
<1>4. ASSUME NEW jobs \in [Threads -> Job], DropLists(i, jobs)
      PROVE  /\ lists' \in [Instances -> [Orders -> [list : Table \cup {None}, sound : BOOLEAN]]]
             /\ mapped' \in [Instances -> BOOLEAN]
  BY <1>4 DEF TypeOK, DropLists, NoLists, NoList
<1> QED BY <1>2, <1>3, <1>4

\* A line or list that is no longer sound keeps its type.
LEMMA UnsoundTypes ==
  /\ \A K \in SUBSET Keys : \A c \in [Keys -> [row : Row, sound : BOOLEAN]] :
       UnsoundLines(c, K) \in [Keys -> [row : Row, sound : BOOLEAN]]
  /\ \A c \in [Orders -> [list : Table \cup {None}, sound : BOOLEAN]] :
       UnsoundLists(c) \in [Orders -> [list : Table \cup {None}, sound : BOOLEAN]]
  BY DEF UnsoundLines, UnsoundLists, Unsound

\* So do the lines, lists and jobs of instances that miss clears.
LEMMA MissTypes ==
  ASSUME TypeOK, NEW lost \in [Instances -> SUBSET Keys], NEW jobs \in [Threads -> Job],
         Miss(lost, jobs)
  PROVE  /\ line' \in [Instances -> [Entities -> [Keys -> [row : Row, sound : BOOLEAN]]]]
         /\ lists' \in [Instances -> [Orders -> [list : Table \cup {None}, sound : BOOLEAN]]]
         /\ job' \in [Threads -> Job]
<1>1. ASSUME NEW i \in Instances, NEW e \in Entities
      PROVE  UnsoundLines(line[i][e], lost[i]) \in [Keys -> [row : Row, sound : BOOLEAN]]
  <2>1. line[i][e] \in [Keys -> [row : Row, sound : BOOLEAN]] /\ lost[i] \in SUBSET Keys
    BY DEF TypeOK
  <2> QED BY <2>1, UnsoundTypes
<1>2. line' \in [Instances -> [Entities -> [Keys -> [row : Row, sound : BOOLEAN]]]]
  BY <1>1 DEF Miss
<1>3. lists' \in [Instances -> [Orders -> [list : Table \cup {None}, sound : BOOLEAN]]]
  BY UnsoundTypes DEF TypeOK, Miss
<1>4. \A u \in Threads : jobs[u] \in Job /\ UnsoundJob(jobs[u]) \in Job
  BY JobUpdates
<1>5. job' \in [Threads -> Job]
  BY <1>4 DEF Miss
<1> QED BY <1>2, <1>3, <1>5

\* Every step keeps the types.
LEMMA TypeStep == TypeOK /\ [Next]_vars => TypeOK'
<1> SUFFICES ASSUME TypeOK, [Next]_vars PROVE TypeOK'
  OBVIOUS
<1> USE ThreadsAssumption, BoundAssumption
<1>1. ASSUME NEW t \in Threads, NEW e \in Entities, NEW k \in Keys, FindOne(t, e, k) PROVE TypeOK'
  <2>1. [NoJob EXCEPT !.at = "query", !.entity = e, !.keys = {k}] \in Job
    BY NoJobType DEF Job, Row, Table, Version, Places, Entities, NoJob
  <2> QED BY <2>1, <1>1 DEF TypeOK, FindOne, Asks
<1>2. ASSUME NEW t \in Threads, Query(t) PROVE TypeOK'
  <2>1. PICK k \in Keys :
          job' = [job EXCEPT ![t] =
                    [@ EXCEPT !.at = "put", !.row = Sees(t, k), !.sound = ~Uncommitted(k)]]
    BY <1>2 DEF Query
  <2>2. job[t] \in Job /\ k \in Keys
    BY DEF TypeOK
  <2>3. Sees(t, k) \in Row
    BY <2>2 DEF TypeOK, Sees, Row
  <2>4. [job[t] EXCEPT !.at = "put", !.row = Sees(t, k), !.sound = ~Uncommitted(k)] \in Job
    BY <2>2, <2>3 DEF Job, Places, Uncommitted
  <2> QED BY <2>1, <2>4, <1>2 DEF TypeOK, Query
<1>3. ASSUME NEW t \in Threads, Put(t) PROVE TypeOK'
  <2>1. [NoJob EXCEPT !.at = "hook"] \in Job /\ NoJob \in Job
    BY NoJobType, JobUpdates DEF Places
  <2>2. job' \in [Threads -> Job]
    BY <2>1, <1>3 DEF TypeOK, Put
  <2>3. job[t].row \in Row /\ job[t].sound \in BOOLEAN
    BY DEF TypeOK, Job
  <2>4. line' \in [Instances -> [Entities -> [Keys -> [row : Row, sound : BOOLEAN]]]]
    <3> DEFINE c == [k \in Keys |-> IF k \in job[t].keys
                                     THEN [row |-> job[t].row, sound |-> job[t].sound]
                                     ELSE line[InstanceOf[t]][job[t].entity][k]]
    <3>1. InstanceOf[t] \in Instances /\ job[t].entity \in Entities
      BY DEF TypeOK, Job
    <3>2. c \in [Keys -> [row : Row, sound : BOOLEAN]]
      BY <2>3, <3>1 DEF TypeOK
    <3>3. line' = [line EXCEPT ![InstanceOf[t]][job[t].entity] = c]
      BY <3>1, <1>3 DEF TypeOK, Put
    <3> HIDE DEF c
    <3> QED BY <3>1, <3>2, <3>3 DEF TypeOK
  <2> QED BY <2>2, <2>4, <1>3 DEF TypeOK, Put
<1>4. ASSUME NEW t \in Threads, StoreHook(t) PROVE TypeOK'
  <2>1. [job EXCEPT ![t] = NoJob] \in [Threads -> Job]
    BY NoJobType DEF TypeOK
  <2> QED BY <2>1, JobsUpdates, <1>4 DEF TypeOK, StoreHook
<1>5. ASSUME NEW t \in Threads, NEW o \in Orders, FindList(t, o) PROVE TypeOK'
  <2>1. [NoJob EXCEPT !.at = "queryList", !.order = o] \in Job
    BY NoJobType DEF Job, Row, Table, Version, Places, Entities, NoJob
  <2> QED BY <2>1, <1>5 DEF TypeOK, FindList, Asks
<1>6. ASSUME NEW t \in Threads, NEW o \in Orders, Reorder(t, o) PROVE TypeOK'
  <2>1. PICK p \in Orders :
          LET cached == lists[InstanceOf[t]][p] IN
          job' = [job EXCEPT ![t] = [NoJob EXCEPT !.at = "putList", !.order = o, !.list = cached.list,
                                                  !.sound = cached.sound, !.inMap = TRUE]]
    BY <1>6 DEF Reorder
  <2>2. /\ lists[InstanceOf[t]][p].list \in Table \cup {None}
        /\ lists[InstanceOf[t]][p].sound \in BOOLEAN
    BY DEF TypeOK
  <2>3. [NoJob EXCEPT !.at = "putList", !.order = o, !.list = lists[InstanceOf[t]][p].list,
                      !.sound = lists[InstanceOf[t]][p].sound, !.inMap = TRUE] \in Job
    BY <2>2, NoJobType DEF Job, Places
  <2> QED BY <2>1, <2>3, <1>6 DEF TypeOK, Reorder, Asks
<1>7. ASSUME NEW t \in Threads, QueryList(t) PROVE TypeOK'
  <2> DEFINE list == [k \in Keys |-> Sees(t, k)]
             sound == \A k \in Keys : ~Uncommitted(k)
  <2>1. list \in Table
    BY DEF TypeOK, Sees, Row, Table
  <2>2. [job[t] EXCEPT !.at = "map", !.list = list, !.sound = sound] \in Job
    <3>1. job[t] \in Job /\ sound \in BOOLEAN
      BY DEF TypeOK
    <3> HIDE DEF list, sound
    <3> QED BY <2>1, <3>1 DEF Job, Places
  <2> QED BY <2>2, <1>7 DEF TypeOK, QueryList
<1>8. ASSUME NEW t \in Threads, GetMap(t) PROVE TypeOK'
  <2>1. job[t] \in Job
    BY DEF TypeOK
  <2>2. /\ [job[t] EXCEPT !.at = "putList", !.inMap = TRUE] \in Job
        /\ [job[t] EXCEPT !.at = "newMap"] \in Job
    BY <2>1 DEF Job, Places
  <2> QED BY <2>2, <1>8 DEF TypeOK, GetMap
<1>9. ASSUME NEW t \in Threads, NewMap(t) PROVE TypeOK'
  <2>1. \A u \in Threads : job[u] \in Job
    BY DEF TypeOK
  <2>2. [job[t] EXCEPT !.at = "putList", !.inMap = TRUE] \in Job
    BY <2>1 DEF Job, Places
  <2>3. \A u \in Threads : [job[u] EXCEPT !.inMap = FALSE] \in Job
    BY <2>1, JobUpdates
  <2> QED BY <2>1, <2>2, <2>3, <1>9 DEF TypeOK, NewMap, NoLists, NoList
<1>10. ASSUME NEW t \in Threads, PutList(t) PROVE TypeOK'
  <2>1. job[t].list \in Table \cup {None} /\ job[t].sound \in BOOLEAN
    BY DEF TypeOK, Job
  <2> QED BY <2>1, NoJobType, <1>10 DEF TypeOK, PutList
<1>11. ASSUME NEW t \in Threads, NEW k \in Keys, Write(t, k) PROVE TypeOK'
  <2>1. [NoJob EXCEPT !.at = "clear", !.keys = {k}, !.tell = TRUE] \in Job
    BY NoJobType DEF Job, Places
  <2>2. clock' \in Nat /\ pending' \in [Threads -> [Keys -> Row]]
    BY <1>11 DEF TypeOK, Write, Writes, Row, Version
  <2> QED BY <2>1, <2>2, <1>11 DEF TypeOK, Write
<1>12. ASSUME NEW t \in Threads, NEW K \in SUBSET Keys, WriteWhere(t, K) PROVE TypeOK'
  <2>1. [NoJob EXCEPT !.at = "clearAll", !.keys = K] \in Job
    BY NoJobType DEF Job, Places
  <2>2. clock' \in Nat /\ pending' \in [Threads -> [Keys -> Row]]
    BY <1>12 DEF TypeOK, WriteWhere, Writes, Row, Version
  <2>3. job' \in [Threads -> Job]
    <3>1. \A u \in Threads : job[u] \in Job /\ UnsoundJob(job[u]) \in Job
      BY JobUpdates DEF TypeOK
    <3> QED BY <2>1, <3>1, <1>12 DEF WriteWhere
  <2>4. line' \in [Instances -> [Entities -> [Keys -> [row : Row, sound : BOOLEAN]]]]
    <3> DEFINE cut == [i \in Instances |-> [e \in Entities |-> UnsoundLines(line[i][e], K)]]
    <3>1. cut \in [Instances -> [Entities -> [Keys -> [row : Row, sound : BOOLEAN]]]]
      BY UnsoundTypes DEF TypeOK
    <3>2. line' = [i \in Instances |-> [e \in Entities |->
                     IF i = InstanceOf[t] /\ e = "entity" THEN line[i][e] ELSE cut[i][e]]]
      BY <1>12 DEF WriteWhere
    <3> HIDE DEF cut
    <3> QED BY <3>1, <3>2 DEF TypeOK
  <2>5. lists' \in [Instances -> [Orders -> [list : Table \cup {None}, sound : BOOLEAN]]]
    BY UnsoundTypes, <1>12 DEF TypeOK, WriteWhere
  <2> QED BY <2>2, <2>3, <2>4, <2>5, <1>12 DEF TypeOK, WriteWhere
<1>13. ASSUME NEW t \in Threads, Clear(t) PROVE TypeOK'
  <2>1. InstanceOf[t] \in Instances /\ job[t].keys \in SUBSET Keys
    BY DEF TypeOK, Job
  <2>2. Overtaken(InstanceOf[t], job[t].keys) \in [Threads -> Job]
    BY <2>1, JobsUpdates
  <2>3. job' \in [Threads -> Job]
    BY <2>2, JobUpdates, <1>13 DEF Clear, Places
  <2>4. line' \in [Instances -> [Entities -> [Keys -> [row : Row, sound : BOOLEAN]]]]
    BY <1>13 DEF TypeOK, Clear, NoLine, Row
  <2> QED BY <2>3, <2>4, <1>13 DEF TypeOK, Clear
<1>14. ASSUME NEW t \in Threads, ClearAll(t) PROVE TypeOK'
  <2>1. InstanceOf[t] \in Instances /\ job[t].keys \in SUBSET Keys
    BY DEF TypeOK, Job
  <2>2. Overtaken(InstanceOf[t], Keys) \in [Threads -> Job]
    BY <2>1, JobsUpdates
  <2>3. job' \in [Threads -> Job]
    BY <2>2, JobUpdates, <1>14 DEF ClearAll, Places
  <2>4. line' \in [Instances -> [Entities -> [Keys -> [row : Row, sound : BOOLEAN]]]]
    BY <1>14 DEF TypeOK, ClearAll, NoLine, Row
  <2> QED BY <2>3, <2>4, <1>14 DEF TypeOK, ClearAll
<1>15. ASSUME NEW t \in Threads, ClearLists(t) PROVE TypeOK'
  <2> DEFINE i == InstanceOf[t]
             overtaken == [u \in Threads |-> IF HasList(u, i) THEN UnsoundJob(job[u]) ELSE job[u]]
             next == [overtaken EXCEPT ![t] = IF job[t].tell THEN [job[t] EXCEPT !.at = "publish"] ELSE NoJob]
  <2>1. \A u \in Threads : job[u] \in Job /\ UnsoundJob(job[u]) \in Job
    BY JobUpdates DEF TypeOK
  <2>2. [job[t] EXCEPT !.at = "publish"] \in Job
    BY <2>1, JobUpdates DEF Places
  <2>3. next \in [Threads -> Job]
    BY <2>1, <2>2, NoJobType
  <2>4. DropLists(i, next)
    BY <1>15 DEF ClearLists
  <2> HIDE DEF next
  <2> QED BY <2>3, <2>4, JobsUpdates, <1>15 DEF TypeOK, ClearLists
<1>16. ASSUME NEW t \in Threads, Publish(t) PROVE TypeOK'
  <2> DEFINE lost == [i \in Instances |-> IF i = InstanceOf[t] \/ listens[i] THEN {} ELSE job[t].keys]
             jobs == [job EXCEPT ![t] = NoJob]
  <2>1. clears' \in [Instances -> [Keys -> Nat]]
    BY <1>16 DEF TypeOK, Publish
  <2>2. lost \in [Instances -> SUBSET Keys] /\ jobs \in [Threads -> Job]
    BY NoJobType DEF TypeOK, Job
  <2>3. Miss(lost, jobs)
    BY <1>16 DEF Publish
  <2> HIDE DEF lost, jobs
  <2> QED BY <2>1, <2>2, <2>3, MissTypes, <1>16 DEF TypeOK, Publish
<1>17. ASSUME NEW t \in Threads, PublishFails(t) PROVE TypeOK'
  <2> DEFINE lost == [i \in Instances |-> IF i = InstanceOf[t] THEN {} ELSE job[t].keys]
             jobs == [job EXCEPT ![t] = NoJob]
  <2>1. lost \in [Instances -> SUBSET Keys] /\ jobs \in [Threads -> Job]
    BY NoJobType DEF TypeOK, Job
  <2>2. Miss(lost, jobs)
    BY <1>17 DEF PublishFails
  <2> HIDE DEF lost, jobs
  <2> QED BY <2>1, <2>2, MissTypes, <1>17 DEF TypeOK, PublishFails
<1>18. ASSUME NEW t \in Threads, Receive(t) PROVE TypeOK'
  <2>1. PICK k \in Keys :
          /\ clears[InstanceOf[t]][k] > 0
          /\ clears' = [clears EXCEPT ![InstanceOf[t]][k] = @ - 1]
          /\ job' = [job EXCEPT ![t] = [NoJob EXCEPT !.at = "clear", !.keys = {k}]]
    BY <1>18 DEF Receive
  <2>2. [NoJob EXCEPT !.at = "clear", !.keys = {k}] \in Job
    BY NoJobType DEF Job, Places
  <2>3. clears' \in [Instances -> [Keys -> Nat]]
    BY <2>1 DEF TypeOK
  <2> QED BY <2>1, <2>2, <2>3, <1>18 DEF TypeOK, Receive
<1>19. ASSUME NEW t \in Threads, Commit(t) PROVE TypeOK'
  <2>1. db' \in [Keys -> Version]
    BY <1>19 DEF TypeOK, Commit, Sees, Row
  <2> QED BY <2>1, <1>19 DEF TypeOK, Commit, NoWrites, Row
<1>20. ASSUME NEW t \in Threads, Rollback(t) PROVE TypeOK'
  BY NoJobType, <1>20 DEF TypeOK, Rollback, NoWrites, Row
<1>21. ASSUME NEW i \in Instances, NEW e \in Entities, NEW k \in Keys, Evict(i, e, k) PROVE TypeOK'
  BY <1>21 DEF TypeOK, Evict, NoLine, Row
<1>22. ASSUME NEW i \in Instances, EvictLists(i) PROVE TypeOK'
  BY JobsUpdates, <1>22 DEF TypeOK, EvictLists
<1>23. ASSUME NEW i \in Instances, Restart(i) PROVE TypeOK'
  <2>1. line' \in [Instances -> [Entities -> [Keys -> [row : Row, sound : BOOLEAN]]]]
    BY <1>23 DEF TypeOK, Restart, NoLine, Row
  <2>2. job' \in [Threads -> Job] /\ pending' \in [Threads -> [Keys -> Row]]
    BY NoJobType, <1>23 DEF TypeOK, Restart, NoWrites, Row
  <2> QED BY <2>1, <2>2, <1>23 DEF TypeOK, Restart, NoLists, NoList
<1>24. ASSUME NEW t \in Threads, NEW K \in SUBSET Keys, WriteUncleared(t, K) PROVE TypeOK'
  <2> DEFINE lost == [i \in Instances |-> K]
  <2>1. clock' \in Nat /\ pending' \in [Threads -> [Keys -> Row]]
    BY <1>24 DEF TypeOK, WriteUncleared, Writes, Row, Version
  <2>2. lost \in [Instances -> SUBSET Keys] /\ job \in [Threads -> Job] /\ Miss(lost, job)
    BY <1>24 DEF TypeOK, WriteUncleared
  <2> HIDE DEF lost
  <2> QED BY <2>1, <2>2, MissTypes, <1>24 DEF TypeOK, WriteUncleared
<1>25. ASSUME NEW t \in Threads, ReceiveFails(t) PROVE TypeOK'
  <2>1. PICK k \in Keys :
          /\ clears[InstanceOf[t]][k] > 0
          /\ clears' = [clears EXCEPT ![InstanceOf[t]][k] = @ - 1]
          /\ Miss([i \in Instances |-> IF i = InstanceOf[t] THEN {k} ELSE {}], job)
    BY <1>25 DEF ReceiveFails
  <2> DEFINE lost == [i \in Instances |-> IF i = InstanceOf[t] THEN {k} ELSE {}]
  <2>2. clears' \in [Instances -> [Keys -> Nat]]
    BY <2>1 DEF TypeOK
  <2>3. lost \in [Instances -> SUBSET Keys] /\ job \in [Threads -> Job] /\ Miss(lost, job)
    BY <2>1 DEF TypeOK
  <2> HIDE DEF lost
  <2> QED BY <2>2, <2>3, MissTypes, <1>25 DEF TypeOK, ReceiveFails
<1>26. ASSUME NEW i \in Instances, Connect(i) PROVE TypeOK'
  BY <1>26 DEF TypeOK, Connect
<1>27. ASSUME NEW i \in Instances, Disconnect(i) PROVE TypeOK'
  <2> DEFINE lost == [j \in Instances |-> IF j = i THEN {k \in Keys : clears[i][k] > 0} ELSE {}]
  <2>1. clears' \in [Instances -> [Keys -> Nat]] /\ listens' \in [Instances -> BOOLEAN]
    BY <1>27 DEF TypeOK, Disconnect
  <2>2. lost \in [Instances -> SUBSET Keys] /\ job \in [Threads -> Job] /\ Miss(lost, job)
    BY <1>27 DEF TypeOK, Disconnect
  <2> HIDE DEF lost
  <2> QED BY <2>1, <2>2, MissTypes, <1>27 DEF TypeOK, Disconnect
<1>28. CASE UNCHANGED vars
  BY <1>28 DEF TypeOK, vars
<1> QED
  BY <1>1, <1>2, <1>3, <1>4, <1>5, <1>6, <1>7, <1>8, <1>9, <1>10, <1>11, <1>12, <1>13, <1>14,
     <1>15, <1>16, <1>17, <1>18, <1>19, <1>20, <1>21, <1>22, <1>23, <1>24, <1>25, <1>26, <1>27,
     <1>28 DEF Next, Step

\* Every variable of the caches keeps its type.
THEOREM TypeCorrect == Spec => []TypeOK
  BY InitType, TypeStep, PTL DEF Spec

-----------------------------------------------------------------------------
(* Listeners *)

\* The fields of a job that an update of one field leaves alone.
LEMMA Fields ==
  ASSUME NEW j \in Job
  PROVE  /\ LET d == [j EXCEPT !.inMap = FALSE] IN
              /\ d.at = j.at /\ d.entity = j.entity /\ d.keys = j.keys /\ d.row = j.row
              /\ d.list = j.list /\ d.sound = j.sound /\ d.tell = j.tell /\ ~d.inMap
         /\ LET u == UnsoundJob(j) IN
              /\ u.at = j.at /\ u.entity = j.entity /\ u.keys = j.keys /\ u.tell = j.tell
              /\ ~u.sound
         /\ \A p \in Places : LET a == [j EXCEPT !.at = p] IN
              a.at = p /\ a.keys = j.keys /\ a.tell = j.tell
  BY DEF Job, UnsoundJob

\* A thread that is no listener acts, and leaves the others where they are; or
\* a listener goes on clearing.
LEMMA ListenersStep == TypeOK /\ ListenersClear /\ [Next]_vars => ListenersClear'
<1> SUFFICES ASSUME TypeOK, ListenersClear, [Next]_vars, NEW l \in Listeners
             PROVE  /\ \A k \in Keys : pending'[l][k] = None
                    /\ job'[l].at \in {"idle", "clear", "clearLists"}
                    /\ ~job'[l].tell
  BY DEF ListenersClear, InTransaction
<1>1. /\ \A k \in Keys : pending[l][k] = None
      /\ job[l].at \in {"idle", "clear", "clearLists"}
      /\ ~job[l].tell
  BY DEF ListenersClear, InTransaction
<1>2. l \in Threads /\ job[l] \in Job /\ job \in [Threads -> Job]
  BY ThreadsAssumption DEF TypeOK
<1> DEFINE Goal == /\ \A k \in Keys : pending'[l][k] = None
                   /\ job'[l].at \in {"idle", "clear", "clearLists"}
                   /\ ~job'[l].tell
<1>3. ASSUME NEW t \in Threads, NEW e \in Entities, NEW k \in Keys, FindOne(t, e, k) PROVE Goal
  BY <1>1, <1>2, <1>3, Fields, ThreadsAssumption DEF TypeOK, FindOne
<1>4. ASSUME NEW t \in Threads, Query(t) PROVE Goal
  BY <1>1, <1>2, <1>4, Fields, ThreadsAssumption DEF TypeOK, Query, At
<1>5. ASSUME NEW t \in Threads, Put(t) PROVE Goal
  BY <1>1, <1>2, <1>5, Fields, ThreadsAssumption DEF TypeOK, Put, At
<1>6. ASSUME NEW t \in Threads, StoreHook(t) PROVE Goal
  <2>1. t # l
    BY <1>1, <1>6 DEF StoreHook, At
  <2>2. job'[l] = job[l] \/ job'[l] = [job[l] EXCEPT !.inMap = FALSE]
    BY <1>2, <1>6, <2>1 DEF StoreHook, DropLists
  <2>3. pending' = pending
    BY <1>6 DEF StoreHook
  <2>4. LET j == [job[l] EXCEPT !.inMap = FALSE] IN j.at = job[l].at /\ j.tell = job[l].tell
    BY <1>2, Fields
  <2> QED BY <1>1, <2>2, <2>3, <2>4
<1>7. ASSUME NEW t \in Threads, NEW o \in Orders, FindList(t, o) PROVE Goal
  BY <1>1, <1>2, <1>7, Fields, ThreadsAssumption DEF TypeOK, FindList
<1>8. ASSUME NEW t \in Threads, NEW o \in Orders, Reorder(t, o) PROVE Goal
  BY <1>1, <1>2, <1>8, Fields, ThreadsAssumption DEF TypeOK, Reorder
<1>9. ASSUME NEW t \in Threads, QueryList(t) PROVE Goal
  <2>1. t # l
    BY <1>1, <1>9 DEF QueryList, At
  <2>2. job'[l] = job[l] /\ pending' = pending
    BY <1>2, <2>1, <1>9 DEF QueryList
  <2> QED BY <1>1, <2>2
<1>10. ASSUME NEW t \in Threads, GetMap(t) PROVE Goal
  BY <1>1, <1>2, <1>10, Fields, ThreadsAssumption DEF TypeOK, GetMap, At
<1>11. ASSUME NEW t \in Threads, NewMap(t) PROVE Goal
  BY <1>1, <1>2, <1>11, Fields, ThreadsAssumption DEF TypeOK, NewMap, At
<1>12. ASSUME NEW t \in Threads, PutList(t) PROVE Goal
  BY <1>1, <1>2, <1>12, Fields, ThreadsAssumption DEF TypeOK, PutList, At, NoJob
<1>13. ASSUME NEW t \in Threads, NEW k \in Keys, Write(t, k) PROVE Goal
  BY <1>1, <1>2, <1>13, Fields, ThreadsAssumption DEF TypeOK, Write, Writes
<1>14. ASSUME NEW t \in Threads, NEW K \in SUBSET Keys, WriteWhere(t, K) PROVE Goal
  BY <1>1, <1>2, <1>14, Fields, ThreadsAssumption DEF TypeOK, WriteWhere, Writes
<1>15. ASSUME NEW t \in Threads, Clear(t) PROVE Goal
  BY <1>1, <1>2, <1>15, Fields, ThreadsAssumption DEF TypeOK, Clear, Overtaken, Places
<1>16. ASSUME NEW t \in Threads, ClearAll(t) PROVE Goal
  BY <1>1, <1>2, <1>16, Fields, ThreadsAssumption DEF TypeOK, ClearAll, Overtaken, At
<1>17. ASSUME NEW t \in Threads, ClearLists(t) PROVE Goal
  <2> DEFINE j == IF t = l THEN IF job[t].tell THEN [job[t] EXCEPT !.at = "publish"] ELSE NoJob
                  ELSE IF HasList(l, InstanceOf[t]) THEN UnsoundJob(job[l]) ELSE job[l]
  <2>1. job'[l] = j \/ job'[l] = [j EXCEPT !.inMap = FALSE]
    BY <1>2, <1>17 DEF ClearLists, DropLists
  <2>2. j \in Job /\ j.at \in {"idle", "clear", "clearLists"} /\ ~j.tell
    BY <1>1, <1>2, Fields, JobUpdates, NoJobType DEF NoJob
  <2>3. pending' = pending
    BY <1>17 DEF ClearLists
  <2>4. [j EXCEPT !.inMap = FALSE].at = j.at /\ [j EXCEPT !.inMap = FALSE].tell = j.tell
    BY <2>2, Fields
  <2> HIDE DEF j
  <2> QED BY <1>1, <2>1, <2>2, <2>3, <2>4
<1>18. ASSUME NEW t \in Threads, Publish(t) PROVE Goal
  <2>1. t # l /\ [job EXCEPT ![t] = NoJob][l] = job[l]
    BY <1>1, <1>2, <1>18 DEF Publish, At
  <2>2. job'[l] = job[l] \/ job'[l] = UnsoundJob(job[l])
    BY <1>2, <1>18, <2>1 DEF Publish, Miss
  <2> QED BY <1>1, <1>2, <1>18, <2>2, Fields DEF Publish
<1>19. ASSUME NEW t \in Threads, PublishFails(t) PROVE Goal
  <2>1. t # l /\ [job EXCEPT ![t] = NoJob][l] = job[l]
    BY <1>1, <1>2, <1>19 DEF PublishFails, At
  <2>2. job'[l] = job[l] \/ job'[l] = UnsoundJob(job[l])
    BY <1>2, <1>19, <2>1 DEF PublishFails, Miss
  <2> QED BY <1>1, <1>2, <1>19, <2>2, Fields DEF PublishFails
<1>20. ASSUME NEW t \in Threads, Receive(t) PROVE Goal
  BY <1>1, <1>2, <1>20, Fields, ThreadsAssumption DEF TypeOK, Receive, NoJob
<1>21. ASSUME NEW t \in Threads, Commit(t) PROVE Goal
  BY <1>1, <1>2, <1>21, Fields, ThreadsAssumption DEF TypeOK, Commit, NoWrites
<1>22. ASSUME NEW t \in Threads, Rollback(t) PROVE Goal
  BY <1>1, <1>2, <1>22, Fields, ThreadsAssumption DEF TypeOK, Rollback, NoWrites, NoJob
<1>23. ASSUME NEW i \in Instances, NEW e \in Entities, NEW k \in Keys, Evict(i, e, k) PROVE Goal
  BY <1>1, <1>2, <1>23, Fields, ThreadsAssumption DEF Evict
<1>24. ASSUME NEW i \in Instances, EvictLists(i) PROVE Goal
  BY <1>1, <1>2, <1>24, Fields, ThreadsAssumption DEF TypeOK, EvictLists, DropLists
<1>25. ASSUME NEW i \in Instances, Restart(i) PROVE Goal
  BY <1>1, <1>2, <1>25, Fields, ThreadsAssumption DEF TypeOK, Restart, NoWrites, NoJob
<1>26. ASSUME NEW t \in Threads, NEW K \in SUBSET Keys, WriteUncleared(t, K) PROVE Goal
  <2>1. t # l
    BY <1>26 DEF WriteUncleared
  <2>2. job'[l] = job[l] \/ job'[l] = UnsoundJob(job[l])
    BY <1>2, <1>26 DEF WriteUncleared, Miss
  <2>3. pending'[l] = pending[l]
    BY <1>2, <1>26, <2>1 DEF TypeOK, WriteUncleared, Writes
  <2> QED BY <1>1, <1>2, <2>2, <2>3, Fields
<1>27. ASSUME NEW t \in Threads, ReceiveFails(t) PROVE Goal
  <2>1. (job'[l] = job[l] \/ job'[l] = UnsoundJob(job[l])) /\ pending' = pending
    BY <1>2, <1>27 DEF ReceiveFails, Miss
  <2> QED BY <1>1, <1>2, <2>1, Fields
<1>28. ASSUME NEW i \in Instances, Connect(i) PROVE Goal
  BY <1>1, <1>28 DEF Connect
<1>29. ASSUME NEW i \in Instances, Disconnect(i) PROVE Goal
  <2>1. (job'[l] = job[l] \/ job'[l] = UnsoundJob(job[l])) /\ pending' = pending
    BY <1>2, <1>29 DEF Disconnect, Miss
  <2> QED BY <1>1, <1>2, <2>1, Fields
<1>30. CASE UNCHANGED vars
  BY <1>1, <1>30 DEF vars
<1> QED
  BY <1>3, <1>4, <1>5, <1>6, <1>7, <1>8, <1>9, <1>10, <1>11, <1>12, <1>13, <1>14, <1>15, <1>16,
     <1>17, <1>18, <1>19, <1>20, <1>21, <1>22, <1>23, <1>24, <1>25, <1>26, <1>27, <1>28, <1>29,
     <1>30 DEF Next, Step

-----------------------------------------------------------------------------
(* What stays true of cached values *)

\* What is true of a value of a row is still true after the step.
RowKept(i, e, k) == \A v : RowOK(i, e, k, v) => RowOK(i, e, k, v)'
ListKept(i) == \A v : ListOK(i, v) => ListOK(i, v)'

\* Sound lines stay in order if each is an old one about which the truth is kept.
LEMMA LinesFollow ==
  ASSUME LinesOK,
         \A i \in Instances, e \in Entities, k \in Keys :
           line'[i][e][k].row # None /\ line'[i][e][k].sound =>
             line'[i][e][k] = line[i][e][k] /\ RowKept(i, e, k)
  PROVE  LinesOK'
<1> SUFFICES ASSUME NEW i \in Instances, NEW e \in Entities, NEW k \in Keys,
                    line'[i][e][k].row # None, line'[i][e][k].sound
             PROVE  RowOK(i, e, k, line[i][e][k].row)'
  BY DEF LinesOK
<1> DEFINE v == line[i][e][k].row
<1>1. line'[i][e][k].row = v /\ RowKept(i, e, k)
  OBVIOUS
<1>2. RowOK(i, e, k, v)
  BY <1>1 DEF LinesOK
<1> QED BY <1>1, <1>2 DEF RowKept, RowOK

\* The same of answers ...
LEMMA AnswersFollow ==
  ASSUME AnswersOK,
         \A t \in Threads, e \in Entities, k \in Keys :
           job'[t].at = "put" /\ job'[t].entity = e /\ k \in job'[t].keys /\ job'[t].sound =>
             /\ At(t, "put") /\ job[t].entity = e /\ k \in job[t].keys /\ job[t].sound
             /\ job'[t].row = job[t].row /\ RowKept(InstanceOf[t], e, k)
  PROVE  AnswersOK'
<1> SUFFICES ASSUME NEW t \in Threads, NEW e \in Entities, NEW k \in Keys,
                    job'[t].at = "put", job'[t].entity = e, k \in job'[t].keys, job'[t].sound
             PROVE  RowOK(InstanceOf[t], e, k, job[t].row)'
  BY DEF AnswersOK, At
<1> DEFINE v == job[t].row
<1>1. job'[t].row = v /\ RowKept(InstanceOf[t], e, k)
  OBVIOUS
<1>2. RowOK(InstanceOf[t], e, k, v)
  BY <1>1 DEF AnswersOK
<1> QED BY <1>1, <1>2 DEF RowKept, RowOK

\* ... of lists ...
LEMMA ListsFollow ==
  ASSUME ListsOK,
         \A i \in Instances, o \in Orders :
           lists'[i][o].list # None /\ lists'[i][o].sound =>
             lists'[i][o] = lists[i][o] /\ ListKept(i)
  PROVE  ListsOK'
  BY DEF ListsOK, ListKept, ListOK

\* ... and of answers that are lists.
LEMMA ListAnswersFollow ==
  ASSUME ListAnswersOK,
         \A t \in Threads :
           ListAnswer(t)' /\ job'[t].sound =>
             /\ ListAnswer(t) /\ job[t].sound
             /\ job'[t].list = job[t].list /\ ListKept(InstanceOf[t])
  PROVE  ListAnswersOK'
  BY DEF ListAnswersOK, ListKept, ListOK

\* A step after which every clear that was due still is.
Quiet ==
  /\ db' = db /\ pending' = pending /\ clears' = clears
  /\ \A t \in Threads :
       \/ /\ job'[t].at = job[t].at /\ job'[t].keys = job[t].keys /\ job'[t].tell = job[t].tell
       \/ job[t].at \notin {"clear", "clearAll", "clearLists", "publish"}

\* A quiet step keeps the truth about all values.
LEMMA QuietKeeps ==
  ASSUME Quiet
  PROVE  /\ \A i \in Instances, e \in Entities, k \in Keys : RowKept(i, e, k)
         /\ \A i \in Instances : ListKept(i)
<1> USE ThreadsAssumption
<1>1. \A i \in Instances, k \in Keys : RowClearIsComing(i, k) => RowClearIsComing(i, k)'
  BY DEF Quiet, RowClearIsComing, At
<1>2. \A i \in Instances, k \in Keys : ListClearIsComing(i, k) => ListClearIsComing(i, k)'
  BY <1>1 DEF Quiet, ListClearIsComing, At
<1>3. \A t \in Threads, i \in Instances, k \in Keys : Tells(t, i, k) => Tells(t, i, k)'
  BY DEF Quiet, Tells
<1>4. \A t \in Threads, i \in Instances, e \in Entities, k \in Keys :
        RowClearIsDue(t, i, e, k) => RowClearIsDue(t, i, e, k)'
  BY <1>1, <1>3 DEF Quiet, RowClearIsDue, At
<1>5. \A t \in Threads, i \in Instances, k \in Keys :
        ListClearIsDue(t, i, k) => ListClearIsDue(t, i, k)'
  BY <1>2, <1>3 DEF Quiet, ListClearIsDue
<1>6. \A i \in Instances, e \in Entities, k \in Keys : RowKept(i, e, k)
  BY <1>1, <1>4 DEF Quiet, RowKept, RowOK
<1>7. \A i \in Instances : ListKept(i)
  BY <1>2, <1>5 DEF Quiet, ListKept, ListOK
<1> QED BY <1>6, <1>7

-----------------------------------------------------------------------------
(* Reads *)

ValuesOK == LinesOK /\ AnswersOK /\ ListsOK /\ ListAnswersOK

\* A job goes on as it was, perhaps without its map.
SameJob(old, new) ==
  /\ new.at = old.at /\ new.entity = old.entity /\ new.keys = old.keys /\ new.row = old.row
  /\ new.list = old.list /\ new.sound = old.sound /\ new.tell = old.tell
  /\ new.inMap => old.inMap

\* A job that loses its map is otherwise the same.
LEMMA Detached == \A j \in Job : LET d == [j EXCEPT !.inMap = FALSE] IN SameJob(j, d) /\ ~d.inMap
  BY DEF Job, SameJob

\* A thread has no answer, the one it had, or one that is not sound.
NoNewAnswer(u) ==
  \/ job'[u].at \notin {"put", "map", "newMap", "putList"}
  \/ SameJob(job[u], job'[u])
  \/ ~job'[u].sound

\* No line and no list is filled.
NoNewLine == \A i \in Instances, e \in Entities, k \in Keys :
               line'[i][e][k].row = None \/ line'[i][e][k] = line[i][e][k] \/ ~line'[i][e][k].sound
NoNewList == \A i \in Instances, o \in Orders :
               lists'[i][o].list = None \/ lists'[i][o] = lists[i][o] \/ ~lists'[i][o].sound

\* Old values stay in order in a quiet step.
LEMMA QuietAnswers ==
  ASSUME TypeOK, AnswersOK, ListAnswersOK, Quiet, \A u \in Threads : NoNewAnswer(u)
  PROVE  AnswersOK' /\ ListAnswersOK'
<1>1. \A u \in Threads : job[u] \in Job /\ InstanceOf[u] \in Instances
  BY ThreadsAssumption DEF TypeOK
<1>2. AnswersOK'
  <2>1. \A u \in Threads, e \in Entities, k \in Keys :
          job'[u].at = "put" /\ job'[u].entity = e /\ k \in job'[u].keys /\ job'[u].sound =>
            /\ At(u, "put") /\ job[u].entity = e /\ k \in job[u].keys /\ job[u].sound
            /\ job'[u].row = job[u].row
    BY DEF NoNewAnswer, SameJob, At
  <2> QED BY <1>1, <2>1, QuietKeeps, AnswersFollow
<1>3. ListAnswersOK'
  <2>1. \A u \in Threads : ListAnswer(u)' /\ job'[u].sound =>
          ListAnswer(u) /\ job[u].sound /\ job'[u].list = job[u].list
    BY DEF NoNewAnswer, SameJob, At, ListAnswer
  <2> QED BY <1>1, <2>1, QuietKeeps, ListAnswersFollow
<1> QED BY <1>2, <1>3

\* Old lines stay in order in a quiet step.
LEMMA QuietLines == LinesOK /\ Quiet /\ NoNewLine => LinesOK'
  BY QuietKeeps, LinesFollow DEF NoNewLine

\* Old lists stay in order in a quiet step.
LEMMA QuietLists == ListsOK /\ Quiet /\ NoNewList => ListsOK'
  BY QuietKeeps, ListsFollow DEF NoNewList

\* Nothing is filled, and nobody gets an answer.
LEMMA QuietStep ==
  TypeOK /\ ValuesOK /\ Quiet /\ (\A u \in Threads : NoNewAnswer(u)) /\ NoNewLine /\ NoNewList
    => ValuesOK'
  BY QuietAnswers, QuietLines, QuietLists DEF ValuesOK

\* The eviction of the lists of an instance fills none.
LEMMA DroppedLists ==
  ASSUME TypeOK, NEW i \in Instances, NEW jobs \in [Threads -> Job], DropLists(i, jobs),
         \A u \in Threads : jobs[u].inMap => job[u].inMap
  PROVE  /\ NoNewList
         /\ \A o \in Orders : lists'[i][o].list = None
         /\ \A j \in Instances \ {i} : lists'[j] = lists[j]
         /\ \A u \in Threads : SameJob(jobs[u], job'[u])
         /\ \A u \in Threads : InstanceOf[u] = i => ~job'[u].inMap
<1>1. /\ \A o \in Orders : lists'[i][o].list = None
      /\ \A j \in Instances \ {i} : lists'[j] = lists[j]
  BY DEF TypeOK, DropLists, NoLists, NoList
<1>2. NoNewList
  BY <1>1 DEF NoNewList
<1>3. ASSUME NEW u \in Threads
      PROVE  SameJob(jobs[u], job'[u]) /\ (InstanceOf[u] = i => ~job'[u].inMap)
  <2>1. jobs[u] \in Job
    OBVIOUS
  <2>2. CASE HasMap(u, i)
    <3>1. job'[u] = [jobs[u] EXCEPT !.inMap = FALSE]
      BY <2>2 DEF DropLists
    <3> QED BY <2>1, <3>1, Detached
  <2>3. CASE ~HasMap(u, i)
    BY <2>1, <2>3 DEF DropLists, HasMap, SameJob
  <2> QED BY <2>2, <2>3
<1> QED BY <1>1, <1>2, <1>3

\* A reader that misses a line changes no value.
LEMMA FindOneStep ==
  ASSUME TypeOK, ValuesOK, NEW t \in Threads, NEW e \in Entities, NEW k \in Keys, FindOne(t, e, k)
  PROVE  ValuesOK'
<1>1. job'[t].at = "query" /\ job[t].at = "idle" /\ \A u \in Threads \ {t} : job'[u] = job[u]
  BY DEF TypeOK, FindOne, NoJob, At
<1>2. Quiet /\ NoNewLine /\ NoNewList /\ \A u \in Threads : NoNewAnswer(u)
  BY <1>1 DEF FindOne, Quiet, NoNewLine, NoNewList, NoNewAnswer, SameJob
<1> QED BY <1>2, QuietStep

\* A reader that misses a list changes no value.
LEMMA FindListStep ==
  ASSUME TypeOK, ValuesOK, NEW t \in Threads, NEW o \in Orders, FindList(t, o)
  PROVE  ValuesOK'
<1>1. job'[t].at = "queryList" /\ job[t].at = "idle" /\ \A u \in Threads \ {t} : job'[u] = job[u]
  BY DEF TypeOK, FindList, NoJob, At
<1>2. Quiet /\ NoNewLine /\ NoNewList /\ \A u \in Threads : NoNewAnswer(u)
  BY <1>1 DEF FindList, Quiet, NoNewLine, NoNewList, NoNewAnswer, SameJob
<1> QED BY <1>2, QuietStep

\* The eviction of a line leaves the other values.
LEMMA EvictStep ==
  ASSUME TypeOK, ValuesOK, NEW i \in Instances, NEW e \in Entities, NEW k \in Keys, Evict(i, e, k)
  PROVE  ValuesOK'
<1>1. NoNewLine
  BY DEF TypeOK, Evict, NoNewLine, NoLine
<1>2. Quiet /\ NoNewList /\ \A u \in Threads : NoNewAnswer(u)
  BY DEF Evict, Quiet, NoNewList, NoNewAnswer, SameJob
<1> QED BY <1>1, <1>2, QuietStep

\* The eviction of the lists leaves the other values.
LEMMA EvictListsStep ==
  ASSUME TypeOK, ValuesOK, NEW i \in Instances, EvictLists(i)
  PROVE  ValuesOK'
<1>1. NoNewList /\ \A u \in Threads : SameJob(job[u], job'[u])
  BY DroppedLists DEF EvictLists, TypeOK
<1>2. Quiet /\ NoNewLine /\ \A u \in Threads : NoNewAnswer(u)
  BY <1>1 DEF EvictLists, Quiet, NoNewLine, NoNewAnswer, SameJob
<1> QED BY <1>1, <1>2, QuietStep

\* The lists that a cached row removes leave the other values.
LEMMA StoreHookStep ==
  ASSUME TypeOK, ValuesOK, NEW t \in Threads, StoreHook(t)
  PROVE  ValuesOK'
<1> DEFINE jobs == [job EXCEPT ![t] = NoJob]
<1>1. jobs \in [Threads -> Job] /\ InstanceOf[t] \in Instances
  BY NoJobType, ThreadsAssumption DEF TypeOK
<1>2. NoNewList /\ \A u \in Threads : SameJob(jobs[u], job'[u])
  <2>1. CASE DropLists(InstanceOf[t], jobs)
    BY <1>1, <2>1, DroppedLists DEF TypeOK, NoJob
  <2>2. CASE job' = jobs /\ UNCHANGED <<lists, mapped>>
    BY <2>2 DEF NoNewList, SameJob
  <2> QED BY <2>1, <2>2 DEF StoreHook
<1>3. /\ job[t].at = "hook" /\ job'[t].at = "idle"
      /\ \A u \in Threads \ {t} : SameJob(job[u], job'[u])
  <2>1. jobs[t].at = "idle" /\ \A u \in Threads \ {t} : jobs[u] = job[u]
    BY DEF TypeOK, NoJob
  <2>2. job[t].at = "hook"
    BY DEF StoreHook, At
  <2> HIDE DEF jobs
  <2> QED BY <1>2, <2>1, <2>2 DEF SameJob
<1>4. \A u \in Threads : NoNewAnswer(u)
  BY <1>3 DEF NoNewAnswer
<1>5. Quiet /\ NoNewLine
  BY <1>3 DEF StoreHook, Quiet, NoNewLine, SameJob
<1> QED BY <1>2, <1>4, <1>5, QuietStep

\* An answer that no open transaction touches is the committed row.
LEMMA QueryStep ==
  ASSUME TypeOK, ValuesOK, NEW t \in Threads, Query(t)
  PROVE  ValuesOK'
<1>1. PICK k \in Keys :
        /\ job[t].keys = {k}
        /\ job' = [job EXCEPT ![t] =
                     [@ EXCEPT !.at = "put", !.row = Sees(t, k), !.sound = ~Uncommitted(k)]]
  BY DEF Query
<1>2. /\ job[t].at = "query" /\ job'[t].at = "put"
      /\ job'[t].keys = {k} /\ job'[t].row = Sees(t, k) /\ job'[t].sound = ~Uncommitted(k)
      /\ \A u \in Threads \ {t} : job'[u] = job[u]
  <2>1. job[t] \in Job /\ job[t].at = "query"
    BY DEF TypeOK, Query, At
  <2>2. /\ job'[t] = [job[t] EXCEPT !.at = "put", !.row = Sees(t, k), !.sound = ~Uncommitted(k)]
        /\ \A u \in Threads \ {t} : job'[u] = job[u]
    BY <1>1 DEF TypeOK
  <2>3. \A r, b : LET a == [job[t] EXCEPT !.at = "put", !.row = r, !.sound = b] IN
          a.at = "put" /\ a.keys = job[t].keys /\ a.row = r /\ a.sound = b
    BY <2>1 DEF Job
  <2> DEFINE v == Sees(t, k)
             free == ~Uncommitted(k)
  <2> HIDE DEF v, free
  <2>4. job'[t] = [job[t] EXCEPT !.at = "put", !.row = v, !.sound = free]
    BY <2>2 DEF v, free
  <2>5. job'[t].at = "put" /\ job'[t].keys = job[t].keys /\ job'[t].row = v /\ job'[t].sound = free
    BY <2>3, <2>4
  <2> QED BY <1>1, <2>1, <2>2, <2>5 DEF v, free
<1>3. Quiet /\ NoNewLine /\ NoNewList
  BY <1>2 DEF Query, Quiet, NoNewLine, NoNewList
<1>4. LinesOK' /\ ListsOK'
  BY <1>3, QuietLines, QuietLists DEF ValuesOK
<1>5. ListAnswersOK'
  <2>1. \A u \in Threads : ListAnswer(u)' /\ job'[u].sound =>
          ListAnswer(u) /\ job[u].sound /\ job'[u].list = job[u].list
    BY <1>2 DEF ListAnswer, At
  <2> QED BY <1>3, <2>1, QuietKeeps, ListAnswersFollow, ThreadsAssumption DEF ValuesOK
<1>6. AnswersOK'
  <2> SUFFICES ASSUME NEW u \in Threads, NEW e \in Entities, NEW l \in Keys,
                      job'[u].at = "put", job'[u].entity = e, l \in job'[u].keys, job'[u].sound
               PROVE  RowOK(InstanceOf[u], e, l, job[u].row)'
    BY DEF AnswersOK, At
  <2>1. CASE u = t
    <3>1. l = k /\ ~Uncommitted(k) /\ job'[u].row = Sees(t, k)
      BY <1>2, <2>1
    <3>2. (\A w \in Threads : pending'[w][l] = None) /\ job'[u].row = db'[l]
      BY <3>1 DEF Query, Uncommitted, Sees
    <3> QED BY <3>2 DEF RowOK
  <2>2. CASE u # t
    <3>1. job'[u] = job[u] /\ InstanceOf[u] \in Instances
      BY <1>2, <2>2, ThreadsAssumption
    <3>2. RowOK(InstanceOf[u], e, l, job[u].row) /\ RowKept(InstanceOf[u], e, l)
      BY <1>3, <3>1, QuietKeeps DEF ValuesOK, AnswersOK, At
    <3> QED BY <3>1, <3>2 DEF RowKept, RowOK
  <2> QED BY <2>1, <2>2
<1> QED BY <1>4, <1>5, <1>6 DEF ValuesOK

\* A line is as good as the answer that fills it.
LEMMA PutStep ==
  ASSUME TypeOK, ValuesOK, NEW t \in Threads, Put(t)
  PROVE  ValuesOK'
<1> DEFINE i == InstanceOf[t]
           e == job[t].entity
<1>1. i \in Instances /\ e \in Entities
  BY ThreadsAssumption DEF TypeOK, Job
<1>2. /\ job[t].at = "put" /\ job'[t].at \in {"hook", "idle"}
      /\ \A u \in Threads \ {t} : job'[u] = job[u]
  BY DEF TypeOK, Put, NoJob, At
<1>3. Quiet /\ NoNewList /\ \A u \in Threads : NoNewAnswer(u)
  BY <1>2 DEF Put, Quiet, NoNewList, NoNewAnswer, SameJob
<1>4. AnswersOK' /\ ListsOK' /\ ListAnswersOK'
  BY <1>3, QuietAnswers, QuietLists DEF ValuesOK
<1>5. LinesOK'
  <2> SUFFICES ASSUME NEW j \in Instances, NEW f \in Entities, NEW k \in Keys,
                      line'[j][f][k].row # None, line'[j][f][k].sound
               PROVE  RowOK(j, f, k, line[j][f][k].row)'
    BY DEF LinesOK
  <2>1. RowKept(j, f, k)
    BY <1>3, QuietKeeps
  <2>2. CASE j = i /\ f = e /\ k \in job[t].keys
    <3>1. line'[j][f][k].row = job[t].row /\ line'[j][f][k].sound = job[t].sound
      BY <1>1, <2>2 DEF TypeOK, Put
    <3>2. RowOK(j, f, k, job[t].row)
      BY <1>2, <2>2, <3>1 DEF ValuesOK, AnswersOK, At
    <3> QED BY <2>1, <3>1, <3>2 DEF RowKept, RowOK
  <2>3. CASE ~(j = i /\ f = e /\ k \in job[t].keys)
    <3>1. line'[j][f][k] = line[j][f][k]
      BY <1>1, <2>3 DEF TypeOK, Put
    <3>2. RowOK(j, f, k, line[j][f][k].row)
      BY <3>1 DEF ValuesOK, LinesOK
    <3> QED BY <2>1, <3>1, <3>2 DEF RowKept, RowOK
  <2> QED BY <2>2, <2>3
<1> QED BY <1>4, <1>5 DEF ValuesOK

\* A list in another order is as good as the one it is made from.
LEMMA ReorderStep ==
  ASSUME TypeOK, ValuesOK, NEW t \in Threads, NEW o \in Orders, Reorder(t, o)
  PROVE  ValuesOK'
<1> DEFINE i == InstanceOf[t]
<1>1. PICK p \in Orders :
        /\ lists[i][p].list # None
        /\ job' = [job EXCEPT ![t] = [NoJob EXCEPT !.at = "putList", !.order = o, !.list = lists[i][p].list,
                                                   !.sound = lists[i][p].sound, !.inMap = TRUE]]
  BY DEF Reorder
<1>2. /\ job[t].at = "idle" /\ job'[t].at = "putList" /\ job'[t].list = lists[i][p].list
      /\ job'[t].sound = lists[i][p].sound
      /\ \A u \in Threads \ {t} : job'[u] = job[u]
  BY <1>1 DEF TypeOK, Reorder, At, NoJob
<1>3. Quiet /\ NoNewLine /\ NoNewList
  BY <1>2 DEF Reorder, Quiet, NoNewLine, NoNewList
<1>4. LinesOK' /\ ListsOK'
  BY <1>3, QuietLines, QuietLists DEF ValuesOK
<1>5. AnswersOK'
  <2>1. \A u \in Threads : job'[u].at = "put" => job'[u] = job[u]
    BY <1>2
  <2> QED BY <1>3, <2>1, QuietKeeps, AnswersFollow, ThreadsAssumption DEF ValuesOK, At
<1>6. ListAnswersOK'
  <2> SUFFICES ASSUME NEW u \in Threads, ListAnswer(u)', job'[u].sound
               PROVE  job'[u].list # None /\ ListOK(InstanceOf[u], job[u].list)'
    BY DEF ListAnswersOK
  <2>1. InstanceOf[u] \in Instances /\ ListKept(InstanceOf[u])
    BY <1>3, QuietKeeps, ThreadsAssumption
  <2>2. CASE u = t
    <3>1. job'[u].list = lists[i][p].list /\ lists[i][p].list # None /\ ListOK(InstanceOf[u], lists[i][p].list)
      BY <1>1, <1>2, <2>1, <2>2 DEF ValuesOK, ListsOK
    <3> QED BY <2>1, <3>1 DEF ListKept, ListOK
  <2>3. CASE u # t
    <3>1. job'[u] = job[u] /\ ListAnswer(u) /\ job[u].sound
      BY <1>2, <2>3 DEF ListAnswer, At
    <3>2. job[u].list # None /\ ListOK(InstanceOf[u], job[u].list)
      BY <3>1 DEF ValuesOK, ListAnswersOK
    <3> QED BY <2>1, <3>1, <3>2 DEF ListKept, ListOK
  <2> QED BY <2>2, <2>3
<1> QED BY <1>4, <1>5, <1>6 DEF ValuesOK

\* A list of rows that no open transaction touches is the committed one.
LEMMA QueryListStep ==
  ASSUME TypeOK, ValuesOK, NEW t \in Threads, QueryList(t)
  PROVE  ValuesOK'
<1> DEFINE v == [k \in Keys |-> Sees(t, k)]
           free == \A k \in Keys : ~Uncommitted(k)
<1>1. job' = [job EXCEPT ![t] = [job[t] EXCEPT !.at = "map", !.list = v, !.sound = free]]
  BY DEF QueryList
<1>2. /\ job[t].at = "queryList" /\ job'[t].at = "map" /\ job'[t].list = v /\ job'[t].sound = free
      /\ \A u \in Threads \ {t} : job'[u] = job[u]
  <2>1. job[t] \in Job /\ job[t].at = "queryList"
    BY DEF TypeOK, QueryList, At
  <2> HIDE DEF v, free
  <2>2. /\ job'[t] = [job[t] EXCEPT !.at = "map", !.list = v, !.sound = free]
        /\ \A u \in Threads \ {t} : job'[u] = job[u]
    BY <1>1 DEF TypeOK
  <2> QED BY <2>1, <2>2 DEF Job
<1>3. Quiet /\ NoNewLine /\ NoNewList
  BY <1>2 DEF QueryList, Quiet, NoNewLine, NoNewList
<1>4. LinesOK' /\ ListsOK'
  BY <1>3, QuietLines, QuietLists DEF ValuesOK
<1>5. AnswersOK'
  <2>1. \A u \in Threads : job'[u].at = "put" => job'[u] = job[u]
    BY <1>2
  <2> QED BY <1>3, <2>1, QuietKeeps, AnswersFollow, ThreadsAssumption DEF ValuesOK, At
<1>6. ListAnswersOK'
  <2> SUFFICES ASSUME NEW u \in Threads, ListAnswer(u)', job'[u].sound
               PROVE  job'[u].list # None /\ ListOK(InstanceOf[u], job[u].list)'
    BY DEF ListAnswersOK
  <2>1. InstanceOf[u] \in Instances /\ ListKept(InstanceOf[u])
    BY <1>3, QuietKeeps, ThreadsAssumption
  <2>2. CASE u = t
    <3>1. free /\ job'[u].list = v
      BY <1>2, <2>2
    <3>2. /\ \A k \in Keys : \A w \in Threads : pending'[w][k] = None
          /\ \A k \in Keys : job'[u].list[k] = db'[k]
      BY <3>1 DEF QueryList, Uncommitted, Sees
    <3>3. job'[u].list # None
      <4>1. v \in [Keys -> Nat]
        BY <3>1 DEF TypeOK, Sees, Uncommitted, Version
      <4> QED BY <3>1, <4>1, NoneAssumption
    <3> QED BY <3>2, <3>3 DEF ListOK
  <2>3. CASE u # t
    <3>1. job'[u] = job[u] /\ ListAnswer(u) /\ job[u].sound
      BY <1>2, <2>3 DEF ListAnswer, At
    <3>2. job[u].list # None /\ ListOK(InstanceOf[u], job[u].list)
      BY <3>1 DEF ValuesOK, ListAnswersOK
    <3> QED BY <2>1, <3>1, <3>2 DEF ListKept, ListOK
  <2> QED BY <2>2, <2>3
<1> QED BY <1>4, <1>5, <1>6 DEF ValuesOK

\* The look for the map changes no value.
LEMMA GetMapStep ==
  ASSUME TypeOK, ValuesOK, NEW t \in Threads, GetMap(t)
  PROVE  ValuesOK'
<1>1. /\ job[t].at = "map" /\ job'[t].at \in {"newMap", "putList"} /\ job'[t].list = job[t].list
      /\ job'[t].sound = job[t].sound
      /\ \A u \in Threads \ {t} : job'[u] = job[u]
  BY DEF TypeOK, GetMap, At, Job
<1>2. Quiet /\ NoNewLine /\ NoNewList
  BY <1>1 DEF GetMap, Quiet, NoNewLine, NoNewList
<1>3. LinesOK' /\ ListsOK'
  BY <1>2, QuietLines, QuietLists DEF ValuesOK
<1>4. AnswersOK'
  <2>1. \A u \in Threads : job'[u].at = "put" => job'[u] = job[u]
    BY <1>1
  <2> QED BY <1>2, <2>1, QuietKeeps, AnswersFollow, ThreadsAssumption DEF ValuesOK, At
<1>5. ListAnswersOK'
  <2>1. \A u \in Threads : ListAnswer(u)' /\ job'[u].sound =>
          ListAnswer(u) /\ job[u].sound /\ job'[u].list = job[u].list
    BY <1>1 DEF ListAnswer, At
  <2> QED BY <1>2, <2>1, QuietKeeps, ListAnswersFollow, ThreadsAssumption DEF ValuesOK
<1> QED BY <1>3, <1>4, <1>5 DEF ValuesOK

\* A new map hides the lists of the old one.
LEMMA NewMapStep ==
  ASSUME TypeOK, ValuesOK, NEW t \in Threads, NewMap(t)
  PROVE  ValuesOK'
<1>1. job[t].at = "newMap" /\ \A u \in Threads : job[u] \in Job
  BY DEF TypeOK, NewMap, At
<1>2. /\ job'[t].at = "putList" /\ job'[t].list = job[t].list /\ job'[t].sound = job[t].sound
  BY <1>1 DEF NewMap, Job
<1>3. ASSUME NEW u \in Threads \ {t} PROVE SameJob(job[u], job'[u])
  <2>1. job'[u] = job[u] \/ job'[u] = [job[u] EXCEPT !.inMap = FALSE]
    BY DEF NewMap
  <2>2. SameJob(job[u], [job[u] EXCEPT !.inMap = FALSE])
    BY <1>1, Detached
  <2>3. SameJob(job[u], job[u])
    BY DEF SameJob
  <2> QED BY <2>1, <2>2, <2>3
<1>4. Quiet /\ NoNewLine
  BY <1>1, <1>2, <1>3 DEF NewMap, Quiet, NoNewLine, SameJob
<1>5. NoNewList
  BY DEF TypeOK, NewMap, NoLists, NoList, NoNewList
<1>6. LinesOK' /\ ListsOK'
  BY <1>4, <1>5, QuietLines, QuietLists DEF ValuesOK
<1>7. AnswersOK'
  <2>1. \A u \in Threads : job'[u].at = "put" => u # t /\ SameJob(job[u], job'[u])
    BY <1>2, <1>3
  <2> QED BY <1>4, <2>1, QuietKeeps, AnswersFollow, ThreadsAssumption DEF ValuesOK, At, SameJob
<1>8. ListAnswersOK'
  <2>1. \A u \in Threads : ListAnswer(u)' /\ job'[u].sound =>
          ListAnswer(u) /\ job[u].sound /\ job'[u].list = job[u].list
    BY <1>1, <1>2, <1>3 DEF ListAnswer, At, SameJob
  <2> QED BY <1>4, <2>1, QuietKeeps, ListAnswersFollow, ThreadsAssumption DEF ValuesOK
<1> QED BY <1>6, <1>7, <1>8 DEF ValuesOK

\* A list is as good as the answer that fills it.
LEMMA PutListStep ==
  ASSUME TypeOK, ValuesOK, NEW t \in Threads, PutList(t)
  PROVE  ValuesOK'
<1> DEFINE i == InstanceOf[t]
<1>1. /\ job[t].at = "putList" /\ job'[t].at = "idle"
      /\ \A u \in Threads \ {t} : job'[u] = job[u]
  BY DEF TypeOK, PutList, NoJob, At
<1>2. Quiet /\ NoNewLine /\ \A u \in Threads : NoNewAnswer(u)
  BY <1>1 DEF PutList, Quiet, NoNewLine, NoNewAnswer, SameJob
<1>3. LinesOK' /\ AnswersOK' /\ ListAnswersOK'
  BY <1>2, QuietAnswers, QuietLines DEF ValuesOK
<1>4. ListsOK'
  <2> SUFFICES ASSUME NEW j \in Instances, NEW o \in Orders,
                      lists'[j][o].list # None, lists'[j][o].sound
               PROVE  ListOK(j, lists[j][o].list)'
    BY DEF ListsOK
  <2>1. ListKept(j)
    BY <1>2, QuietKeeps
  <2>2. CASE job[t].inMap /\ j = i /\ o = job[t].order
    <3>1. lists'[j][o].list = job[t].list /\ lists'[j][o].sound = job[t].sound
      BY <2>2 DEF TypeOK, PutList
    <3>2. ListOK(j, job[t].list)
      BY <1>1, <2>2, <3>1 DEF ValuesOK, ListAnswersOK, ListAnswer, At
    <3> QED BY <2>1, <3>1, <3>2 DEF ListKept, ListOK
  <2>3. CASE ~(job[t].inMap /\ j = i /\ o = job[t].order)
    <3>1. lists'[j][o] = lists[j][o]
      BY <2>3 DEF TypeOK, PutList
    <3>2. ListOK(j, lists[j][o].list)
      BY <3>1 DEF ValuesOK, ListsOK
    <3> QED BY <2>1, <3>1, <3>2 DEF ListKept, ListOK
  <2> QED BY <2>2, <2>3
<1> QED BY <1>3, <1>4 DEF ValuesOK

-----------------------------------------------------------------------------
(* Writes and clears *)

\* Lines, lists and answers stay in order if each has gone, is no longer sound,
\* or is an old one about which the truth is kept.
LEMMA ValuesStep ==
  ASSUME ValuesOK,
         \A i \in Instances, e \in Entities, k \in Keys :
           line'[i][e][k].row # None /\ line'[i][e][k].sound =>
             line'[i][e][k] = line[i][e][k] /\ RowKept(i, e, k),
         \A i \in Instances, o \in Orders :
           lists'[i][o].list # None /\ lists'[i][o].sound =>
             lists'[i][o] = lists[i][o] /\ ListKept(i),
         \A u \in Threads, e \in Entities, k \in Keys :
           job'[u].at = "put" /\ job'[u].entity = e /\ k \in job'[u].keys /\ job'[u].sound =>
             SameJob(job[u], job'[u]) /\ RowKept(InstanceOf[u], e, k),
         \A u \in Threads :
           ListAnswer(u)' /\ job'[u].sound => SameJob(job[u], job'[u]) /\ ListKept(InstanceOf[u])
  PROVE  ValuesOK'
<1>1. LinesOK' /\ ListsOK'
  BY LinesFollow, ListsFollow DEF ValuesOK
<1>2. AnswersOK'
  <2>1. \A u \in Threads, e \in Entities, k \in Keys :
          job'[u].at = "put" /\ job'[u].entity = e /\ k \in job'[u].keys /\ job'[u].sound =>
            /\ At(u, "put") /\ job[u].entity = e /\ k \in job[u].keys /\ job[u].sound
            /\ job'[u].row = job[u].row
    BY DEF SameJob, At
  <2> QED BY <2>1, AnswersFollow DEF ValuesOK
<1>3. ListAnswersOK'
  <2>1. \A u \in Threads : ListAnswer(u)' /\ job'[u].sound =>
          ListAnswer(u) /\ job[u].sound /\ job'[u].list = job[u].list
    BY DEF SameJob, ListAnswer, At
  <2> QED BY <2>1, ListAnswersFollow DEF ValuesOK
<1> QED BY <1>1, <1>2, <1>3 DEF ValuesOK

\* What a job is to clear and to tell is the same.
SameWork(old, new) == new.at = old.at /\ new.keys = old.keys /\ new.tell = old.tell

\* An overtaken answer leaves its thread where it is.
LEMMA Unsounded == \A j \in Job : SameWork(j, UnsoundJob(j)) /\ ~UnsoundJob(j).sound
  BY Fields DEF SameWork

\* The lines that are still sound are those of other keys; no list is.
LEMMA UnsoundValues ==
  /\ \A K \in SUBSET Keys : \A c \in [Keys -> [row : Row, sound : BOOLEAN]] : \A k \in Keys :
       UnsoundLines(c, K)[k].row # None /\ UnsoundLines(c, K)[k].sound =>
         UnsoundLines(c, K)[k] = c[k] /\ k \notin K
  /\ \A c \in [Orders -> [list : Table \cup {None}, sound : BOOLEAN]] : \A o \in Orders :
       UnsoundLists(c)[o].list = None \/ ~UnsoundLists(c)[o].sound
  BY DEF UnsoundLines, UnsoundLists, Unsound

\* A write of one row is to clear every instance.
LEMMA WriteStep ==
  ASSUME TypeOK, ValuesOK, NEW t \in Threads, NEW k \in Keys, Write(t, k)
  PROVE  ValuesOK'
<1> USE ThreadsAssumption
<1>1. /\ t \notin Listeners /\ job[t].at = "idle" /\ \A u \in Threads \ {t} : job'[u] = job[u]
      /\ job'[t].at = "clear" /\ job'[t].keys = {k} /\ job'[t].tell
      /\ db' = db /\ clears' = clears /\ line' = line /\ lists' = lists
  BY DEF TypeOK, Write, At, NoJob
<1>2. \A u \in Threads, l \in Keys : pending'[u][l] = pending[u][l] \/ (u = t /\ l = k)
  BY DEF TypeOK, Write, Writes
<1>3. \A i \in Instances, l \in Keys : /\ RowClearIsComing(i, l) => RowClearIsComing(i, l)'
                                       /\ ListClearIsComing(i, l) => ListClearIsComing(i, l)'
  BY <1>1 DEF RowClearIsComing, ListClearIsComing, At
<1>4. ASSUME NEW u \in Threads, NEW i \in Instances, NEW l \in Keys
      PROVE  /\ \A e \in Entities : RowClearIsDue(u, i, e, l) => RowClearIsDue(u, i, e, l)'
             /\ ListClearIsDue(u, i, l) => ListClearIsDue(u, i, l)'
             /\ u = t /\ l = k => /\ \A e \in Entities : RowClearIsDue(u, i, e, l)'
                                  /\ ListClearIsDue(u, i, l)'
  BY <1>1, <1>3 DEF RowClearIsDue, ListClearIsDue, Tells, At
<1>5. \A i \in Instances, e \in Entities, l \in Keys : RowKept(i, e, l)
  BY <1>1, <1>2, <1>3, <1>4 DEF RowKept, RowOK
<1>6. \A i \in Instances : ListKept(i)
  BY <1>1, <1>2, <1>3, <1>4 DEF ListKept, ListOK
<1> QED BY <1>1, <1>5, <1>6, ValuesStep DEF SameJob, ListAnswer, At

\* A write by condition is to clear the rows and lists of its own instance, and
\* nothing else is still sound.
LEMMA WriteWhereStep ==
  ASSUME TypeOK, ValuesOK, NEW t \in Threads, NEW K \in SUBSET Keys, WriteWhere(t, K)
  PROVE  ValuesOK'
<1> USE ThreadsAssumption
<1> DEFINE own == InstanceOf[t]
<1>1. /\ t \notin Listeners /\ job[t].at = "idle"
      /\ job'[t].at = "clearAll" /\ job'[t].keys = K /\ K # {}
      /\ db' = db /\ clears' = clears
  BY DEF TypeOK, WriteWhere, At, NoJob
<1>2. ASSUME NEW u \in Threads \ {t}
      PROVE  /\ SameWork(job[u], job'[u])
             /\ job'[u].sound => job'[u] = job[u] /\ ~(/\ Answers(job[u], K)
                                                       /\ \/ InstanceOf[u] # own
                                                          \/ At(u, "put") /\ job[u].entity = "view")
  <2>1. job[u] \in Job
    BY DEF TypeOK
  <2> QED BY <2>1, Unsounded DEF WriteWhere, SameWork
<1>3. \A u \in Threads, l \in Keys : pending'[u][l] = pending[u][l] \/ (u = t /\ l \in K)
  BY DEF TypeOK, WriteWhere, Writes
<1>4. \A i \in Instances, l \in Keys : /\ RowClearIsComing(i, l) => RowClearIsComing(i, l)'
                                       /\ ListClearIsComing(i, l) => ListClearIsComing(i, l)'
  BY <1>1, <1>2 DEF RowClearIsComing, ListClearIsComing, At, SameWork
<1>5. ASSUME NEW u \in Threads, NEW i \in Instances, NEW l \in Keys
      PROVE  /\ \A e \in Entities : RowClearIsDue(u, i, e, l) => RowClearIsDue(u, i, e, l)'
             /\ ListClearIsDue(u, i, l) => ListClearIsDue(u, i, l)'
             /\ u = t /\ l \in K /\ i = own =>
                  ListClearIsDue(u, i, l)' /\ RowClearIsDue(u, i, "entity", l)'
  BY <1>1, <1>2, <1>4 DEF RowClearIsDue, ListClearIsDue, Tells, At, SameWork
<1>6. ListKept(own)
  BY <1>1, <1>3, <1>4, <1>5 DEF ListKept, ListOK
<1>7. \A i \in Instances, e \in Entities, l \in Keys :
        l \notin K \/ (i = own /\ e = "entity") => RowKept(i, e, l)
  BY <1>1, <1>3, <1>4, <1>5 DEF RowKept, RowOK
<1>8. ASSUME NEW i \in Instances, NEW e \in Entities, NEW k \in Keys,
             line'[i][e][k].row # None, line'[i][e][k].sound
      PROVE  line'[i][e][k] = line[i][e][k] /\ (k \notin K \/ (i = own /\ e = "entity"))
  <2>1. CASE i = own /\ e = "entity"
    BY <2>1 DEF WriteWhere
  <2>2. CASE ~(i = own /\ e = "entity")
    <3>1. line'[i][e] = UnsoundLines(line[i][e], K)
      BY <2>2 DEF WriteWhere
    <3>2. line[i][e] \in [Keys -> [row : Row, sound : BOOLEAN]]
      BY DEF TypeOK
    <3> QED BY <1>8, <3>1, <3>2, UnsoundValues
  <2> QED BY <2>1, <2>2
<1>9. \A i \in Instances, o \in Orders :
        lists'[i][o].list # None /\ lists'[i][o].sound => i = own /\ lists'[i][o] = lists[i][o]
  BY UnsoundValues DEF TypeOK, WriteWhere
<1>10. ASSUME NEW u \in Threads, NEW e \in Entities, NEW k \in Keys,
              job'[u].at = "put", job'[u].entity = e, k \in job'[u].keys, job'[u].sound
       PROVE  SameJob(job[u], job'[u]) /\ (k \notin K \/ (InstanceOf[u] = own /\ e = "entity"))
  <2>1. u # t /\ job'[u] = job[u]
    BY <1>1, <1>2, <1>10
  <2>2. k \in K => InstanceOf[u] = own /\ e = "entity"
    BY <1>2, <1>10, <2>1 DEF Answers, At, Entities
  <2> QED BY <2>1, <2>2 DEF SameJob
<1>11. ASSUME NEW u \in Threads, ListAnswer(u)', job'[u].sound
       PROVE  SameJob(job[u], job'[u]) /\ InstanceOf[u] = own
  <2>1. u # t /\ job'[u] = job[u] /\ job[u].at \in {"map", "newMap", "putList"}
    BY <1>1, <1>2, <1>11 DEF ListAnswer, At
  <2>2. InstanceOf[u] = own
    BY <1>1, <1>2, <1>11, <2>1 DEF Answers
  <2> QED BY <2>1, <2>2 DEF SameJob
<1> QED BY <1>6, <1>7, <1>8, <1>9, <1>10, <1>11, ValuesStep

\* Lines, lists and answers that are still sound have missed no clear.
LEMMA MissValues ==
  ASSUME TypeOK, NEW lost \in [Instances -> SUBSET Keys], NEW jobs \in [Threads -> Job],
         Miss(lost, jobs)
  PROVE  /\ \A i \in Instances, e \in Entities, k \in Keys :
              line'[i][e][k].row # None /\ line'[i][e][k].sound =>
                line'[i][e][k] = line[i][e][k] /\ k \notin lost[i]
         /\ \A i \in Instances, o \in Orders :
              lists'[i][o].list # None /\ lists'[i][o].sound =>
                lists'[i][o] = lists[i][o] /\ lost[i] = {}
         /\ \A u \in Threads :
              /\ SameWork(jobs[u], job'[u])
              /\ job'[u].sound => job'[u] = jobs[u] /\ ~Answers(jobs[u], lost[InstanceOf[u]])
<1>1. ASSUME NEW i \in Instances, NEW e \in Entities, NEW k \in Keys,
             line'[i][e][k].row # None, line'[i][e][k].sound
      PROVE  line'[i][e][k] = line[i][e][k] /\ k \notin lost[i]
  <2>1. line'[i][e] = UnsoundLines(line[i][e], lost[i])
    BY DEF Miss
  <2>2. line[i][e] \in [Keys -> [row : Row, sound : BOOLEAN]] /\ lost[i] \in SUBSET Keys
    BY DEF TypeOK
  <2> QED BY <1>1, <2>1, <2>2, UnsoundValues
<1>2. ASSUME NEW i \in Instances, NEW o \in Orders, lists'[i][o].list # None, lists'[i][o].sound
      PROVE  lists'[i][o] = lists[i][o] /\ lost[i] = {}
  <2>1. lists'[i] = IF lost[i] = {} THEN lists[i] ELSE UnsoundLists(lists[i])
    BY DEF Miss
  <2>2. lists[i] \in [Orders -> [list : Table \cup {None}, sound : BOOLEAN]]
    BY DEF TypeOK
  <2> QED BY <1>2, <2>1, <2>2, UnsoundValues
<1>3. ASSUME NEW u \in Threads
      PROVE  /\ SameWork(jobs[u], job'[u])
             /\ job'[u].sound => job'[u] = jobs[u] /\ ~Answers(jobs[u], lost[InstanceOf[u]])
  <2>1. job'[u] = IF Answers(jobs[u], lost[InstanceOf[u]]) THEN UnsoundJob(jobs[u]) ELSE jobs[u]
    BY DEF Miss
  <2>2. SameWork(jobs[u], UnsoundJob(jobs[u])) /\ ~UnsoundJob(jobs[u]).sound
    BY Unsounded
  <2>3. SameWork(jobs[u], jobs[u])
    BY DEF SameWork
  <2> QED BY <2>1, <2>2, <2>3
<1> QED BY <1>1, <1>2, <1>3

\* Values stay in order where clears are missed, if the truth is kept about
\* those that need none of them.
LEMMA MissStep ==
  ASSUME TypeOK, ValuesOK, NEW lost \in [Instances -> SUBSET Keys], NEW jobs \in [Threads -> Job],
         Miss(lost, jobs),
         \A u \in Threads : jobs[u] \in {job[u], NoJob},
         \A i \in Instances, e \in Entities, k \in Keys : k \notin lost[i] => RowKept(i, e, k),
         \A i \in Instances : lost[i] = {} => ListKept(i)
  PROVE  ValuesOK'
<1> USE ThreadsAssumption
<1>1. ASSUME NEW u \in Threads, job'[u].sound, job'[u].at # "idle"
      PROVE  /\ SameJob(job[u], job'[u]) /\ InstanceOf[u] \in Instances
             /\ ~Answers(job'[u], lost[InstanceOf[u]])
  <2>1. job'[u] = jobs[u] /\ ~Answers(jobs[u], lost[InstanceOf[u]])
    BY <1>1, MissValues
  <2>2. jobs[u] = job[u]
    BY <1>1, <2>1 DEF NoJob
  <2> QED BY <2>1, <2>2 DEF SameJob
<1>2. ASSUME NEW u \in Threads, NEW e \in Entities, NEW k \in Keys,
             job'[u].at = "put", job'[u].entity = e, k \in job'[u].keys, job'[u].sound
      PROVE  SameJob(job[u], job'[u]) /\ RowKept(InstanceOf[u], e, k)
  <2>1. k \notin lost[InstanceOf[u]]
    BY <1>1, <1>2 DEF Answers
  <2> QED BY <1>1, <1>2, <2>1
<1>3. ASSUME NEW u \in Threads, ListAnswer(u)', job'[u].sound
      PROVE  SameJob(job[u], job'[u]) /\ ListKept(InstanceOf[u])
  <2>1. job'[u].at \in {"map", "newMap", "putList"}
    BY <1>3 DEF ListAnswer, At
  <2>2. lost[InstanceOf[u]] = {}
    BY <1>1, <1>3, <2>1 DEF Answers
  <2> QED BY <1>1, <1>3, <2>1, <2>2
<1> QED BY <1>2, <1>3, MissValues, ValuesStep

\* What a writer was to tell is on its way once it is published, or what it
\* would have reached is no longer sound.
LEMMA PublishStep ==
  ASSUME TypeOK, ValuesOK, ListenersClear, NEW t \in Threads, Publish(t)
  PROVE  ValuesOK'
<1> USE ThreadsAssumption
<1> DEFINE own == InstanceOf[t]
           lost == [i \in Instances |-> IF i = own \/ listens[i] THEN {} ELSE job[t].keys]
           jobs == [job EXCEPT ![t] = NoJob]
<1>1. /\ lost \in [Instances -> SUBSET Keys] /\ jobs \in [Threads -> Job] /\ Miss(lost, jobs)
      /\ \A u \in Threads : jobs[u] \in {job[u], NoJob}
      /\ \A u \in Threads \ {t} : jobs[u] = job[u]
      /\ jobs[t] = NoJob
  BY NoJobType DEF TypeOK, Job, Publish
<1>2. /\ job[t].at = "publish" /\ t \notin Listeners /\ db' = db /\ pending' = pending
      /\ \A u \in Threads \ {t} : SameWork(job[u], job'[u])
      /\ job'[t].at = "idle"
  <2>1. \A u \in Threads : SameWork(jobs[u], job'[u])
    BY <1>1, MissValues
  <2> QED BY <1>1, <2>1 DEF Publish, At, NoJob, ListenersClear, SameWork
<1>3. \A i \in Instances, k \in Keys :
        /\ clears[i][k] > 0 => clears'[i][k] > 0
        /\ k \in job[t].keys /\ i # own /\ k \notin lost[i] => clears'[i][k] > 0
  BY DEF TypeOK, Publish
<1> HIDE DEF lost, jobs
<1>4. \A i \in Instances, k \in Keys :
        /\ RowClearIsComing(i, k) => RowClearIsComing(i, k)'
        /\ ListClearIsComing(i, k) => ListClearIsComing(i, k)'
        /\ Tells(t, i, k) /\ k \notin lost[i] => RowClearIsComing(i, k)'
  BY <1>2, <1>3 DEF RowClearIsComing, ListClearIsComing, Tells, At, SameWork
<1>5. ASSUME NEW u \in Threads, NEW i \in Instances, NEW k \in Keys, k \notin lost[i]
      PROVE  /\ \A e \in Entities : RowClearIsDue(u, i, e, k) => RowClearIsDue(u, i, e, k)'
             /\ ListClearIsDue(u, i, k) => ListClearIsDue(u, i, k)'
  BY <1>2, <1>4, <1>5 DEF RowClearIsDue, ListClearIsDue, ListClearIsComing, Tells, At, SameWork
<1>6. \A i \in Instances, e \in Entities, k \in Keys : k \notin lost[i] => RowKept(i, e, k)
  BY <1>2, <1>4, <1>5 DEF RowKept, RowOK
<1>7. \A i \in Instances : lost[i] = {} => ListKept(i)
  BY <1>2, <1>4, <1>5 DEF ListKept, ListOK
<1> QED BY <1>1, <1>6, <1>7, MissStep

\* What a clear that is lost would have reached is no longer sound.
LEMMA ReceiveFailsStep ==
  ASSUME TypeOK, ValuesOK, NEW t \in Threads, ReceiveFails(t)
  PROVE  ValuesOK'
<1> USE ThreadsAssumption
<1>1. PICK k \in Keys :
        /\ clears' = [clears EXCEPT ![InstanceOf[t]][k] = @ - 1]
        /\ Miss([i \in Instances |-> IF i = InstanceOf[t] THEN {k} ELSE {}], job)
  BY DEF ReceiveFails
<1> DEFINE lost == [i \in Instances |-> IF i = InstanceOf[t] THEN {k} ELSE {}]
<1>2. /\ lost \in [Instances -> SUBSET Keys] /\ job \in [Threads -> Job] /\ Miss(lost, job)
      /\ db' = db /\ pending' = pending
  BY <1>1 DEF TypeOK, ReceiveFails
<1>3. \A i \in Instances, l \in Keys : l \notin lost[i] => clears'[i][l] = clears[i][l]
  BY <1>1 DEF TypeOK
<1> HIDE DEF lost
<1>4. \A u \in Threads : SameWork(job[u], job'[u])
  BY <1>2, MissValues
<1>5. \A i \in Instances, l \in Keys : l \notin lost[i] =>
        /\ RowClearIsComing(i, l) => RowClearIsComing(i, l)'
        /\ ListClearIsComing(i, l) => ListClearIsComing(i, l)'
  BY <1>3, <1>4 DEF RowClearIsComing, ListClearIsComing, At, SameWork
<1>6. ASSUME NEW u \in Threads, NEW i \in Instances, NEW l \in Keys, l \notin lost[i]
      PROVE  /\ \A e \in Entities : RowClearIsDue(u, i, e, l) => RowClearIsDue(u, i, e, l)'
             /\ ListClearIsDue(u, i, l) => ListClearIsDue(u, i, l)'
  BY <1>4, <1>5, <1>6 DEF RowClearIsDue, ListClearIsDue, Tells, At, SameWork
<1>7. \A i \in Instances, e \in Entities, l \in Keys : l \notin lost[i] => RowKept(i, e, l)
  BY <1>2, <1>5, <1>6 DEF RowKept, RowOK
<1>8. \A i \in Instances : lost[i] = {} => ListKept(i)
  BY <1>2, <1>5, <1>6 DEF ListKept, ListOK
<1> QED BY <1>2, <1>7, <1>8, MissStep

\* So is what the clears that end with a connection would have reached.
LEMMA DisconnectStep ==
  ASSUME TypeOK, ValuesOK, NEW j \in Instances, Disconnect(j)
  PROVE  ValuesOK'
<1> USE ThreadsAssumption
<1> DEFINE lost == [i \in Instances |-> IF i = j THEN {k \in Keys : clears[j][k] > 0} ELSE {}]
<1>1. /\ lost \in [Instances -> SUBSET Keys] /\ job \in [Threads -> Job] /\ Miss(lost, job)
      /\ db' = db /\ pending' = pending
  BY DEF TypeOK, Disconnect
<1>2. \A i \in Instances, l \in Keys : l \notin lost[i] /\ clears[i][l] > 0 => clears'[i][l] > 0
  BY DEF TypeOK, Disconnect
<1> HIDE DEF lost
<1>3. \A u \in Threads : SameWork(job[u], job'[u])
  BY <1>1, MissValues
<1>4. \A i \in Instances, l \in Keys : l \notin lost[i] =>
        /\ RowClearIsComing(i, l) => RowClearIsComing(i, l)'
        /\ ListClearIsComing(i, l) => ListClearIsComing(i, l)'
  BY <1>2, <1>3 DEF RowClearIsComing, ListClearIsComing, At, SameWork
<1>5. ASSUME NEW u \in Threads, NEW i \in Instances, NEW l \in Keys, l \notin lost[i]
      PROVE  /\ \A e \in Entities : RowClearIsDue(u, i, e, l) => RowClearIsDue(u, i, e, l)'
             /\ ListClearIsDue(u, i, l) => ListClearIsDue(u, i, l)'
  BY <1>3, <1>4, <1>5 DEF RowClearIsDue, ListClearIsDue, Tells, At, SameWork
<1>6. \A i \in Instances, e \in Entities, l \in Keys : l \notin lost[i] => RowKept(i, e, l)
  BY <1>1, <1>4, <1>5 DEF RowKept, RowOK
<1>7. \A i \in Instances : lost[i] = {} => ListKept(i)
  BY <1>1, <1>4, <1>5 DEF ListKept, ListOK
<1> QED BY <1>1, <1>6, <1>7, MissStep

\* A write that clears nothing leaves no sound value of its rows.
LEMMA WriteUnclearedStep ==
  ASSUME TypeOK, ValuesOK, NEW t \in Threads, NEW K \in SUBSET Keys, WriteUncleared(t, K)
  PROVE  ValuesOK'
<1> USE ThreadsAssumption
<1> DEFINE lost == [i \in Instances |-> K]
<1>1. /\ lost \in [Instances -> SUBSET Keys] /\ job \in [Threads -> Job] /\ Miss(lost, job)
      /\ db' = db /\ clears' = clears /\ K # {}
      /\ \A i \in Instances : lost[i] = K
  BY DEF TypeOK, WriteUncleared
<1> HIDE DEF lost
<1>2. \A u \in Threads : SameWork(job[u], job'[u])
  BY <1>1, MissValues
<1>3. \A u \in Threads, l \in Keys : l \notin K => pending'[u][l] = pending[u][l]
  BY DEF TypeOK, WriteUncleared, Writes
<1>4. \A i \in Instances, l \in Keys : RowClearIsComing(i, l) => RowClearIsComing(i, l)'
  BY <1>1, <1>2 DEF RowClearIsComing, At, SameWork
<1>5. \A u \in Threads, i \in Instances, e \in Entities, l \in Keys :
        RowClearIsDue(u, i, e, l) => RowClearIsDue(u, i, e, l)'
  BY <1>2, <1>4 DEF RowClearIsDue, Tells, At, SameWork
<1>6. \A i \in Instances, e \in Entities, l \in Keys : l \notin K => RowKept(i, e, l)
  BY <1>1, <1>3, <1>4, <1>5 DEF RowKept, RowOK
<1> QED BY <1>1, <1>6, MissStep

\* A clear that a listener takes is still coming.
LEMMA ReceiveStep ==
  ASSUME TypeOK, ValuesOK, NEW t \in Threads, Receive(t)
  PROVE  ValuesOK'
<1> USE ThreadsAssumption
<1>1. PICK k \in Keys :
        /\ clears' = [clears EXCEPT ![InstanceOf[t]][k] = @ - 1]
        /\ job' = [job EXCEPT ![t] = [NoJob EXCEPT !.at = "clear", !.keys = {k}]]
  BY DEF Receive
<1>2. /\ t \in Listeners /\ job[t].at = "idle" /\ \A u \in Threads \ {t} : job'[u] = job[u]
      /\ job'[t].at = "clear" /\ job'[t].keys = {k}
      /\ db' = db /\ pending' = pending /\ line' = line /\ lists' = lists
  BY <1>1 DEF TypeOK, Receive, At, NoJob
<1>3. \A i \in Instances, l \in Keys : clears'[i][l] = clears[i][l] \/ (i = InstanceOf[t] /\ l = k)
  BY <1>1 DEF TypeOK
<1>4. \A i \in Instances, l \in Keys : /\ RowClearIsComing(i, l) => RowClearIsComing(i, l)'
                                       /\ ListClearIsComing(i, l) => ListClearIsComing(i, l)'
  BY <1>2, <1>3 DEF RowClearIsComing, ListClearIsComing, At
<1>5. ASSUME NEW u \in Threads, NEW i \in Instances, NEW l \in Keys
      PROVE  /\ \A e \in Entities : RowClearIsDue(u, i, e, l) => RowClearIsDue(u, i, e, l)'
             /\ ListClearIsDue(u, i, l) => ListClearIsDue(u, i, l)'
  BY <1>2, <1>4 DEF RowClearIsDue, ListClearIsDue, Tells, At
<1>6. \A i \in Instances, e \in Entities, l \in Keys : RowKept(i, e, l)
  BY <1>2, <1>4, <1>5 DEF RowKept, RowOK
<1>7. \A i \in Instances : ListKept(i)
  BY <1>2, <1>4, <1>5 DEF ListKept, ListOK
<1> QED BY <1>2, <1>6, <1>7, ValuesStep DEF SameJob, ListAnswer, At

\* The same when nothing is published.
LEMMA PublishFailsStep ==
  ASSUME TypeOK, ValuesOK, ListenersClear, NEW t \in Threads, PublishFails(t)
  PROVE  ValuesOK'
<1> USE ThreadsAssumption
<1> DEFINE own == InstanceOf[t]
           lost == [i \in Instances |-> IF i = own THEN {} ELSE job[t].keys]
           jobs == [job EXCEPT ![t] = NoJob]
<1>1. /\ lost \in [Instances -> SUBSET Keys] /\ jobs \in [Threads -> Job] /\ Miss(lost, jobs)
      /\ \A u \in Threads : jobs[u] \in {job[u], NoJob}
      /\ \A u \in Threads \ {t} : jobs[u] = job[u]
      /\ jobs[t] = NoJob
  BY NoJobType DEF TypeOK, Job, PublishFails
<1>2. /\ job[t].at = "publish" /\ t \notin Listeners /\ db' = db /\ pending' = pending
      /\ clears' = clears
      /\ \A u \in Threads \ {t} : SameWork(job[u], job'[u])
      /\ job'[t].at = "idle"
  <2>1. \A u \in Threads : SameWork(jobs[u], job'[u])
    BY <1>1, MissValues
  <2> QED BY <1>1, <2>1 DEF PublishFails, At, NoJob, ListenersClear, SameWork
<1>3. \A i \in Instances, k \in Keys : Tells(t, i, k) => k \in lost[i]
  BY DEF Tells
<1> HIDE DEF lost, jobs
<1>4. \A i \in Instances, k \in Keys :
        /\ RowClearIsComing(i, k) => RowClearIsComing(i, k)'
        /\ ListClearIsComing(i, k) => ListClearIsComing(i, k)'
  BY <1>2 DEF RowClearIsComing, ListClearIsComing, At, SameWork
<1>5. ASSUME NEW u \in Threads, NEW i \in Instances, NEW k \in Keys, k \notin lost[i]
      PROVE  /\ \A e \in Entities : RowClearIsDue(u, i, e, k) => RowClearIsDue(u, i, e, k)'
             /\ ListClearIsDue(u, i, k) => ListClearIsDue(u, i, k)'
  BY <1>2, <1>3, <1>4, <1>5 DEF RowClearIsDue, ListClearIsDue, Tells, At, SameWork
<1>6. \A i \in Instances, e \in Entities, k \in Keys : k \notin lost[i] => RowKept(i, e, k)
  BY <1>2, <1>4, <1>5 DEF RowKept, RowOK
<1>7. \A i \in Instances : lost[i] = {} => ListKept(i)
  BY <1>2, <1>4, <1>5 DEF ListKept, ListOK
<1> QED BY <1>1, <1>6, <1>7, MissStep

\* A cleared row is neither cached nor in an answer that is sound.
LEMMA ClearStep ==
  ASSUME TypeOK, ValuesOK, NEW t \in Threads, Clear(t)
  PROVE  ValuesOK'
<1> USE ThreadsAssumption
<1> DEFINE own == InstanceOf[t]
           K == job[t].keys
<1>1. /\ job[t].at = "clear" /\ K \in SUBSET Keys
      /\ db' = db /\ clears' = clears /\ pending' = pending /\ lists' = lists
  BY DEF TypeOK, Clear, At, Job
<1>2. job'[t].at = "clearLists" /\ job'[t].keys = K /\ job'[t].tell = job[t].tell
  <2>1. ~HasRow(t, own, K) /\ job[t] \in Job
    BY <1>1 DEF HasRow, TypeOK
  <2>2. job'[t] = [job[t] EXCEPT !.at = "clearLists"]
    BY <2>1 DEF Clear, Overtaken
  <2> QED BY <2>1, <2>2, Fields DEF Places
<1>3. ASSUME NEW u \in Threads \ {t}
      PROVE  /\ SameWork(job[u], job'[u])
             /\ job'[u].sound => job'[u] = job[u] /\ ~HasRow(u, own, K)
  <2>1. job[u] \in Job
    BY DEF TypeOK
  <2>2. job'[u] = IF HasRow(u, own, K) THEN UnsoundJob(job[u]) ELSE job[u]
    BY DEF Clear, Overtaken
  <2> QED BY <2>1, <2>2, Unsounded DEF SameWork
<1>4. \A i \in Instances, l \in Keys :
        /\ i # own \/ l \notin K => (RowClearIsComing(i, l) => RowClearIsComing(i, l)')
        /\ ListClearIsComing(i, l) => ListClearIsComing(i, l)'
  BY <1>1, <1>2, <1>3 DEF RowClearIsComing, ListClearIsComing, At, SameWork
<1>5. ASSUME NEW u \in Threads, NEW i \in Instances, NEW l \in Keys
      PROVE  /\ i # own \/ l \notin K =>
                  \A e \in Entities : RowClearIsDue(u, i, e, l) => RowClearIsDue(u, i, e, l)'
             /\ ListClearIsDue(u, i, l) => ListClearIsDue(u, i, l)'
  BY <1>1, <1>2, <1>3, <1>4 DEF RowClearIsDue, ListClearIsDue, Tells, At, SameWork
<1>6. \A i \in Instances : ListKept(i)
  BY <1>1, <1>4, <1>5 DEF ListKept, ListOK
<1>7. \A i \in Instances, e \in Entities, l \in Keys : i # own \/ l \notin K => RowKept(i, e, l)
  BY <1>1, <1>4, <1>5 DEF RowKept, RowOK
<1>8. \A i \in Instances, e \in Entities, k \in Keys :
        line'[i][e][k].row # None => line'[i][e][k] = line[i][e][k] /\ (i # own \/ k \notin K)
  BY DEF TypeOK, Clear, NoLine
<1>9. ASSUME NEW u \in Threads, NEW e \in Entities, NEW k \in Keys,
             job'[u].at = "put", job'[u].entity = e, k \in job'[u].keys, job'[u].sound
      PROVE  SameJob(job[u], job'[u]) /\ (InstanceOf[u] # own \/ k \notin K)
  <2>1. u # t /\ job'[u] = job[u] /\ ~HasRow(u, own, K)
    BY <1>2, <1>3, <1>9
  <2> QED BY <1>9, <2>1 DEF SameJob, HasRow
<1>10. ASSUME NEW u \in Threads, ListAnswer(u)', job'[u].sound
       PROVE  SameJob(job[u], job'[u])
  BY <1>2, <1>3, <1>10 DEF ListAnswer, At, SameJob
<1>11. \A u \in Threads : InstanceOf[u] \in Instances
  OBVIOUS
<1> QED BY <1>1, <1>6, <1>7, <1>8, <1>9, <1>10, <1>11, ValuesStep

\* The same of all rows of the entity.
LEMMA ClearAllStep ==
  ASSUME TypeOK, ValuesOK, ListenersClear, NEW t \in Threads, ClearAll(t)
  PROVE  ValuesOK'
<1> USE ThreadsAssumption
<1> DEFINE own == InstanceOf[t]
<1>1. /\ job[t].at = "clearAll" /\ t \notin Listeners
      /\ db' = db /\ clears' = clears /\ pending' = pending /\ lists' = lists
  BY DEF TypeOK, ClearAll, At, ListenersClear
<1>2. job'[t].at = "clearLists" /\ job'[t].keys = job[t].keys /\ job'[t].tell = job[t].tell
  <2>1. ~HasRow(t, own, Keys) /\ job[t] \in Job
    BY <1>1 DEF HasRow, TypeOK
  <2>2. job'[t] = [job[t] EXCEPT !.at = "clearLists"]
    BY <2>1 DEF ClearAll, Overtaken
  <2> QED BY <2>1, <2>2, Fields DEF Places
<1>3. ASSUME NEW u \in Threads \ {t}
      PROVE  /\ SameWork(job[u], job'[u])
             /\ job'[u].sound => job'[u] = job[u] /\ ~HasRow(u, own, Keys)
  <2>1. job[u] \in Job
    BY DEF TypeOK
  <2>2. job'[u] = IF HasRow(u, own, Keys) THEN UnsoundJob(job[u]) ELSE job[u]
    BY DEF ClearAll, Overtaken
  <2> QED BY <2>1, <2>2, Unsounded DEF SameWork
<1>4. \A i \in Instances, l \in Keys : /\ RowClearIsComing(i, l) => RowClearIsComing(i, l)'
                                       /\ ListClearIsComing(i, l) => ListClearIsComing(i, l)'
  BY <1>1, <1>3 DEF RowClearIsComing, ListClearIsComing, At, SameWork
<1>5. ASSUME NEW u \in Threads, NEW i \in Instances, NEW l \in Keys
      PROVE  /\ \A e \in Entities : i # own \/ e # "entity" =>
                  (RowClearIsDue(u, i, e, l) => RowClearIsDue(u, i, e, l)')
             /\ ListClearIsDue(u, i, l) => ListClearIsDue(u, i, l)'
  BY <1>1, <1>2, <1>3, <1>4 DEF RowClearIsDue, ListClearIsDue, Tells, At, SameWork
<1>6. \A i \in Instances : ListKept(i)
  BY <1>1, <1>4, <1>5 DEF ListKept, ListOK
<1>7. \A i \in Instances, e \in Entities, l \in Keys : i # own \/ e # "entity" => RowKept(i, e, l)
  BY <1>1, <1>4, <1>5 DEF RowKept, RowOK
<1>8. \A i \in Instances, e \in Entities, k \in Keys :
        line'[i][e][k].row # None => line'[i][e][k] = line[i][e][k] /\ (i # own \/ e # "entity")
  BY DEF TypeOK, ClearAll, NoLine
<1>9. ASSUME NEW u \in Threads, NEW e \in Entities, NEW k \in Keys,
             job'[u].at = "put", job'[u].entity = e, k \in job'[u].keys, job'[u].sound
      PROVE  SameJob(job[u], job'[u]) /\ InstanceOf[u] # own
  <2>1. u # t /\ job'[u] = job[u] /\ ~HasRow(u, own, Keys)
    BY <1>2, <1>3, <1>9
  <2> QED BY <1>9, <2>1 DEF SameJob, HasRow
<1>10. ASSUME NEW u \in Threads, ListAnswer(u)', job'[u].sound
       PROVE  SameJob(job[u], job'[u])
  BY <1>2, <1>3, <1>10 DEF ListAnswer, At, SameJob
<1>11. \A u \in Threads : InstanceOf[u] \in Instances
  OBVIOUS
<1> QED BY <1>1, <1>6, <1>7, <1>8, <1>9, <1>10, <1>11, ValuesStep

\* A cleared list is neither cached nor in an answer that is sound, in any
\* order.
LEMMA ClearListsStep ==
  ASSUME TypeOK, ValuesOK, NEW t \in Threads, ClearLists(t)
  PROVE  ValuesOK'
<1> USE ThreadsAssumption
<1> DEFINE own == InstanceOf[t]
           overtaken == [u \in Threads |-> IF HasList(u, own) THEN UnsoundJob(job[u]) ELSE job[u]]
           goOn == IF job[t].tell THEN [job[t] EXCEPT !.at = "publish"] ELSE NoJob
           jobs == [overtaken EXCEPT ![t] = goOn]
<1>1. /\ job[t].at = "clearLists" /\ DropLists(own, jobs) /\ own \in Instances
      /\ db' = db /\ clears' = clears /\ pending' = pending /\ line' = line
  BY DEF TypeOK, ClearLists, At
<1>2. /\ goOn \in Job /\ goOn.at \in {"publish", "idle"} /\ (goOn.inMap => job[t].inMap)
      /\ job[t].tell => goOn.at = "publish" /\ goOn.keys = job[t].keys /\ goOn.tell
  <2>1. job[t] \in Job
    BY DEF TypeOK
  <2>2. CASE job[t].tell
    <3>1. goOn = [job[t] EXCEPT !.at = "publish"]
      BY <2>2
    <3>2. goOn \in Job
      BY <2>1, <3>1, JobUpdates DEF Places
    <3>3. goOn.at = "publish" /\ goOn.keys = job[t].keys /\ goOn.tell = job[t].tell
      BY <2>1, <3>1 DEF Job
    <3>4. goOn.inMap = job[t].inMap
      BY <2>1, <3>1 DEF Job
    <3> QED BY <2>2, <3>2, <3>3, <3>4
  <2>3. CASE ~job[t].tell
    BY <2>3, NoJobType DEF NoJob
  <2> QED BY <2>2, <2>3
<1>3. ASSUME NEW u \in Threads \ {t}
      PROVE  /\ jobs[u] \in Job /\ SameWork(job[u], jobs[u]) /\ (jobs[u].inMap => job[u].inMap)
             /\ jobs[u].sound => jobs[u] = job[u] /\ ~HasList(u, own)
  <2>1. job[u] \in Job /\ UnsoundJob(job[u]).inMap = job[u].inMap
    BY DEF TypeOK, Job, UnsoundJob
  <2> QED BY <2>1, JobUpdates, Unsounded DEF SameWork
<1>4. jobs \in [Threads -> Job] /\ jobs[t] = goOn
  BY <1>2, <1>3
<1>5. /\ NoNewList /\ \A o \in Orders : lists'[own][o].list = None
      /\ \A i \in Instances \ {own} : lists'[i] = lists[i]
      /\ \A u \in Threads : SameJob(jobs[u], job'[u])
      /\ \A u \in Threads : InstanceOf[u] = own => ~job'[u].inMap
  <2> HIDE DEF jobs
  <2>1. \A u \in Threads : jobs[u].inMap => job[u].inMap
    BY <1>2, <1>3, <1>4
  <2> QED BY <1>1, <1>4, <2>1, DroppedLists
<1>6. /\ job'[t].at \in {"publish", "idle"}
      /\ job[t].tell => job'[t].at = "publish" /\ job'[t].keys = job[t].keys /\ job'[t].tell
  BY <1>2, <1>4, <1>5 DEF SameJob
<1>7. ASSUME NEW u \in Threads \ {t}
      PROVE  /\ SameWork(job[u], job'[u])
             /\ job'[u].sound => SameJob(job[u], job'[u]) /\ ~HasList(u, own)
  <2>1. SameJob(jobs[u], job'[u])
    BY <1>5
  <2>2. /\ SameWork(job[u], jobs[u])
        /\ jobs[u].sound => jobs[u] = job[u] /\ ~HasList(u, own)
    BY <1>3
  <2> HIDE DEF jobs
  <2> QED BY <2>1, <2>2 DEF SameJob, SameWork
<1> HIDE DEF jobs, goOn
<1>8. \A i \in Instances, l \in Keys :
        /\ RowClearIsComing(i, l) => RowClearIsComing(i, l)'
        /\ i # own => (ListClearIsComing(i, l) => ListClearIsComing(i, l)')
  BY <1>1, <1>6, <1>7 DEF RowClearIsComing, ListClearIsComing, At, SameWork
<1>9. ASSUME NEW u \in Threads, NEW i \in Instances, NEW l \in Keys
      PROVE  /\ \A e \in Entities : RowClearIsDue(u, i, e, l) => RowClearIsDue(u, i, e, l)'
             /\ i # own => (ListClearIsDue(u, i, l) => ListClearIsDue(u, i, l)')
  BY <1>1, <1>6, <1>7, <1>8 DEF RowClearIsDue, ListClearIsDue, Tells, At, SameWork
<1>10. \A i \in Instances : i # own => ListKept(i)
  BY <1>1, <1>8, <1>9 DEF ListKept, ListOK
<1>11. \A i \in Instances, e \in Entities, l \in Keys : RowKept(i, e, l)
  BY <1>1, <1>8, <1>9 DEF RowKept, RowOK
<1>12. \A i \in Instances, o \in Orders :
         lists'[i][o].list # None => i # own /\ lists'[i][o] = lists[i][o]
  BY <1>5
<1>13. ASSUME NEW u \in Threads, job'[u].at = "put", job'[u].sound
       PROVE  SameJob(job[u], job'[u])
  BY <1>6, <1>7, <1>13
<1>14. ASSUME NEW u \in Threads, ListAnswer(u)', job'[u].sound
       PROVE  SameJob(job[u], job'[u]) /\ InstanceOf[u] # own
  <2>1. u # t /\ SameJob(job[u], job'[u]) /\ ~HasList(u, own)
    BY <1>6, <1>7, <1>14 DEF ListAnswer, At
  <2> QED BY <1>5, <1>14, <2>1 DEF ListAnswer, At, HasList, SameJob
<1>15. \A u \in Threads : InstanceOf[u] \in Instances
  OBVIOUS
<1> QED BY <1>1, <1>10, <1>11, <1>12, <1>13, <1>14, <1>15, ValuesStep

-----------------------------------------------------------------------------
(* Transactions and restarts *)

\* When a transaction commits, the instances that are still to be cleared will
\* be by what was published.
LEMMA CommitStep ==
  ASSUME TypeOK, ValuesOK, NEW t \in Threads, Commit(t)
  PROVE  ValuesOK'
<1> USE ThreadsAssumption
<1>1. /\ job[t].at = "idle" /\ clears' = clears /\ job' = job /\ line' = line /\ lists' = lists
      /\ \A k \in Keys : db'[k] = Sees(t, k)
  BY DEF TypeOK, Commit, At
<1>2. \A u \in Threads, k \in Keys : pending'[u][k] # None => pending'[u][k] = pending[u][k]
  BY DEF TypeOK, Commit, NoWrites
<1>3. \A i \in Instances, k \in Keys : /\ RowClearIsComing(i, k)' <=> RowClearIsComing(i, k)
                                       /\ ListClearIsComing(i, k)' <=> ListClearIsComing(i, k)
  BY <1>1 DEF RowClearIsComing, ListClearIsComing, At
<1>4. \A u \in Threads, i \in Instances, k \in Keys :
        /\ \A e \in Entities : RowClearIsDue(u, i, e, k)' <=> RowClearIsDue(u, i, e, k)
        /\ ListClearIsDue(u, i, k)' <=> ListClearIsDue(u, i, k)
  BY <1>1, <1>3 DEF RowClearIsDue, ListClearIsDue, Tells, At
<1>5. \A i \in Instances, k \in Keys :
        /\ \A e \in Entities : RowClearIsDue(t, i, e, k) => RowClearIsComing(i, k)
        /\ ListClearIsDue(t, i, k) => ListClearIsComing(i, k)
  BY <1>1 DEF RowClearIsDue, ListClearIsDue, Tells, At
<1>6. \A i \in Instances, e \in Entities, k \in Keys : RowKept(i, e, k)
  BY <1>1, <1>2, <1>3, <1>4, <1>5 DEF RowKept, RowOK, Sees
<1>7. \A i \in Instances : ListKept(i)
  BY <1>1, <1>2, <1>3, <1>4, <1>5 DEF ListKept, ListOK, Sees
<1> QED BY <1>1, <1>6, <1>7, ValuesStep DEF SameJob

\* A transaction that is rolled back leaves the rows as they were.
LEMMA RollbackStep ==
  ASSUME TypeOK, ValuesOK, ListenersClear, NEW t \in Threads, Rollback(t)
  PROVE  ValuesOK'
<1> USE ThreadsAssumption
<1>1. /\ job'[t].at = "idle" /\ \A u \in Threads \ {t} : job'[u] = job[u]
      /\ t \notin Listeners /\ db' = db /\ clears' = clears /\ line' = line /\ lists' = lists
  BY DEF TypeOK, Rollback, NoJob, ListenersClear
<1>2. \A u \in Threads, k \in Keys : pending'[u][k] # None => u # t /\ pending'[u][k] = pending[u][k]
  BY DEF TypeOK, Rollback, NoWrites
<1>3. \A i \in Instances, k \in Keys : /\ RowClearIsComing(i, k) => RowClearIsComing(i, k)'
                                       /\ ListClearIsComing(i, k) => ListClearIsComing(i, k)'
  BY <1>1 DEF RowClearIsComing, ListClearIsComing, At
<1>4. ASSUME NEW u \in Threads \ {t}, NEW i \in Instances, NEW k \in Keys
      PROVE  /\ \A e \in Entities : RowClearIsDue(u, i, e, k) => RowClearIsDue(u, i, e, k)'
             /\ ListClearIsDue(u, i, k) => ListClearIsDue(u, i, k)'
  BY <1>1, <1>3 DEF RowClearIsDue, ListClearIsDue, Tells, At
<1>5. \A i \in Instances, e \in Entities, k \in Keys : RowKept(i, e, k)
  BY <1>1, <1>2, <1>3, <1>4 DEF RowKept, RowOK
<1>6. \A i \in Instances : ListKept(i)
  BY <1>1, <1>2, <1>3, <1>4 DEF ListKept, ListOK
<1> QED BY <1>1, <1>5, <1>6, ValuesStep DEF SameJob, ListAnswer, At

\* An instance that starts again has nothing cached.
LEMMA RestartStep ==
  ASSUME TypeOK, ValuesOK, NEW j \in Instances, Restart(j)
  PROVE  ValuesOK'
<1> USE ThreadsAssumption
<1>1. /\ \A u \in Threads : InstanceOf[u] = j => job'[u].at = "idle"
      /\ \A u \in Threads : InstanceOf[u] # j => job'[u] = job[u]
      /\ db' = db
  BY DEF Restart, NoJob
<1>2. \A u \in Threads, k \in Keys :
        pending'[u][k] # None => InstanceOf[u] # j /\ pending'[u][k] = pending[u][k]
  BY DEF Restart, NoWrites
<1>3. \A i \in Instances \ {j}, k \in Keys : clears'[i][k] = clears[i][k]
  BY DEF TypeOK, Restart
<1>4. \A i \in Instances \ {j}, k \in Keys :
        /\ RowClearIsComing(i, k) => RowClearIsComing(i, k)'
        /\ ListClearIsComing(i, k) => ListClearIsComing(i, k)'
  BY <1>1, <1>3 DEF RowClearIsComing, ListClearIsComing, At
<1>5. ASSUME NEW u \in Threads, InstanceOf[u] # j, NEW i \in Instances \ {j}, NEW k \in Keys
      PROVE  /\ \A e \in Entities : RowClearIsDue(u, i, e, k) => RowClearIsDue(u, i, e, k)'
             /\ ListClearIsDue(u, i, k) => ListClearIsDue(u, i, k)'
  BY <1>1, <1>4, <1>5 DEF RowClearIsDue, ListClearIsDue, Tells, At
<1>6. \A i \in Instances \ {j}, e \in Entities, k \in Keys : RowKept(i, e, k)
  BY <1>1, <1>2, <1>4, <1>5 DEF RowKept, RowOK
<1>7. \A i \in Instances \ {j} : ListKept(i)
  BY <1>1, <1>2, <1>4, <1>5 DEF ListKept, ListOK
<1>8. \A i \in Instances, e \in Entities, k \in Keys :
        line'[i][e][k].row # None => i # j /\ line'[i][e][k] = line[i][e][k]
  BY DEF TypeOK, Restart, NoLine
<1>9. \A i \in Instances, o \in Orders :
        lists'[i][o].list # None => i # j /\ lists'[i][o] = lists[i][o]
  BY DEF TypeOK, Restart, NoLists, NoList
<1>10. \A u \in Threads : job'[u].at # "idle" => InstanceOf[u] \in Instances \ {j} /\ job'[u] = job[u]
  BY <1>1
<1> QED BY <1>6, <1>7, <1>8, <1>9, <1>10, ValuesStep DEF SameJob, ListAnswer, At

-----------------------------------------------------------------------------
(* The invariant and the properties *)

\* Nothing is cached at first.
LEMMA InvInit == Init => IInv
<1> SUFFICES ASSUME Init PROVE IInv
  OBVIOUS
<1> USE ThreadsAssumption
<1>1. TypeOK
  BY InitType
<1>2. /\ \A t \in Threads : job[t] = NoJob /\ \A k \in Keys : pending[t][k] = None
      /\ \A i \in Instances, e \in Entities, k \in Keys : line[i][e][k] = NoLine
      /\ \A i \in Instances, o \in Orders : lists[i][o] = NoList
  BY DEF Init, NoLists
<1>3. ListenersClear
  BY <1>2 DEF ListenersClear, InTransaction, NoJob
<1>4. LinesOK /\ ListsOK
  BY <1>2 DEF LinesOK, ListsOK, NoLine, NoList
<1>5. AnswersOK /\ ListAnswersOK
  BY <1>2 DEF AnswersOK, ListAnswersOK, ListAnswer, At, NoJob
<1> QED BY <1>1, <1>3, <1>4, <1>5 DEF IInv

\* Every step keeps the invariant.
LEMMA InvStep == IInv /\ [Next]_vars => IInv'
<1> SUFFICES ASSUME IInv, [Next]_vars PROVE IInv'
  OBVIOUS
<1>1. TypeOK /\ ListenersClear /\ ValuesOK
  BY DEF IInv, ValuesOK
<1>2. TypeOK' /\ ListenersClear'
  BY <1>1, TypeStep, ListenersStep
<1>3. CASE UNCHANGED vars
  <2>1. Quiet /\ NoNewLine /\ NoNewList /\ \A u \in Threads : NoNewAnswer(u)
    BY <1>3 DEF vars, Quiet, NoNewLine, NoNewList, NoNewAnswer, SameJob
  <2> QED BY <1>1, <1>2, <2>1, QuietStep DEF IInv, ValuesOK
<1>4. CASE Next
  <2>1. ASSUME NEW t \in Threads, Step(t) PROVE ValuesOK'
    BY <1>1, <2>1, QueryStep, PutStep, StoreHookStep, QueryListStep, GetMapStep, NewMapStep,
       PutListStep, ClearStep, ClearAllStep, ClearListsStep, PublishStep, PublishFailsStep DEF Step
  <2>2. ASSUME NEW t \in Threads,
               \/ \E e \in Entities, k \in Keys : FindOne(t, e, k)
               \/ \E o \in Orders : FindList(t, o) \/ Reorder(t, o)
               \/ \E k \in Keys : Write(t, k)
               \/ \E K \in SUBSET Keys : WriteWhere(t, K) \/ WriteUncleared(t, K)
               \/ Receive(t) \/ ReceiveFails(t) \/ Commit(t) \/ Rollback(t)
        PROVE  ValuesOK'
    BY <1>1, <2>2, FindOneStep, FindListStep, ReorderStep, WriteStep, WriteWhereStep,
       WriteUnclearedStep, ReceiveStep, ReceiveFailsStep, CommitStep, RollbackStep
  <2>3. ASSUME NEW i \in Instances,
               \/ \E e \in Entities, k \in Keys : Evict(i, e, k)
               \/ EvictLists(i)
               \/ Disconnect(i) \/ Restart(i)
        PROVE  ValuesOK'
    BY <1>1, <2>3, EvictStep, EvictListsStep, DisconnectStep, RestartStep
  <2>4. ASSUME NEW i \in Instances, Connect(i) PROVE ValuesOK'
    <3>1. Quiet /\ NoNewLine /\ NoNewList /\ \A u \in Threads : NoNewAnswer(u)
      BY <2>4 DEF Connect, Quiet, NoNewLine, NoNewList, NoNewAnswer, SameJob
    <3> QED BY <1>1, <3>1, QuietStep
  <2>5. ValuesOK'
    BY <1>4, <2>1, <2>2, <2>3, <2>4 DEF Next
  <2> QED BY <1>2, <2>5 DEF IInv, ValuesOK
<1> QED BY <1>3, <1>4

\* A cached row that is not the committed one is about to be cleared, for any
\* number of instances, threads, keys and writes.
THEOREM LinesExplained == Spec => []StaleLinesAreExplained
<1>1. IInv => StaleLinesAreExplained
  BY DEF IInv, LinesOK, RowOK, StaleLinesAreExplained, Stale
<1> QED BY <1>1, InvInit, InvStep, PTL DEF Spec

\* The same of the lists in all orders.
THEOREM ListsExplained == Spec => []StaleListsAreExplained
<1>1. IInv => StaleListsAreExplained
  BY DEF IInv, ListsOK, ListOK, StaleListsAreExplained
<1> QED BY <1>1, InvInit, InvStep, PTL DEF Spec

=============================================================================
