---------------------------- MODULE EntityCache ----------------------------
(***************************************************************************)
(* The caches of a GenericDelegator (framework/entity/.../cache) on several*)
(* server instances over one database: the lines of the primary key cache  *)
(* of an entity and of a view of it, the lists cached for one condition    *)
(* under several orders, and the clears that a write performs in its own   *)
(* instance and publishes to the others (EntityCacheServices).             *)
(*                                                                         *)
(* A reader that misses asks the database and puts the answer later.  A    *)
(* writer clears before its transaction ends.  Nothing orders the two, so  *)
(* a cached value can be out of date.  Every line and list is "sound"      *)
(* until something happens that can leave it out of date for good:         *)
(*   - it was filled by a query while a transaction had written the row and*)
(*     not ended, or the row was cleared between the query and the put;    *)
(*   - it needed a clear that the writer did not publish, that reached the *)
(*     instance while its listener was not connected, or that the listener *)
(*     took and did not apply.                                             *)
(* The properties say that these are all the reasons.                      *)
(***************************************************************************)
EXTENDS Naturals

CONSTANTS
  Instances,
  Threads,     \* of all instances
  Listeners,   \* the threads that receive the published clears
  InstanceOf,  \* the instance of a thread
  Keys,        \* primary keys; "entity" and "view" have the same
  Orders,      \* the orders in which the list is asked for
  None,        \* no line, no list, no write
  MaxReads,    \* bound: answers that are looked for outside the cache
  MaxWrites    \* bound: statements that write

ASSUME ThreadsAssumption == /\ Listeners \subseteq Threads
                            /\ InstanceOf \in [Threads -> Instances]
ASSUME NoneAssumption == None \notin Nat /\ None \notin [Keys -> Nat]
ASSUME BoundAssumption == MaxReads \in Nat /\ MaxWrites \in Nat

VARIABLES
  db,      \* the committed rows: the write that each is from
  reads,   \* the answers looked for
  clock,   \* the writes so far
  pending, \* per thread: what its transaction has written
  line,    \* per instance, cache and key: the cached row
  lists,   \* per instance and order: the cached list
  mapped,  \* per instance: the list cache holds a map for the condition
  job,     \* per thread: the operation it is in
  clears,  \* per instance and key: clears published and not received
  listens  \* per instance: its listener is connected to the topic

vars == <<db, reads, clock, pending, line, lists, mapped, job, clears, listens>>

-----------------------------------------------------------------------------

Entities == {"entity", "view"}
Version == Nat  \* of a row, or of its absence (GenericValue.NULL_VALUE in a line)
Row == Version \cup {None}
Table == [Keys -> Version]

Places == {"idle", "query", "put", "hook", "queryList", "map", "newMap", "putList",
           "clear", "clearAll", "clearLists", "publish"}
Job == [at : Places, entity : Entities, keys : SUBSET Keys, order : Orders \cup {None},
        row : Row, list : Table \cup {None}, sound : BOOLEAN, inMap : BOOLEAN, tell : BOOLEAN]
NoJob == [at |-> "idle", entity |-> "entity", keys |-> {}, order |-> None,
          row |-> None, list |-> None, sound |-> TRUE, inMap |-> FALSE, tell |-> FALSE]

NoLine == [row |-> None, sound |-> TRUE]
NoList == [list |-> None, sound |-> TRUE]
NoLists == [o \in Orders |-> NoList]

At(t, place) == job[t].at = place
Asks == reads < MaxReads /\ reads' = reads + 1
Sees(t, k) == IF pending[t][k] = None THEN db[k] ELSE pending[t][k]
Uncommitted(k) == \E t \in Threads : pending[t][k] # None
InTransaction(t) == \E k \in Keys : pending[t][k] # None

\* A thread of instance i has an answer of the database for a key of K, or a
\* list, and has not cached it yet.
HasRow(t, i, K) == InstanceOf[t] = i /\ job[t].at = "put" /\ job[t].keys \cap K # {}
HasList(t, i) == InstanceOf[t] = i /\ job[t].at \in {"map", "newMap"}
HasMap(t, i) == InstanceOf[t] = i /\ job[t].inMap

Init == /\ db = [k \in Keys |-> 0] /\ reads = 0 /\ clock = 0
        /\ pending = [t \in Threads |-> [k \in Keys |-> None]]
        /\ line = [i \in Instances |-> [e \in Entities |-> [k \in Keys |-> NoLine]]]
        /\ lists = [i \in Instances |-> NoLists]
        /\ mapped = [i \in Instances |-> FALSE]
        /\ job = [t \in Threads |-> NoJob]
        /\ clears = [i \in Instances |-> [k \in Keys |-> 0]]
        /\ listens = [i \in Instances |-> FALSE]

-----------------------------------------------------------------------------
(* findOne with the cache *)

\* The line is not there.  (If it is, the value is returned and nothing
\* changes.)
FindOne(t, e, k) ==
  /\ t \notin Listeners /\ At(t, "idle") /\ Asks
  /\ line[InstanceOf[t]][e][k].row = None
  /\ job' = [job EXCEPT ![t] = [NoJob EXCEPT !.at = "query", !.entity = e, !.keys = {k}]]
  /\ UNCHANGED <<db, clock, pending, line, lists, mapped, clears, listens>>

\* helper.findByPrimaryKey, in the transaction of the thread, if it has one.
Query(t) ==
  /\ At(t, "query")
  /\ \E k \in Keys :
       /\ job[t].keys = {k}
       /\ job' = [job EXCEPT ![t] =
                    [@ EXCEPT !.at = "put", !.row = Sees(t, k), !.sound = ~Uncommitted(k)]]
  /\ UNCHANGED <<db, reads, clock, pending, line, lists, mapped, clears, listens>>

\* putInPrimaryKeyCache puts the answer, whatever is there by now.
Put(t) ==
  /\ At(t, "put")
  /\ LET i == InstanceOf[t] e == job[t].entity IN
       /\ line' = [line EXCEPT ![i][e] = [k \in Keys |->
                     IF k \in job[t].keys THEN [row |-> job[t].row, sound |-> job[t].sound]
                     ELSE @[k]]]
       /\ job' = [job EXCEPT ![t] = IF e = "entity" THEN [NoJob EXCEPT !.at = "hook"] ELSE NoJob]
  /\ UNCHANGED <<db, reads, clock, pending, lists, mapped, clears, listens>>

\* The lists go, and their map stays for those that hold it.
DropLists_Empties(i, jobs) ==
  /\ lists' = [lists EXCEPT ![i] = NoLists]
  /\ mapped' = [mapped EXCEPT ![i] = FALSE]
  /\ job' = jobs

\* The condition maps of an instance leave the list cache.  A thread that
\* holds one goes on with it, unseen.
DropLists(i, jobs) ==
  /\ lists' = [lists EXCEPT ![i] = NoLists]
  /\ mapped' = [mapped EXCEPT ![i] = FALSE]
  /\ job' = [t \in Threads |-> IF HasMap(t, i) THEN [jobs[t] EXCEPT !.inMap = FALSE] ELSE jobs[t]]

\* storeHook: a row that enters the cache removes the lists of its entity, but
\* those whose condition holds of the key alone and not of the row, and all if
\* the entity has auto-clear-cache="false".
StoreHook(t) ==
  /\ At(t, "hook")
  /\ LET jobs == [job EXCEPT ![t] = NoJob] IN
       \/ DropLists(InstanceOf[t], jobs)
       \/ job' = jobs /\ UNCHANGED <<lists, mapped>>
  /\ UNCHANGED <<db, reads, clock, pending, line, clears, listens>>

-----------------------------------------------------------------------------
(* findList with the cache *)

\* Neither this order nor another is there.
FindList(t, o) ==
  /\ t \notin Listeners /\ At(t, "idle") /\ Asks
  /\ \A p \in Orders : lists[InstanceOf[t]][p].list = None
  /\ job' = [job EXCEPT ![t] = [NoJob EXCEPT !.at = "queryList", !.order = o]]
  /\ UNCHANGED <<db, clock, pending, line, lists, mapped, clears, listens>>

\* Another order is: EntityListCache.get sorts a copy and puts it.
Reorder(t, o) ==
  /\ t \notin Listeners /\ At(t, "idle") /\ Asks
  /\ LET cached == lists[InstanceOf[t]] IN
       /\ cached[o].list = None
       /\ \E p \in Orders :
            /\ cached[p].list # None
            /\ job' = [job EXCEPT ![t] = [NoJob EXCEPT
                         !.at = "putList", !.order = o, !.list = cached[p].list,
                         !.sound = cached[p].sound, !.inMap = TRUE]]
  /\ UNCHANGED <<db, clock, pending, line, lists, mapped, clears, listens>>

QueryList(t) ==
  /\ At(t, "queryList")
  /\ job' = [job EXCEPT ![t].at = "map",
                        ![t].list = [k \in Keys |-> Sees(t, k)],
                        ![t].sound = \A k \in Keys : ~Uncommitted(k)]
  /\ UNCHANGED <<db, reads, clock, pending, line, lists, mapped, clears, listens>>

\* getOrCreateConditionCache looks for the map of the condition ...
GetMap(t) ==
  /\ At(t, "map")
  /\ job' = IF mapped[InstanceOf[t]]
            THEN [job EXCEPT ![t].at = "putList", ![t].inMap = TRUE]
            ELSE [job EXCEPT ![t].at = "newMap"]
  /\ UNCHANGED <<db, reads, clock, pending, line, lists, mapped, clears, listens>>

\* ... and, if there was none, puts a new one, also over one that another
\* thread has put in the meantime.
NewMap(t) ==
  /\ At(t, "newMap")
  /\ LET i == InstanceOf[t] IN
       /\ lists' = [lists EXCEPT ![i] = NoLists]
       /\ mapped' = [mapped EXCEPT ![i] = TRUE]
       /\ job' = [u \in Threads |->
                    IF u = t THEN [job[t] EXCEPT !.at = "putList", !.inMap = TRUE]
                    ELSE IF HasMap(u, i) THEN [job[u] EXCEPT !.inMap = FALSE]
                    ELSE job[u]]
  /\ UNCHANGED <<db, reads, clock, pending, line, clears, listens>>

PutList(t) ==
  /\ At(t, "putList")
  /\ LET entry == [list |-> job[t].list, sound |-> job[t].sound] IN
       lists' = IF job[t].inMap THEN [lists EXCEPT ![InstanceOf[t]][job[t].order] = entry]
                ELSE lists
  /\ job' = [job EXCEPT ![t] = NoJob]
  /\ UNCHANGED <<db, reads, clock, pending, line, mapped, clears, listens>>

-----------------------------------------------------------------------------
(* Writes *)

\* The lock on a row lasts until the transaction ends.
Writable(t, K) == \A u \in Threads \ {t}, k \in K : pending[u][k] = None

Writes(t, K) ==
  /\ Writable(t, K)
  /\ clock < MaxWrites /\ clock' = clock + 1
  /\ pending' = [pending EXCEPT ![t] = [k \in Keys |-> IF k \in K THEN clock' ELSE @[k]]]

\* create, store, removeByPrimaryKey, removeValue.
Write(t, k) ==
  /\ t \notin Listeners /\ At(t, "idle")
  /\ Writes(t, {k})
  /\ job' = [job EXCEPT ![t] = [NoJob EXCEPT !.at = "clear", !.keys = {k}, !.tell = TRUE]]
  /\ UNCHANGED <<db, reads, line, lists, mapped, clears, listens>>

\* What no clear will reach is no longer sound: lines and answers of keys K,
\* and lists and answers that contain them.
Unsound(entry, value) == [entry EXCEPT !.sound = value = None]
UnsoundLines(c, K) == [k \in Keys |-> IF k \in K THEN Unsound(c[k], c[k].row) ELSE c[k]]
UnsoundLists(c) == [o \in Orders |-> Unsound(c[o], c[o].list)]
Answers(j, K) == /\ K # {}
                 /\ \/ j.at = "put" /\ j.keys \cap K # {}
                    \/ j.at \in {"map", "newMap", "putList"}
UnsoundJob(j) == [j EXCEPT !.sound = FALSE]

\* Every instance i misses a clear of the keys lost[i].
Miss(lost, jobs) ==
  /\ line' = [i \in Instances |-> [e \in Entities |-> UnsoundLines(line[i][e], lost[i])]]
  /\ lists' = [i \in Instances |-> IF lost[i] = {} THEN lists[i] ELSE UnsoundLists(lists[i])]
  /\ job' = [u \in Threads |-> IF Answers(jobs[u], lost[InstanceOf[u]]) THEN UnsoundJob(jobs[u])
                              ELSE jobs[u]]

\* create, store, removeByPrimaryKey, removeValue, storeByCondition and
\* removeByCondition with doCacheClear=false: no cache is told.
WriteUncleared(t, K) ==
  /\ t \notin Listeners /\ At(t, "idle") /\ K # {}
  /\ Writes(t, K)
  /\ Miss([i \in Instances |-> K], job)
  /\ UNCHANGED <<db, reads, mapped, clears, listens>>

\* storeByCondition, removeByCondition: clearCacheLine(entityName) neither
\* publishes anything nor clears the views.
WriteWhere(t, K) ==
  /\ t \notin Listeners /\ At(t, "idle") /\ K # {}
  /\ Writes(t, K)
  /\ line' = [i \in Instances |-> [e \in Entities |->
                IF i = InstanceOf[t] /\ e = "entity" THEN line[i][e]
                ELSE UnsoundLines(line[i][e], K)]]
  /\ lists' = [i \in Instances |-> IF i = InstanceOf[t] THEN lists[i] ELSE UnsoundLists(lists[i])]
  /\ job' = [u \in Threads |->
               IF u = t THEN [NoJob EXCEPT !.at = "clearAll", !.keys = K]
               ELSE IF /\ Answers(job[u], K)
                       /\ \/ InstanceOf[u] # InstanceOf[t]
                          \/ At(u, "put") /\ job[u].entity = "view"
                    THEN UnsoundJob(job[u])
               ELSE job[u]]
  /\ UNCHANGED <<db, reads, mapped, clears, listens>>

\* The answers for a row that have not been cached when it is cleared.
Overtaken(i, K) == [t \in Threads |-> IF HasRow(t, i, K) THEN UnsoundJob(job[t]) ELSE job[t]]

\* The views are forgotten.
Clear_OnlyRow(t) ==
  /\ At(t, "clear")
  /\ LET i == InstanceOf[t] IN
       /\ line' = [line EXCEPT ![i]["entity"] = [k \in Keys |-> IF k \in job[t].keys THEN NoLine ELSE @[k]]]
       /\ job' = [Overtaken(i, job[t].keys) EXCEPT ![t].at = "clearLists"]
  /\ UNCHANGED <<db, reads, clock, pending, lists, mapped, clears, listens>>

\* Cache.remove(value): first the row, and all lines of its views ...
Clear(t) ==
  /\ At(t, "clear")
  /\ LET i == InstanceOf[t] IN
       /\ line' = [line EXCEPT ![i] = [e \in Entities |-> [k \in Keys |->
                     IF e = "view" \/ k \in job[t].keys THEN NoLine ELSE @[e][k]]]]
       /\ job' = [Overtaken(i, job[t].keys) EXCEPT ![t].at = "clearLists"]
  /\ UNCHANGED <<db, reads, clock, pending, lists, mapped, clears, listens>>

\* Cache.remove(entityName): all rows, and not the views ...
ClearAll(t) ==
  /\ At(t, "clearAll")
  /\ LET i == InstanceOf[t] IN
       /\ line' = [line EXCEPT ![i]["entity"] = [k \in Keys |-> NoLine]]
       /\ job' = [Overtaken(i, Keys) EXCEPT ![t].at = "clearLists"]
  /\ UNCHANGED <<db, reads, clock, pending, lists, mapped, clears, listens>>

\* ... then the lists of the entity.
ClearLists(t) ==
  /\ At(t, "clearLists")
  /\ LET i == InstanceOf[t]
         overtaken == [u \in Threads |-> IF HasList(u, i) THEN UnsoundJob(job[u]) ELSE job[u]]
     IN DropLists(i, [overtaken EXCEPT ![t] =
                        IF job[t].tell THEN [job[t] EXCEPT !.at = "publish"] ELSE NoJob])
  /\ UNCHANGED <<db, reads, clock, pending, line, clears, listens>>

\* distributedClearCacheLine publishes the key to all instances that listen to
\* the topic, its own among them.
Publish(t) ==
  /\ At(t, "publish")
  /\ clears' = [i \in Instances |-> [k \in Keys |->
                  IF listens[i] /\ k \in job[t].keys THEN clears[i][k] + 1 ELSE clears[i][k]]]
  /\ Miss([i \in Instances |-> IF i = InstanceOf[t] \/ listens[i] THEN {} ELSE job[t].keys],
          [job EXCEPT ![t] = NoJob])
  /\ UNCHANGED <<db, reads, clock, pending, mapped, listens>>

\* There is no user to publish it, or the topic cannot be reached: it is
\* logged, and the write goes on.
PublishFails(t) ==
  /\ At(t, "publish")
  /\ Miss([i \in Instances |-> IF i = InstanceOf[t] THEN {} ELSE job[t].keys],
          [job EXCEPT ![t] = NoJob])
  /\ UNCHANGED <<db, reads, clock, pending, mapped, clears, listens>>

\* A clear is taken more often than it was published.
Receive_Again(t) ==
  /\ t \in Listeners /\ At(t, "idle")
  /\ \E k \in Keys :
       /\ clears' = [clears EXCEPT ![InstanceOf[t]][k] = @ - 1]
       /\ job' = [job EXCEPT ![t] = [NoJob EXCEPT !.at = "clear", !.keys = {k}]]
  /\ UNCHANGED <<db, reads, clock, pending, line, lists, mapped, listens>>

\* The row is left to expire.
Receive_Lists(t) ==
  /\ t \in Listeners /\ At(t, "idle")
  /\ \E k \in Keys :
       /\ clears[InstanceOf[t]][k] > 0
       /\ clears' = [clears EXCEPT ![InstanceOf[t]][k] = @ - 1]
       /\ job' = [job EXCEPT ![t] = [NoJob EXCEPT !.at = "clearLists", !.keys = {k}]]
  /\ UNCHANGED <<db, reads, clock, pending, line, lists, mapped, listens>>

\* A listener takes a clear; it does not publish it again.
Receive(t) ==
  /\ t \in Listeners /\ At(t, "idle")
  /\ \E k \in Keys :
       /\ clears[InstanceOf[t]][k] > 0
       /\ clears' = [clears EXCEPT ![InstanceOf[t]][k] = @ - 1]
       /\ job' = [job EXCEPT ![t] = [NoJob EXCEPT !.at = "clear", !.keys = {k}]]
  /\ UNCHANGED <<db, reads, clock, pending, line, lists, mapped, listens>>

\* The message or its context cannot be read, the service is not exported, or
\* it fails: it is logged, and the clear is lost.
ReceiveFails(t) ==
  /\ t \in Listeners /\ At(t, "idle")
  /\ \E k \in Keys :
       /\ clears[InstanceOf[t]][k] > 0
       /\ clears' = [clears EXCEPT ![InstanceOf[t]][k] = @ - 1]
       /\ Miss([i \in Instances |-> IF i = InstanceOf[t] THEN {k} ELSE {}], job)
  /\ UNCHANGED <<db, reads, clock, pending, mapped, listens>>

\* JmsTopicListener.load subscribes, at the start or again after an exception,
\* in an instance that is configured to listen (JmsListenerFactory).
Connect(i) ==
  /\ ~listens[i] /\ \E t \in Listeners : InstanceOf[t] = i
  /\ listens' = [listens EXCEPT ![i] = TRUE]
  /\ UNCHANGED <<db, reads, clock, pending, line, lists, mapped, job, clears>>

\* onException: the subscription is not durable, and ends with the connection.
Disconnect(i) ==
  /\ listens[i]
  /\ listens' = [listens EXCEPT ![i] = FALSE]
  /\ clears' = [clears EXCEPT ![i] = [k \in Keys |-> 0]]
  /\ Miss([j \in Instances |-> IF j = i THEN {k \in Keys : clears[i][k] > 0} ELSE {}], job)
  /\ UNCHANGED <<db, reads, clock, pending, mapped>>

-----------------------------------------------------------------------------
(* The end of a transaction, and faults *)

NoWrites == [k \in Keys |-> None]

\* By the operation that has begun it, or later by the service or event that
\* called several operations.
Commit(t) ==
  /\ At(t, "idle") /\ InTransaction(t)
  /\ db' = [k \in Keys |-> Sees(t, k)]
  /\ pending' = [pending EXCEPT ![t] = NoWrites]
  /\ UNCHANGED <<reads, clock, line, lists, mapped, job, clears, listens>>

\* Also in the middle of an operation that fails.  No cache is told.
Rollback(t) ==
  /\ InTransaction(t)
  /\ pending' = [pending EXCEPT ![t] = NoWrites]
  /\ job' = [job EXCEPT ![t] = NoJob]
  /\ UNCHANGED <<db, reads, clock, line, lists, mapped, clears, listens>>

\* A line expires, is evicted for the size of the cache or collected as a
\* soft reference.
Evict(i, e, k) ==
  /\ line[i][e][k].row # None
  /\ line' = [line EXCEPT ![i][e][k] = NoLine]
  /\ UNCHANGED <<db, reads, clock, pending, lists, mapped, job, clears, listens>>

EvictLists(i) ==
  /\ mapped[i]
  /\ DropLists(i, job)
  /\ UNCHANGED <<db, reads, clock, pending, line, clears, listens>>

\* An instance dies and starts again, with empty caches and no subscription.
Restart(i) ==
  /\ line' = [line EXCEPT ![i] = [e \in Entities |-> [k \in Keys |-> NoLine]]]
  /\ lists' = [lists EXCEPT ![i] = NoLists]
  /\ mapped' = [mapped EXCEPT ![i] = FALSE]
  /\ job' = [t \in Threads |-> IF InstanceOf[t] = i THEN NoJob ELSE job[t]]
  /\ pending' = [t \in Threads |-> IF InstanceOf[t] = i THEN NoWrites ELSE pending[t]]
  /\ clears' = [clears EXCEPT ![i] = [k \in Keys |-> 0]]
  /\ listens' = [listens EXCEPT ![i] = FALSE]
  /\ UNCHANGED <<db, reads, clock>>

-----------------------------------------------------------------------------
(* The specification *)

Step(t) == \/ Query(t) \/ Put(t) \/ StoreHook(t)
           \/ QueryList(t) \/ GetMap(t) \/ NewMap(t) \/ PutList(t)
           \/ Clear(t) \/ ClearAll(t) \/ ClearLists(t)
           \/ Publish(t) \/ PublishFails(t)

Next ==
  \/ \E t \in Threads :
       \/ \E e \in Entities, k \in Keys : FindOne(t, e, k)
       \/ \E o \in Orders : FindList(t, o) \/ Reorder(t, o)
       \/ \E k \in Keys : Write(t, k)
       \/ \E K \in SUBSET Keys : WriteWhere(t, K) \/ WriteUncleared(t, K)
       \/ Step(t) \/ Receive(t) \/ ReceiveFails(t) \/ Commit(t) \/ Rollback(t)
  \/ \E i \in Instances :
       \/ \E e \in Entities, k \in Keys : Evict(i, e, k)
       \/ EvictLists(i)
       \/ Connect(i) \/ Disconnect(i) \/ Restart(i)

Spec == Init /\ [][Next]_vars

\* A listener goes on taking the clears that have reached it, and applies or
\* loses each.  Nobody has to connect, to read, to write or to end a
\* transaction.
FairSpec == /\ Spec
            /\ \A t \in Listeners :
                 WF_vars(Receive(t) \/ ReceiveFails(t) \/ Clear(t) \/ ClearLists(t))

-----------------------------------------------------------------------------
(* Properties *)

\* The types of all variables.
TypeOK ==
  /\ db \in [Keys -> Version] /\ reads \in Nat /\ clock \in Nat
  /\ pending \in [Threads -> [Keys -> Row]]
  /\ line \in [Instances -> [Entities -> [Keys -> [row : Row, sound : BOOLEAN]]]]
  /\ lists \in [Instances -> [Orders -> [list : Table \cup {None}, sound : BOOLEAN]]]
  /\ mapped \in [Instances -> BOOLEAN]
  /\ job \in [Threads -> Job]
  /\ clears \in [Instances -> [Keys -> Nat]]
  /\ listens \in [Instances -> BOOLEAN]

\* Instance i has still to take a clear of key k.
RowClearIsComing(i, k) ==
  \/ clears[i][k] > 0
  \/ \E t \in Listeners : InstanceOf[t] = i /\ At(t, "clear") /\ k \in job[t].keys
ListClearIsComing(i, k) ==
  \/ RowClearIsComing(i, k)
  \/ \E t \in Listeners : InstanceOf[t] = i /\ At(t, "clearLists") /\ k \in job[t].keys

Stale(i, e, k) == line[i][e][k].row \notin {None, db[k]}

\* A cached row that is not the committed one is about to be cleared, unless
\* it has been filled beside a transaction or a clear that had not ended, or
\* needed a clear that was not published, or was published and lost
\* (GenericDelegator.findOne, clearCacheLine; Cache.remove;
\* AbstractJmsListener).
StaleLinesAreExplained ==
  \A i \in Instances, e \in Entities, k \in Keys :
    line[i][e][k].sound /\ Stale(i, e, k) => RowClearIsComing(i, k)

\* The same of a cached list, in every order: where it differs from the
\* committed rows, a clear of the row is on its way (EntityListCache,
\* AbstractEntityConditionCache).
StaleListsAreExplained ==
  \A i \in Instances, o \in Orders :
    lists[i][o].list # None /\ lists[i][o].sound =>
      \A k \in Keys : lists[i][o].list[k] # db[k] => ListClearIsComing(i, k)

KeepsStale(i) == \E e \in Entities, k \in Keys : line[i][e][k].sound /\ Stale(i, e, k)

\* An out-of-date row that is sound does not stay: the listener takes the clear
\* that is coming, and the row goes, or the clear is one of those that are
\* lost (distributedClearCacheLine, AbstractJmsListener).
LateClearsArriveOrAreLost ==
  \A i \in Instances : []<>~KeepsStale(i)

=============================================================================
