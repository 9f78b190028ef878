------------------------ MODULE JobScheduler_proofs ------------------------
(***************************************************************************)
(* Proofs about JobScheduler, for every number of instances, jobs, job     *)
(* objects per row, threads, deaths, faults and administrative calls.      *)
(*                                                                         *)
(* Type correctness goes action by action.  For the firm cancel, the       *)
(* invariant says where the Job objects of a firmly cancelled row can be:  *)
(* before a check that refuses them, or on the way out of the queue with a *)
(* copy that is cancelled itself.                                          *)
(*                                                                         *)
(* A row is stored from copies of it, in Job objects, reloads and          *)
(* administrative calls, that may be old.  VersionsDescend says what each  *)
(* copy is made of; that no job is lost follows because every copy of a    *)
(* row would, if stored, leave a row that somebody looks for.  What an     *)
(* instance owns it holds because each Job object stores the row it has,   *)
(* and gives it up only when it is given back or over.                     *)
(***************************************************************************)
EXTENDS JobScheduler, FiniteSetTheorems, TLAPS

USE InstancesAssumption, JobsAssumption, CopiesAssumption, TemplatesAssumption, BoundsAssumption

-----------------------------------------------------------------------------
(* Names of Job objects *)

\* The parts of the name of a Job object.
LEMMA TaskIdParts ==
  ASSUME NEW o \in TaskIds
  PROVE  Inst(o) \in Instances /\ JobOf(o) \in Jobs /\ o[3] \in Copies
BY DEF TaskIds, Inst, JobOf

\* There are finitely many of them.
LEMMA TaskIdsFinite == IsFiniteSet(TaskIds)
<1> DEFINE pairs == (Instances \X Jobs) \X Copies
           name == [p \in pairs |-> <<p[1][1], p[1][2], p[2]>>]
<1>1. IsFiniteSet(pairs)
  BY FS_Product
<1>2. name \in Surjection(pairs, TaskIds)
  <2>1. name \in [pairs -> TaskIds]
    BY DEF TaskIds
  <2>2. ASSUME NEW o \in TaskIds PROVE \E p \in pairs : name[p] = o
    <3>1. o = <<o[1], o[2], o[3]>> /\ <<<<o[1], o[2]>>, o[3]>> \in pairs
      BY DEF TaskIds
    <3>2. name[<<<<o[1], o[2]>>, o[3]>>] = o
      BY <3>1
    <3> QED BY <3>1, <3>2
  <2> QED BY <2>1, <2>2 DEF Surjection
<1> HIDE DEF pairs, name
<1> QED BY <1>1, <1>2, FS_Surjection

\* The number of Job objects of an instance at given steps is a number.
LEMMA TasksAtCount ==
  ASSUME NEW i, NEW steps
  PROVE  Cardinality(TasksAt(i, steps)) \in Nat
<1>1. TasksAt(i, steps) \subseteq TaskIds
  BY DEF TasksAt
<1> QED BY <1>1, TaskIdsFinite, FS_Subset, FS_CardinalityType

\* The executor's queue has room for its capacity at most.
LEMMA QueueRoomBounds ==
  ASSUME TypeOK, NEW i \in Instances
  PROVE  QueueRoom(i) \in Int /\ QueueRoom(i) <= QueueSize
<1>1. async[i].queued \in Nat
  BY DEF TypeOK
<1> QED BY <1>1, TasksAtCount DEF QueueRoom

\* The retry counter a Job object starts with is a number.
LEMMA RetriesType ==
  ASSUME TypeOK, NEW j \in Jobs
  PROVE  Retries(j) \in Int
<1> DEFINE failed == {k \in Jobs : sandbox[k].parent = sandbox[j].parent /\ sandbox[k].status = "FAILED"}
<1>1. sandbox[j].retry \in Int
  BY DEF TypeOK, Row
<1>2. Cardinality(failed) \in Nat
  <2>1. failed \subseteq Jobs
    OBVIOUS
  <2> QED BY <2>1, FS_Subset, FS_CardinalityType
<1> HIDE DEF failed
<1>3. Retries(j) = IF sandbox[j].retry # Null THEN sandbox[j].retry
                   ELSE IF sandbox[j].parent = NoJob THEN 0 ELSE 1 + Cardinality(failed)
  BY DEF Retries, failed
<1> QED BY <1>1, <1>2, <1>3

-----------------------------------------------------------------------------
(* Rows *)

\* A row stays a row when some of its columns are set.
LEMMA RowUpdates ==
  ASSUME NEW row \in Row, NEW s \in Statuses, NEW b \in BOOLEAN, NEW i \in Instances
  PROVE  /\ [row EXCEPT !.status = s] \in Row
         /\ [row EXCEPT !.status = s, !.cancel = b] \in Row
         /\ [row EXCEPT !.status = s, !.finish = b] \in Row
         /\ [row EXCEPT !.start = b, !.status = s] \in Row
         /\ [row EXCEPT !.runBy = i] \in Row
         /\ [row EXCEPT !.maxRetry = 0] \in Row
<1>1. s \in Statuses \cup {"ABSENT"} /\ i \in Instances \cup {NoInstance} /\ 0 \in Int
  OBVIOUS
<1> QED BY <1>1 DEF Row

\* So do the rows that deQueue and the creation of a next row make.
LEMMA DequeuedType ==
  ASSUME NEW row \in Row
  PROVE  /\ Dequeued(row) \in Row
         /\ Dequeued(row).cancel = row.cancel /\ Dequeued(row).status = "PENDING"
BY DEF Dequeued, Row, Statuses

LEMMA CountedType ==
  ASSUME NEW row \in Row
  PROVE  CountRecurrence(row) \in Row
BY DEF CountRecurrence, Row

LEMMA RecurrenceType ==
  ASSUME NEW row \in Row, NEW j \in Jobs, NEW n \in Int
  PROVE  Recurrence(j, row, n) \in Row /\ CrashCopy(j, row) \in Row
<1>1. RootOf(j, row) \in Jobs
  BY DEF RootOf, Row
<1>2. row.retry \in Int
  BY DEF Row
<1> QED BY <1>1, <1>2 DEF Recurrence, CrashCopy, Row, Statuses

\* Constants of the types.
LEMMA TypeConstants ==
  /\ AbsentRow \in Row
  /\ NoTask \in Task
  /\ Idle \in Polling
  /\ NotReloaded \in Reloading /\ Reloaded \in Reloading
<1>1. AbsentRow \in Row
  BY DEF AbsentRow, Row, Null
<1>2. NoTask \in Task
  BY <1>1 DEF NoTask, Task, Steps, Null
<1>3. Idle \in Polling
  BY DEF Idle, Polling
<1>4. NotReloaded \in Reloading
  BY <1>1 DEF NotReloaded, Reloading
<1>5. Reloaded \in Reloading
  BY <1>4 DEF Reloaded, Reloading
<1> QED BY <1>1, <1>2, <1>3, <1>4, <1>5

\* A Job object stays one when it takes a step or gets a new copy of its row.
LEMMA TaskUpdates ==
  ASSUME NEW t \in Task, NEW step \in Steps, NEW row \in Row
  PROVE  /\ [t EXCEPT !.at = step] \in Task
         /\ [t EXCEPT !.at = step, !.val = row] \in Task
         /\ [t EXCEPT !.at = step, !.next = TRUE] \in Task
BY DEF Task

\* What TypeOK says of one object.
LEMMA TypeOf ==
  ASSUME TypeOK
  PROVE  /\ \A j \in Jobs : sandbox[j] \in Row
         /\ \A o \in TaskIds : task[o] \in Task /\ task[o].val \in Row
         /\ \A i \in Instances : poller[i] \in Polling /\ reload[i] \in Reloading
         /\ \A i \in Instances : \A j \in Jobs : reload[i].vals[j] \in Row
         /\ \A i \in Instances : reload[i].todo \subseteq Jobs /\ reload[i].half \in Jobs \cup {NoJob}
<1>1. \A o \in TaskIds : task[o] \in Task
  BY DEF TypeOK
<1>2. \A o \in TaskIds : task[o].val \in Row
  BY <1>1 DEF Task
<1>3. \A i \in Instances : reload[i] \in Reloading
  BY DEF TypeOK
<1>4. \A i \in Instances : /\ \A j \in Jobs : reload[i].vals[j] \in Row
                           /\ reload[i].todo \subseteq Jobs /\ reload[i].half \in Jobs \cup {NoJob}
  BY <1>3 DEF Reloading
<1> QED BY <1>1, <1>2, <1>3, <1>4 DEF TypeOK

-----------------------------------------------------------------------------
(* Types *)

\* Storing a row in the table keeps the table's type.
LEMMA StoreType ==
  ASSUME TypeOK, NEW j \in Jobs, NEW row \in Row, Store(j, row)
  PROVE  sandbox' \in [Jobs -> Row]
BY DEF TypeOK, Store

\* So does a step or the end of one Job object.
LEMMA GotoType ==
  ASSUME TypeOK, NEW o \in TaskIds, NEW step \in Steps, Goto(o, step)
  PROVE  task' \in [TaskIds -> Task]
<1>1. [task[o] EXCEPT !.at = step] \in Task
  BY TypeOf, TaskUpdates, TypeConstants
<1> QED BY <1>1 DEF TypeOK, Goto

LEMMA DropType ==
  ASSUME TypeOK, NEW o \in TaskIds, Drop(o)
  PROVE  task' \in [TaskIds -> Task]
BY TypeConstants DEF TypeOK, Drop

\* And a new copy of its row.
LEMMA CopyType ==
  ASSUME TypeOK, NEW o \in TaskIds, NEW step \in Steps, NEW row \in Row,
         task' = [task EXCEPT ![o].at = step, ![o].val = row]
  PROVE  task' \in [TaskIds -> Task]
<1>1. [task[o] EXCEPT !.at = step, !.val = row] \in Task
  BY TypeOf, TaskUpdates
<1>2. task' = [task EXCEPT ![o] = [task[o] EXCEPT !.at = step, !.val = row]]
  BY DEF TypeOK
<1> QED BY <1>1, <1>2 DEF TypeOK

LEMMA NextType ==
  ASSUME TypeOK, NEW o \in TaskIds, NEW step \in Steps,
         task' = [task EXCEPT ![o].at = step, ![o].next = TRUE]
  PROVE  task' \in [TaskIds -> Task]
<1>1. [task[o] EXCEPT !.at = step, !.next = TRUE] \in Task
  BY TypeOf, TaskUpdates, TypeConstants
<1>2. task' = [task EXCEPT ![o] = [task[o] EXCEPT !.at = step, !.next = TRUE]]
  BY DEF TypeOK
<1> QED BY <1>1, <1>2 DEF TypeOK

LEMMA UseType ==
  ASSUME TypeOK, NEW counter \in {"scheduled", "deaths", "faults", "calls"}, Use(counter)
  PROVE  used' \in [scheduled : Nat, deaths : Nat, faults : Nat, calls : Nat]
BY DEF TypeOK, Use

\* Scheduling a job and the executor's in-memory jobs.
LEMMA ScheduleTypes ==
  ASSUME TypeOK, NEW t \in Templates, Schedule(t)
  PROVE  TypeOK'
<1>1. sandbox' \in [Jobs -> Row]
  <2>1. PICK j \in Jobs : Store(j, [AbsentRow EXCEPT !.status = "PENDING", !.recurs = t.recurs,
                                     !.maxRecur = t.maxRecur, !.curRecur = 0,
                                     !.maxRetry = t.maxRetry, !.retry = t.retry])
    BY DEF Schedule
  <2>2. [AbsentRow EXCEPT !.status = "PENDING", !.recurs = t.recurs, !.maxRecur = t.maxRecur,
                          !.curRecur = 0, !.maxRetry = t.maxRetry, !.retry = t.retry] \in Row
    <3>1. /\ t.recurs \in BOOLEAN /\ t.maxRecur \in Int
          /\ t.maxRetry \in Int /\ t.retry \in Int
      BY DEF Template, Null
    <3>2. "PENDING" \in Statuses /\ 0 \in Int
      BY DEF Statuses
    <3> QED BY <3>1, <3>2, TypeConstants DEF Row
  <2> QED BY <2>1, <2>2, StoreType
<1>2. used' \in [scheduled : Nat, deaths : Nat, faults : Nat, calls : Nat]
  BY UseType DEF Schedule
<1> QED BY <1>1, <1>2 DEF TypeOK, Schedule, history

LEMMA AsyncTypes ==
  ASSUME TypeOK, NEW i \in Instances, AsyncQueue(i) \/ AsyncTake(i) \/ AsyncEnd(i)
  PROVE  TypeOK'
<1>1. async[i].queued \in Nat /\ async[i].running \in Nat
  BY DEF TypeOK
<1>2. \A n \in Nat : /\ [async[i] EXCEPT !.queued = n] \in [queued : Nat, running : Nat]
                    /\ [async[i] EXCEPT !.running = n] \in [queued : Nat, running : Nat]
  <2>1. async[i] \in [queued : Nat, running : Nat]
    BY DEF TypeOK
  <2> QED BY <2>1
<1>3. \E counts \in [queued : Nat, running : Nat] : async' = [async EXCEPT ![i] = counts]
  <2>1. CASE async' = [async EXCEPT ![i].queued = @ + 1]
    <3>1. async[i].queued + 1 \in Nat
      BY <1>1
    <3>2. async' = [async EXCEPT ![i] = [async[i] EXCEPT !.queued = async[i].queued + 1]]
      BY <2>1
    <3> QED BY <1>2, <3>1, <3>2
  <2>2. CASE async' = [async EXCEPT ![i].running = @ + 1]
    <3>1. async[i].running + 1 \in Nat
      BY <1>1
    <3>2. async' = [async EXCEPT ![i] = [async[i] EXCEPT !.running = async[i].running + 1]]
      BY <2>2
    <3> QED BY <1>2, <3>1, <3>2
  <2>3. CASE AsyncTake(i)
    <3>1. [queued |-> async[i].queued - 1, running |-> async[i].running + 1] \in [queued : Nat, running : Nat]
      BY <1>1, <2>3 DEF AsyncTake
    <3> QED BY <3>1, <2>3 DEF AsyncTake
  <2>4. CASE AsyncEnd(i)
    <3>1. async[i].running - 1 \in Nat
      BY <1>1, <2>4 DEF AsyncEnd
    <3>2. async' = [async EXCEPT ![i] = [async[i] EXCEPT !.running = async[i].running - 1]]
      BY <2>4 DEF AsyncEnd
    <3> QED BY <1>2, <3>1, <3>2
  <2> QED BY <2>1, <2>2, <2>3, <2>4 DEF AsyncQueue
<1>4. async' \in [Instances -> [queued : Nat, running : Nat]]
  BY <1>3 DEF TypeOK
<1> QED BY <1>4 DEF TypeOK, AsyncQueue, AsyncTake, AsyncEnd, history

\* The recovery of crashed jobs.
LEMMA AfterReloadType ==
  ASSUME TypeOK, NEW i \in Instances, NEW j \in Jobs
  PROVE  AfterReloadOf(i, j) \in Reloading
<1>1. reload[i] \in Reloading /\ Reloaded \in Reloading /\ AbsentRow \in Row
  BY TypeOf, TypeConstants
<1>2. [reload[i] EXCEPT !.todo = @ \ {j}, !.half = NoJob, !.vals[j] = AbsentRow] \in Reloading
  BY <1>1 DEF Reloading
<1> QED BY <1>1, <1>2 DEF AfterReloadOf

LEMMA ReloadQueryTypes ==
  ASSUME TypeOK, NEW i \in Instances, ReloadQuery(i)
  PROVE  TypeOK'
<1> DEFINE found == {j \in Jobs : Crashed(i, j)}
           read == [NotReloaded EXCEPT !.todo = found,
                      !.vals = [j \in Jobs |-> IF j \in found THEN sandbox[j] ELSE AbsentRow]]
<1>1. read \in Reloading /\ Reloaded \in Reloading
  BY TypeOf, TypeConstants DEF Reloading
<1>2. \/ reload' = [reload EXCEPT ![i] = IF found = {} THEN Reloaded ELSE read] /\ UNCHANGED used
      \/ reload' = [reload EXCEPT ![i] = Reloaded] /\ Use("faults")
  BY DEF ReloadQuery
<1>3. used' \in [scheduled : Nat, deaths : Nat, faults : Nat, calls : Nat]
  BY <1>2, UseType DEF TypeOK
<1> HIDE DEF found, read
<1>4. reload' \in [Instances -> Reloading]
  BY <1>1, <1>2 DEF TypeOK
<1> QED BY <1>3, <1>4 DEF TypeOK, ReloadQuery, history

LEMMA ReloadTypes ==
  ASSUME TypeOK, NEW i \in Instances,
         ReloadMark(i) \/ \E j \in Jobs : ReloadCreate(i, j) \/ ReloadFault(i, j)
  PROVE  TypeOK'
<1>1. CASE ReloadMark(i)
  <2> DEFINE j == reload[i].half
  <2>1. j \in Jobs
    BY <1>1, TypeOf DEF ReloadMark
  <2>2. [reload[i].vals[j] EXCEPT !.status = "CRASHED", !.cancel = TRUE] \in Row
    BY <2>1, TypeOf, RowUpdates DEF Statuses
  <2>3. sandbox' \in [Jobs -> Row]
    BY <1>1, <2>1, <2>2, StoreType DEF ReloadMark
  <2>4. reload' \in [Instances -> Reloading]
    BY <1>1, <2>1, AfterReloadType DEF TypeOK, ReloadMark
  <2> QED BY <1>1, <2>3, <2>4 DEF TypeOK, ReloadMark, history
<1>2. ASSUME NEW j \in Jobs, ReloadCreate(i, j) PROVE TypeOK'
  <2>1. CrashCopy(j, reload[i].vals[j]) \in Row
    <3>1. 0 \in Int
      OBVIOUS
    <3> QED BY <3>1, TypeOf, RecurrenceType
  <2>2. sandbox' \in [Jobs -> Row]
    BY <1>2, <2>1, StoreType DEF ReloadCreate
  <2>3. reload' \in [Instances -> Reloading]
    <3>1. [reload[i] EXCEPT !.half = j] \in Reloading
      BY TypeOf DEF Reloading
    <3> QED BY <3>1, <1>2 DEF TypeOK, ReloadCreate
  <2> QED BY <1>2, <2>2, <2>3 DEF TypeOK, ReloadCreate
<1>3. ASSUME NEW j \in Jobs, ReloadFault(i, j) PROVE TypeOK'
  <2>1. reload' \in [Instances -> Reloading]
    BY <1>3, AfterReloadType DEF TypeOK, ReloadFault
  <2>2. used' \in [scheduled : Nat, deaths : Nat, faults : Nat, calls : Nat]
    BY <1>3, UseType DEF ReloadFault
  <2> QED BY <1>3, <2>1, <2>2 DEF TypeOK, ReloadFault, history
<1> QED BY <1>1, <1>2, <1>3

\* The poll.
LEMMA PollTypes ==
  ASSUME TypeOK, NEW i \in Instances, PollNext(i)
  PROVE  TypeOK'
<1>1. CASE PollSelect(i)
  <2>1. PICK due \in SUBSET {j \in Jobs : Pollable(j)} :
          poller' = [poller EXCEPT ![i] = IF due = {} THEN Idle
                       ELSE [at |-> "selected", due |-> due, limit |-> QueueRoom(i)]]
    BY <1>1 DEF PollSelect
  <2>2. QueueRoom(i) \in 1..QueueSize
    BY <1>1, QueueRoomBounds DEF PollSelect
  <2>3. [at |-> "selected", due |-> due, limit |-> QueueRoom(i)] \in Polling
    BY <2>2 DEF Polling
  <2>4. poller' \in [Instances -> Polling]
    BY <2>1, <2>3, TypeConstants DEF TypeOK
  <2> QED BY <1>1, <2>4 DEF TypeOK, PollSelect, history
<1>2. ASSUME NEW claimed \in SUBSET poller[i].due, PollClaim(i, claimed) PROVE TypeOK'
  <2>1. sandbox' \in [Jobs -> Row]
    <3>1. \A j \in Jobs : [sandbox[j] EXCEPT !.runBy = i] \in Row
      <4>1. "PENDING" \in Statuses /\ TRUE \in BOOLEAN
        BY DEF Statuses
      <4> QED BY <4>1, TypeOf, RowUpdates
    <3> QED BY <3>1, <1>2 DEF TypeOK, PollClaim
  <2>2. task' \in [TaskIds -> Task]
    <3>1. ASSUME NEW o \in TaskIds
          PROVE  [NoTask EXCEPT !.at = "candidate", !.maxRetry = sandbox[JobOf(o)].maxRetry,
                                !.retry = Retries(JobOf(o))] \in Task
      <4>1. Retries(JobOf(o)) \in Int /\ sandbox[JobOf(o)].maxRetry \in Int
        BY TaskIdParts, RetriesType, TypeOf DEF Row
      <4>2. "candidate" \in Steps
        BY DEF Steps, PollerSteps
      <4> QED BY <4>1, <4>2, TypeConstants DEF Task
    <3> QED BY <3>1, <1>2, TypeOf DEF PollClaim
  <2>3. poller' \in [Instances -> Polling]
    BY <1>2, TypeConstants DEF TypeOK, PollClaim
  <2> QED BY <1>2, <2>1, <2>2, <2>3 DEF TypeOK, PollClaim, history
<1> QED BY <1>1, <1>2 DEF PollNext

\* From the claim to the executor, and back.
LEMMA QueueTypes ==
  ASSUME TypeOK, NEW o \in TaskIds,
         QueueRefresh(o) \/ QueueStore(o) \/ DeQueueRefresh(o) \/ DeQueueStore(o) \/ Take(o)
  PROVE  TypeOK'
<1>1. Inst(o) \in Instances /\ JobOf(o) \in Jobs /\ sandbox[JobOf(o)] \in Row /\ task[o].val \in Row
  BY TaskIdParts, TypeOf
<1>2. {"storeQueued", "rejected", "inQueue", "init", "storeDequeued"} \subseteq Steps
  BY DEF Steps, PollerSteps, WorkerSteps
<1>3. CASE QueueRefresh(o)
  <2>1. [sandbox[JobOf(o)] EXCEPT !.status = "QUEUED"] \in Row
    BY <1>1, RowUpdates DEF Statuses
  <2>2. task' \in [TaskIds -> Task]
    <3>1. CASE Drop(o)
      BY <3>1, DropType
    <3>2. CASE task' = [task EXCEPT ![o].at = "storeQueued",
                                    ![o].val = [sandbox[JobOf(o)] EXCEPT !.status = "QUEUED"]]
      BY <1>2, <2>1, <3>2, CopyType
    <3> QED BY <1>3, <3>1, <3>2 DEF QueueRefresh
  <2> QED BY <1>3, <2>2 DEF TypeOK, QueueRefresh, history
<1>4. CASE QueueStore(o)
  <2>1. sandbox' \in [Jobs -> Row]
    BY <1>1, <1>4, StoreType DEF QueueStore
  <2>2. \E step \in Steps : Goto(o, step)
    BY <1>2, <1>4 DEF QueueStore
  <2>3. task' \in [TaskIds -> Task]
    BY <2>2, GotoType
  <2> QED BY <1>4, <2>1, <2>3 DEF TypeOK, QueueStore, history
<1>5. CASE DeQueueRefresh(o)
  <2>1. Dequeued(sandbox[JobOf(o)]) \in Row
    BY <1>1, DequeuedType
  <2>2. task' \in [TaskIds -> Task]
    BY <1>2, <1>5, <2>1, CopyType DEF DeQueueRefresh
  <2> QED BY <1>5, <2>2 DEF TypeOK, DeQueueRefresh, history
<1>6. CASE DeQueueStore(o)
  <2>1. sandbox' \in [Jobs -> Row]
    BY <1>1, <1>6, StoreType DEF DeQueueStore
  <2>2. task' \in [TaskIds -> Task]
    BY <1>6, DropType DEF DeQueueStore
  <2> QED BY <1>6, <2>1, <2>2 DEF TypeOK, DeQueueStore, history
<1>7. CASE Take(o)
  <2>1. task' \in [TaskIds -> Task]
    BY <1>2, <1>7, GotoType DEF Take
  <2> QED BY <1>7, <2>1 DEF TypeOK, Take, history
<1> QED BY <1>3, <1>4, <1>5, <1>6, <1>7

\* From the executor to the service.
LEMMA StartTypes ==
  ASSUME TypeOK, NEW o \in TaskIds, InitRefresh(o) \/ InitStore(o) \/ Recur(o)
  PROVE  TypeOK'
<1>1. JobOf(o) \in Jobs /\ sandbox[JobOf(o)] \in Row /\ task[o].val \in Row
  BY TaskIdParts, TypeOf
<1>2. {"storeRunning", "recur", "service"} \subseteq Steps
  BY DEF Steps, WorkerSteps
<1>3. CASE InitRefresh(o)
  <2>1. [sandbox[JobOf(o)] EXCEPT !.start = TRUE, !.status = "RUNNING"] \in Row
    BY <1>1 DEF Row, Statuses
  <2>2. task' \in [TaskIds -> Task]
    <3>1. CASE Drop(o)
      BY <3>1, DropType
    <3>2. CASE task' = [task EXCEPT ![o].at = "storeRunning",
                          ![o].val = [sandbox[JobOf(o)] EXCEPT !.start = TRUE, !.status = "RUNNING"]]
      BY <1>2, <2>1, <3>2, CopyType
    <3> QED BY <1>3, <3>1, <3>2 DEF InitRefresh
  <2> QED BY <1>3, <2>2 DEF TypeOK, InitRefresh, history
<1>4. CASE InitStore(o)
  <2>1. sandbox' \in [Jobs -> Row]
    BY <1>1, <1>4, StoreType DEF InitStore
  <2>2. CountRecurrence(task[o].val) \in Row
    BY <1>1, CountedType
  <2>3. task' \in [TaskIds -> Task]
    <3>1. PICK step \in Steps : task' = [task EXCEPT ![o].at = step, ![o].val = CountRecurrence(task[o].val)]
      BY <1>2, <1>4 DEF InitStore
    <3> QED BY <2>2, <3>1, CopyType
  <2>4. runs' \in [Jobs -> Nat]
    BY <1>1, <1>4 DEF TypeOK, InitStore
  <2> QED BY <1>4, <2>1, <2>3, <2>4 DEF TypeOK, InitStore
<1>5. CASE Recur(o)
  <2>1. sandbox' \in [Jobs -> Row]
    <3>1. Recurrence(JobOf(o), task[o].val, 0) \in Row
      <4>1. 0 \in Int
        OBVIOUS
      <4> QED BY <1>1, <4>1, RecurrenceType
    <3>2. ASSUME NEW k \in Jobs, Store(k, Recurrence(JobOf(o), task[o].val, 0))
          PROVE  sandbox' \in [Jobs -> Row]
      BY <3>1, <3>2, StoreType
    <3> QED BY <1>5, <3>2 DEF TypeOK, Recur
  <2>2. task' \in [TaskIds -> Task]
    BY <1>2, <1>5, GotoType, NextType DEF Recur
  <2>3. runs' \in [Jobs -> Nat]
    BY <1>1, <1>5 DEF TypeOK, Recur
  <2> QED BY <1>5, <2>1, <2>2, <2>3 DEF TypeOK, Recur
<1> QED BY <1>3, <1>4, <1>5

\* The end of a service, and of a Job object.
LEMMA EndTypes ==
  ASSUME TypeOK, NEW o \in TaskIds, Finish(o) \/ FailAndRetry(o) \/ StoreFailed(o) \/ DbFault(o)
  PROVE  TypeOK'
<1>1. JobOf(o) \in Jobs /\ task[o].val \in Row /\ task[o].retry \in Int
  BY TaskIdParts, TypeOf DEF Task
<1>2. "storeFailed" \in Steps
  BY DEF Steps, WorkerSteps
<1>3. CASE Finish(o)
  <2>1. [task[o].val EXCEPT !.status = "FINISHED", !.finish = TRUE] \in Row
    BY <1>1, RowUpdates DEF Statuses
  <2>2. sandbox' \in [Jobs -> Row]
    BY <1>1, <1>3, <2>1, StoreType DEF Finish
  <2>3. task' \in [TaskIds -> Task]
    BY <1>3, DropType DEF Finish
  <2> QED BY <1>3, <2>2, <2>3 DEF TypeOK, Finish, history
<1>4. CASE FailAndRetry(o)
  <2>1. sandbox' \in [Jobs -> Row]
    <3>1. task[o].retry + 1 \in Int
      BY <1>1
    <3>2. Recurrence(JobOf(o), task[o].val, task[o].retry + 1) \in Row
      BY <1>1, <3>1, RecurrenceType
    <3> QED BY <1>4, <3>2, StoreType DEF FailAndRetry
  <2>2. task' \in [TaskIds -> Task]
    BY <1>2, <1>4, NextType DEF FailAndRetry
  <2> QED BY <1>4, <2>1, <2>2 DEF TypeOK, FailAndRetry, history
<1>5. CASE StoreFailed(o)
  <2>1. FailedRow(o) \in Row
    BY <1>1, RowUpdates DEF FailedRow, Statuses
  <2>2. sandbox' \in [Jobs -> Row]
    BY <1>1, <1>5, <2>1, StoreType DEF StoreFailed
  <2>3. task' \in [TaskIds -> Task]
    BY <1>5, DropType DEF StoreFailed
  <2> QED BY <1>5, <2>2, <2>3 DEF TypeOK, StoreFailed, history
<1>6. CASE DbFault(o)
  <2>1. task' \in [TaskIds -> Task]
    BY <1>2, <1>6, DropType, GotoType DEF DbFault
  <2>2. used' \in [scheduled : Nat, deaths : Nat, faults : Nat, calls : Nat]
    BY <1>6, UseType DEF DbFault
  <2> QED BY <1>6, <2>1, <2>2 DEF TypeOK, DbFault, history
<1> QED BY <1>3, <1>4, <1>5, <1>6

\* Shutdown, crash and restart.
LEMMA LifeTypes ==
  ASSUME TypeOK, NEW i \in Instances, ShutDown(i) \/ Crash(i) \/ Exit(i) \/ Restart(i)
  PROVE  TypeOK'
<1>1. CASE ShutDown(i)
  <2>1. task' \in [TaskIds -> Task]
    <3>1. "drained" \in Steps
      BY DEF Steps
    <3>2. \A o \in TaskIds : [task[o] EXCEPT !.at = "drained"] \in Task
      BY <3>1, TypeOf, TaskUpdates
    <3> QED BY <1>1, <3>2, TypeOf DEF ShutDown
  <2>2. used' \in [scheduled : Nat, deaths : Nat, faults : Nat, calls : Nat]
    BY <1>1, UseType DEF ShutDown
  <2>3. async' \in [Instances -> [queued : Nat, running : Nat]]
    BY <1>1 DEF TypeOK, ShutDown
  <2> QED BY <1>1, <2>1, <2>2, <2>3 DEF TypeOK, ShutDown, history
<1>2. CASE Crash(i) \/ Exit(i)
  <2>1. Die(i)
    BY <1>2 DEF Crash, Exit
  <2>2. used' \in [scheduled : Nat, deaths : Nat, faults : Nat, calls : Nat]
    BY <1>2, UseType DEF Crash, Exit, TypeOK
  <2>3. task' \in [TaskIds -> Task]
    BY <2>1, TypeOf, TypeConstants DEF Die
  <2>4. /\ poller' \in [Instances -> Polling]
        /\ reload' \in [Instances -> Reloading]
    BY <2>1, TypeConstants DEF TypeOK, Die
  <2>5. async' \in [Instances -> [queued : Nat, running : Nat]]
    BY <2>1 DEF TypeOK, Die, NoAsync
  <2> QED BY <2>1, <2>2, <2>3, <2>4, <2>5 DEF TypeOK, Die, history
<1>3. CASE Restart(i)
  BY <1>3 DEF TypeOK, Restart, history
<1> QED BY <1>1, <1>2, <1>3

\* The administrative services.
LEMMA AdminTypes ==
  ASSUME TypeOK, AdminNext
  PROVE  TypeOK'
<1>1. ASSUME NEW kind \in AdminKinds, NEW j \in Jobs, AdminRead(kind, j) PROVE TypeOK'
  <2>1. [kind |-> kind, job |-> j, val |-> sandbox[j]] \in [kind : Kinds, job : Jobs, val : Row]
    BY TypeOf
  <2>2. used' \in [scheduled : Nat, deaths : Nat, faults : Nat, calls : Nat]
    BY <1>1, UseType DEF AdminRead
  <2> QED BY <1>1, <2>1, <2>2 DEF TypeOK, AdminRead, history
<1>2. admin.kind # "none" => admin.job \in Jobs /\ admin.val \in Row
  BY DEF TypeOK, NoCall
<1>3. CASE CancelStore
  <2>1. admin.job \in Jobs /\ admin.val \in Row
    BY <1>2, <1>3 DEF CancelStore
  <2>2. [admin.val EXCEPT !.status = "CANCELLED", !.cancel = TRUE] \in Row
    BY <2>1, RowUpdates DEF Statuses
  <2>3. sandbox' \in [Jobs -> Row]
    BY <1>3, <2>1, <2>2, StoreType DEF CancelStore
  <2>4. acked' \in [Jobs -> {"no", "open", "firm"}]
    BY <1>3, <2>1 DEF TypeOK, CancelStore
  <2> QED BY <1>3, <2>3, <2>4 DEF TypeOK, CancelStore
<1>4. CASE ResetStore
  <2>1. admin.job \in Jobs /\ admin.val \in Row
    BY <1>2, <1>4 DEF ResetStore
  <2>2. [admin.val EXCEPT !.status = "PENDING", !.start = FALSE, !.finish = FALSE,
                          !.cancel = FALSE, !.runBy = NoInstance] \in Row
    BY <2>1 DEF Row, Statuses
  <2>3. sandbox' \in [Jobs -> Row]
    BY <1>4, <2>1, <2>2, StoreType DEF ResetStore
  <2>4. acked' \in [Jobs -> {"no", "open", "firm"}]
    BY <1>4, <2>1 DEF TypeOK, ResetStore
  <2> QED BY <1>4, <2>3, <2>4 DEF TypeOK, ResetStore
<1>5. CASE CancelRetriesStore
  <2>1. admin.job \in Jobs /\ admin.val \in Row
    BY <1>2, <1>5 DEF CancelRetriesStore
  <2>2. [admin.val EXCEPT !.maxRetry = 0] \in Row
    BY <2>1 DEF Row
  <2>3. sandbox' \in [Jobs -> Row]
    BY <1>5, <2>1, <2>2, StoreType DEF TypeOK, CancelRetriesStore
  <2> QED BY <1>5, <2>3 DEF TypeOK, CancelRetriesStore, history
<1> QED BY <1>1, <1>3, <1>4, <1>5 DEF AdminNext

LEMMA InitTypes ==
  ASSUME Init
  PROVE  TypeOK
BY TypeConstants DEF Init, TypeOK, NoAsync

LEMMA NextTypes ==
  ASSUME TypeOK, [Next]_vars
  PROVE  TypeOK'
<1>1. ASSUME NEW t \in Templates, Schedule(t) PROVE TypeOK'
  BY <1>1, ScheduleTypes
<1>2. ASSUME NEW i \in Instances, ReloadNext(i) PROVE TypeOK'
  BY <1>2, ReloadQueryTypes, ReloadTypes DEF ReloadNext
<1>3. ASSUME NEW i \in Instances, PollNext(i) PROVE TypeOK'
  BY <1>3, PollTypes
<1>4. ASSUME NEW i \in Instances, InstanceNext(i) PROVE TypeOK'
  BY <1>4, LifeTypes, AsyncTypes DEF InstanceNext
<1>5. ASSUME NEW o \in TaskIds, TaskNext(o) PROVE TypeOK'
  BY <1>5, QueueTypes, StartTypes, EndTypes DEF TaskNext
<1>6. CASE AdminNext
  BY <1>6, AdminTypes
<1>7. CASE UNCHANGED vars
  BY <1>7 DEF TypeOK, vars
<1> QED BY <1>1, <1>2, <1>3, <1>4, <1>5, <1>6, <1>7 DEF Next

\* Every variable of the job scheduler keeps its type: in particular the limit
\* of a poll never exceeds the capacity of the executor's queue.
THEOREM TypeCorrect == Spec => []TypeOK
<1>1. Init => TypeOK
  BY InitTypes
<1>2. TypeOK /\ [Next]_vars => TypeOK'
  BY NextTypes
<1> QED BY <1>1, <1>2, PTL DEF Spec

-----------------------------------------------------------------------------
(* A cancel that meets no stale writer is final *)

\* A firmly cancelled row is cancelled and has never been started.
FirmRows ==
  \A j \in Jobs : acked[j] = "firm" => Exists(j) /\ sandbox[j].cancel /\ runs[j] = 0

\* No Job object of such a row is past its checks; one that is on its way
\* out of the executor's queue writes back a cancelled row.
FirmTasks ==
  \A o \in TaskIds : acked[JobOf(o)] = "firm" =>
    /\ task[o].at \notin {"storeQueued", "storeRunning", "recur", "service", "storeFailed"}
    /\ task[o].at = "storeDequeued" => task[o].val.cancel /\ task[o].val.status # "ABSENT"

\* A service that has been started is counted.
StartedIsCounted ==
  \A o \in TaskIds : task[o].at \in {"service", "storeFailed"} => runs[JobOf(o)] > 0

\* An administrative service works on a row that exists.
AdminHasRow == admin.kind # "none" => admin.val.status # "ABSENT"

CancelInv == TypeOK /\ FirmRows /\ FirmTasks /\ StartedIsCounted /\ AdminHasRow

Firm(j) == acked[j] = "firm"

\* A row that is stored is not a firmly cancelled one, or stays cancelled.
LEMMA StoreKeepsFirmRows ==
  ASSUME TypeOK, FirmRows, NEW j \in Jobs, NEW row \in Row, Store(j, row),
         Firm(j) => row.cancel /\ row.status # "ABSENT",
         UNCHANGED <<acked, runs>>
  PROVE  FirmRows'
BY DEF TypeOK, FirmRows, Firm, Store, Exists

\* What the steps of a Job object leave in task[o], and that they leave the
\* other objects where they were.
LEMMA TaskAfter ==
  ASSUME TypeOK, NEW o \in TaskIds, NEW step, NEW row
  PROVE  /\ Goto(o, step) => task'[o].at = step
         /\ Drop(o) => task'[o].at = "none"
         /\ task' = [task EXCEPT ![o].at = step, ![o].next = TRUE] => task'[o].at = step
         /\ task' = [task EXCEPT ![o].at = step, ![o].val = row] => task'[o].at = step /\ task'[o].val = row
         /\ \/ Goto(o, step) \/ Drop(o)
            \/ task' = [task EXCEPT ![o].at = step, ![o].next = TRUE]
            \/ task' = [task EXCEPT ![o].at = step, ![o].val = row]
            => \A p \in TaskIds \ {o} : task'[p] = task[p]
<1>1. task[o] \in Task /\ o \in DOMAIN task /\ DOMAIN task = TaskIds
  BY TypeOf DEF TypeOK
<1>2. /\ [task[o] EXCEPT !.at = step].at = step
      /\ [task[o] EXCEPT !.at = step, !.next = TRUE].at = step
      /\ [task[o] EXCEPT !.at = step, !.val = row].at = step
      /\ [task[o] EXCEPT !.at = step, !.val = row].val = row
      /\ NoTask.at = "none"
  BY <1>1 DEF Task, NoTask
<1> QED BY <1>1, <1>2 DEF Goto, Drop

\* The steps that leave a Job object where a firm cancel is no concern.
Harmless == {"none", "candidate", "rejected", "inQueue", "drained", "init"}

\* A step of one Job object keeps the facts about all of them.
LEMMA StepKeepsFirmTasks ==
  ASSUME FirmTasks, StartedIsCounted, NEW o \in TaskIds,
         \A p \in TaskIds \ {o} : task'[p] = task[p],
         \/ task'[o].at \in Harmless
         \/ ~Firm(JobOf(o)) /\ task'[o].at \in {"storeQueued", "storeRunning", "recur"}
         \/ ~Firm(JobOf(o)) /\ task'[o].at \in {"service", "storeFailed"} /\ runs'[JobOf(o)] > 0
         \/ /\ task'[o].at = "storeDequeued"
            /\ Firm(JobOf(o)) => task'[o].val.cancel /\ task'[o].val.status # "ABSENT",
         UNCHANGED acked,
         \A p \in TaskIds : runs[JobOf(p)] > 0 => runs'[JobOf(p)] > 0
  PROVE  FirmTasks' /\ StartedIsCounted'
<1>1. FirmTasks'
  <2> SUFFICES ASSUME NEW p \in TaskIds, acked[JobOf(p)] = "firm"
               PROVE  /\ task'[p].at \notin {"storeQueued", "storeRunning", "recur", "service", "storeFailed"}
                      /\ task'[p].at = "storeDequeued" => task'[p].val.cancel /\ task'[p].val.status # "ABSENT"
    BY DEF FirmTasks
  <2>1. CASE p = o
    BY <2>1 DEF Firm, Harmless
  <2>2. CASE p # o
    BY <2>2 DEF FirmTasks
  <2> QED BY <2>1, <2>2
<1>2. StartedIsCounted'
  <2> SUFFICES ASSUME NEW p \in TaskIds, task'[p].at \in {"service", "storeFailed"}
               PROVE  runs'[JobOf(p)] > 0
    BY DEF StartedIsCounted
  <2>1. CASE p = o
    BY <2>1 DEF Harmless
  <2>2. CASE p # o
    BY <2>2 DEF StartedIsCounted
  <2> QED BY <2>1, <2>2
<1> QED BY <1>1, <1>2

\* From the claim to the executor and back: a firmly cancelled row is refused.
LEMMA QueueKeepsCancel ==
  ASSUME CancelInv, NEW o \in TaskIds,
         QueueRefresh(o) \/ QueueStore(o) \/ DeQueueRefresh(o) \/ DeQueueStore(o) \/ Take(o)
  PROVE  FirmRows' /\ FirmTasks' /\ StartedIsCounted' /\ AdminHasRow'
<1> USE DEF CancelInv
<1>1. JobOf(o) \in Jobs /\ sandbox[JobOf(o)] \in Row /\ task[o].val \in Row
  BY TaskIdParts, TypeOf
<1>2. UNCHANGED <<acked, runs, admin>>
  BY DEF QueueRefresh, QueueStore, DeQueueRefresh, DeQueueStore, Take, history
<1>3. AdminHasRow' /\ \A p \in TaskIds : runs[JobOf(p)] > 0 => runs'[JobOf(p)] > 0
  BY <1>2 DEF AdminHasRow
<1>4. FirmRows /\ UNCHANGED sandbox => FirmRows'
  BY <1>2 DEF FirmRows, Exists
<1>5. CASE QueueRefresh(o)
  <2>1. CASE Drop(o)
    <3>1. FirmTasks' /\ StartedIsCounted'
      BY <1>2, <1>3, <2>1, TaskAfter, StepKeepsFirmTasks DEF Harmless
    <3> QED BY <1>3, <1>4, <1>5, <3>1 DEF QueueRefresh
  <2>2. CASE ~QueueRefuses(Inst(o), sandbox[JobOf(o)])
    <3>1. ~Firm(JobOf(o))
      BY <1>1, <2>2 DEF QueueRefuses, FirmRows, Firm
    <3>2. task' = [task EXCEPT ![o].at = "storeQueued",
                               ![o].val = [sandbox[JobOf(o)] EXCEPT !.status = "QUEUED"]]
      BY <1>5, <2>2 DEF QueueRefresh
    <3>3. FirmTasks' /\ StartedIsCounted'
      BY <1>2, <1>3, <3>1, <3>2, TaskAfter, StepKeepsFirmTasks
    <3> QED BY <1>3, <1>4, <1>5, <3>3 DEF QueueRefresh
  <2> QED BY <1>5, <2>1, <2>2 DEF QueueRefresh
<1>6. CASE QueueStore(o)
  <2>1. ~Firm(JobOf(o))
    BY <1>6 DEF FirmTasks, Firm, QueueStore
  <2>2. FirmRows'
    BY <1>1, <1>2, <1>6, <2>1, StoreKeepsFirmRows DEF QueueStore
  <2>3. PICK step \in Harmless : Goto(o, step)
    BY <1>6 DEF QueueStore, Harmless
  <2>4. task'[o].at \in Harmless /\ \A p \in TaskIds \ {o} : task'[p] = task[p]
    BY <2>3, TaskAfter
  <2>5. FirmTasks' /\ StartedIsCounted'
    BY <1>2, <1>3, <2>4, StepKeepsFirmTasks
  <2> QED BY <1>3, <2>2, <2>5
<1>7. CASE DeQueueRefresh(o)
  <2> DEFINE row == Dequeued(sandbox[JobOf(o)])
  <2>1. task' = [task EXCEPT ![o].at = "storeDequeued", ![o].val = row]
    BY <1>7 DEF DeQueueRefresh
  <2>2. Firm(JobOf(o)) => row.cancel /\ row.status # "ABSENT"
    <3>1. row.cancel = sandbox[JobOf(o)].cancel /\ row.status = "PENDING"
      BY <1>1, DequeuedType
    <3>2. Firm(JobOf(o)) => sandbox[JobOf(o)].cancel
      BY <1>1 DEF FirmRows, Firm
    <3> HIDE DEF row
    <3> QED BY <3>1, <3>2
  <2> HIDE DEF row
  <2>3. FirmTasks' /\ StartedIsCounted'
    <3>1. /\ task'[o].at = "storeDequeued" /\ task'[o].val = row
          /\ \A p \in TaskIds \ {o} : task'[p] = task[p]
      BY <2>1, TaskAfter
    <3>2. Firm(JobOf(o)) => task'[o].val.cancel /\ task'[o].val.status # "ABSENT"
      BY <2>2, <3>1
    <3> QED BY <1>2, <1>3, <3>1, <3>2, StepKeepsFirmTasks
  <2> QED BY <1>3, <1>4, <1>7, <2>3 DEF DeQueueRefresh
<1>8. CASE DeQueueStore(o)
  <2>1. Firm(JobOf(o)) => task[o].val.cancel /\ task[o].val.status # "ABSENT"
    BY <1>8 DEF FirmTasks, Firm, DeQueueStore
  <2>2. FirmRows'
    BY <1>1, <1>2, <1>8, <2>1, StoreKeepsFirmRows DEF DeQueueStore
  <2>3. FirmTasks' /\ StartedIsCounted'
    BY <1>2, <1>3, <1>8, TaskAfter, StepKeepsFirmTasks DEF DeQueueStore, Harmless
  <2> QED BY <1>3, <2>2, <2>3
<1>9. CASE Take(o)
  <2>1. FirmTasks' /\ StartedIsCounted'
    BY <1>2, <1>3, <1>9, TaskAfter, StepKeepsFirmTasks DEF Take, Harmless
  <2> QED BY <1>3, <1>4, <1>9, <2>1 DEF Take
<1> QED BY <1>5, <1>6, <1>7, <1>8, <1>9

\* The next row of a chain gets a free key, so it replaces no cancelled row.
LEMMA NextRowKeepsFirmRows ==
  ASSUME CancelInv, NEW j \in Jobs, NEW k \in Jobs, NEW row \in Row, NEW n \in Int, NextFree(k),
         Store(k, Recurrence(j, row, n)), UNCHANGED <<acked, runs>>
  PROVE  FirmRows'
<1>1. ~Firm(k)
  BY DEF CancelInv, FirmRows, Firm, NextFree
<1>2. Recurrence(j, row, n) \in Row
  BY RecurrenceType
<1> QED BY <1>1, <1>2, StoreKeepsFirmRows DEF CancelInv

\* From the executor to the service.
LEMMA StartKeepsCancel ==
  ASSUME CancelInv, NEW o \in TaskIds, InitRefresh(o) \/ InitStore(o) \/ Recur(o)
  PROVE  FirmRows' /\ FirmTasks' /\ StartedIsCounted' /\ AdminHasRow'
<1> USE DEF CancelInv
<1>1. JobOf(o) \in Jobs /\ sandbox[JobOf(o)] \in Row /\ task[o].val \in Row
  BY TaskIdParts, TypeOf
<1>2. UNCHANGED <<acked, admin>>
  BY DEF InitRefresh, InitStore, Recur, history
<1>3. AdminHasRow'
  BY <1>2 DEF AdminHasRow
<1>4. CASE InitRefresh(o)
  <2>1. UNCHANGED <<runs, sandbox>> /\ FirmRows'
    BY <1>2, <1>4 DEF InitRefresh, history, FirmRows, Exists
  <2>2. CASE Drop(o)
    <3>1. FirmTasks' /\ StartedIsCounted'
      BY <1>2, <2>1, <2>2, TaskAfter, StepKeepsFirmTasks DEF Harmless
    <3> QED BY <1>3, <2>1, <3>1
  <2>3. CASE ~InitRefuses(Inst(o), sandbox[JobOf(o)])
    <3>1. ~Firm(JobOf(o))
      BY <1>1, <2>3 DEF InitRefuses, FirmRows, Firm
    <3>2. task' = [task EXCEPT ![o].at = "storeRunning",
                     ![o].val = [sandbox[JobOf(o)] EXCEPT !.start = TRUE, !.status = "RUNNING"]]
      BY <1>4, <2>3 DEF InitRefresh
    <3>3. FirmTasks' /\ StartedIsCounted'
      BY <1>2, <2>1, <3>1, <3>2, TaskAfter, StepKeepsFirmTasks
    <3> QED BY <1>3, <2>1, <3>3
  <2> QED BY <1>4, <2>2, <2>3 DEF InitRefresh
<1>5. CASE InitStore(o) \/ Recur(o)
  <2>1. ~Firm(JobOf(o))
    BY <1>5 DEF FirmTasks, Firm, InitStore, Recur
  <2>2. runs' = runs \/ runs' = [runs EXCEPT ![JobOf(o)] = @ + 1]
    BY <1>5 DEF InitStore, Recur
  <2>3. /\ \A p \in TaskIds : runs[JobOf(p)] > 0 => runs'[JobOf(p)] > 0
        /\ \A j \in Jobs : j # JobOf(o) => runs'[j] = runs[j]
        /\ runs' = [runs EXCEPT ![JobOf(o)] = @ + 1] => runs'[JobOf(o)] > 0
    <3>1. runs \in [Jobs -> Nat]
      BY DEF TypeOK
    <3>2. \A j \in Jobs : runs'[j] \in Nat /\ (j # JobOf(o) => runs'[j] = runs[j]) /\ runs[j] <= runs'[j]
      BY <1>1, <2>2, <3>1
    <3>3. ASSUME runs' = [runs EXCEPT ![JobOf(o)] = @ + 1] PROVE runs'[JobOf(o)] > 0
      <4>1. runs[JobOf(o)] \in Nat
        BY <1>1, <3>1
      <4>2. runs'[JobOf(o)] = runs[JobOf(o)] + 1
        BY <1>1, <3>1, <3>3
      <4> QED BY <4>1, <4>2
    <3>4. \A j \in Jobs : runs[j] > 0 => runs'[j] > 0
      BY <3>1, <3>2
    <3> QED BY <3>2, <3>3, <3>4, TaskIdParts
  <2>4. \A j \in Jobs : Firm(j) => Exists(j)' /\ sandbox'[j].cancel
    <3>1. CASE InitStore(o)
      BY <1>1, <2>1, <3>1 DEF TypeOK, InitStore, Store, FirmRows, Firm, Exists
    <3>2. CASE Recur(o)
      <4>1. sandbox' = sandbox
            \/ \E k \in Jobs, row \in Row : NextFree(k) /\ sandbox' = [sandbox EXCEPT ![k] = row]
        <5>1. \A n \in Int : Recurrence(JobOf(o), task[o].val, n) \in Row
          BY <1>1, RecurrenceType
        <5>2. Recurrence(JobOf(o), task[o].val, 0) \in Row
          BY <5>1
        <5> QED BY <3>2, <5>2 DEF Recur, Store
      <4> QED BY <4>1 DEF TypeOK, FirmRows, Firm, Exists, NextFree
    <3> QED BY <1>5, <3>1, <3>2
  <2>5. FirmRows'
    BY <1>2, <2>1, <2>3, <2>4 DEF FirmRows, Firm
  <2>6. FirmTasks' /\ StartedIsCounted'
    <3>1. CASE InitStore(o)
      <4>1. CASE task' = [task EXCEPT ![o].at = "recur", ![o].val = CountRecurrence(task[o].val)]
        BY <1>2, <2>1, <2>3, <4>1, TaskAfter, StepKeepsFirmTasks
      <4>2. CASE /\ task' = [task EXCEPT ![o].at = "service", ![o].val = CountRecurrence(task[o].val)]
                 /\ runs' = [runs EXCEPT ![JobOf(o)] = @ + 1]
        BY <1>2, <2>1, <2>3, <4>2, TaskAfter, StepKeepsFirmTasks
      <4> QED BY <3>1, <4>1, <4>2 DEF InitStore
    <3>2. CASE Recur(o)
      <4>1. /\ task'[o].at = "service"
            /\ \A p \in TaskIds \ {o} : task'[p] = task[p]
        BY <3>2, TaskAfter DEF Recur
      <4>2. runs'[JobOf(o)] > 0
        BY <2>3, <3>2 DEF Recur
      <4> QED BY <1>2, <2>1, <2>3, <4>1, <4>2, StepKeepsFirmTasks
    <3> QED BY <1>5, <3>1, <3>2
  <2> QED BY <1>3, <2>5, <2>6
<1> QED BY <1>4, <1>5

\* The end of a service: its row is not a firmly cancelled one.
LEMMA EndKeepsCancel ==
  ASSUME CancelInv, NEW o \in TaskIds, Finish(o) \/ FailAndRetry(o) \/ StoreFailed(o) \/ DbFault(o)
  PROVE  FirmRows' /\ FirmTasks' /\ StartedIsCounted' /\ AdminHasRow'
<1> USE DEF CancelInv
<1>1. JobOf(o) \in Jobs /\ task[o].val \in Row /\ task[o].retry \in Int
  BY TaskIdParts, TypeOf DEF Task
<1>2. UNCHANGED <<acked, runs, admin>>
  BY DEF Finish, FailAndRetry, StoreFailed, DbFault, history
<1>3. AdminHasRow' /\ \A p \in TaskIds : runs[JobOf(p)] > 0 => runs'[JobOf(p)] > 0
  BY <1>2 DEF AdminHasRow
<1>4. task[o].at \in {"service", "storeFailed"} => ~Firm(JobOf(o)) /\ runs'[JobOf(o)] > 0
  BY <1>2 DEF FirmTasks, StartedIsCounted, Firm
<1>5. Drop(o) => FirmTasks' /\ StartedIsCounted'
  BY <1>2, <1>3, TaskAfter, StepKeepsFirmTasks DEF Harmless
<1>6. CASE Finish(o)
  <2>1. [task[o].val EXCEPT !.status = "FINISHED", !.finish = TRUE] \in Row
    BY <1>1, RowUpdates DEF Statuses
  <2>2. FirmRows'
    BY <1>1, <1>2, <1>4, <1>6, <2>1, StoreKeepsFirmRows DEF Finish
  <2> QED BY <1>3, <1>5, <1>6, <2>2 DEF Finish
<1>7. CASE StoreFailed(o)
  <2>1. FailedRow(o) \in Row
    BY <1>1, RowUpdates DEF FailedRow, Statuses
  <2>2. FirmRows'
    BY <1>1, <1>2, <1>4, <1>7, <2>1, StoreKeepsFirmRows DEF StoreFailed
  <2> QED BY <1>3, <1>5, <1>7, <2>2 DEF StoreFailed
<1>8. CASE FailAndRetry(o)
  <2>1. task[o].retry + 1 \in Int
    BY <1>1
  <2>2. FirmRows'
    BY <1>1, <1>2, <1>8, <2>1, NextRowKeepsFirmRows DEF FailAndRetry
  <2>3. /\ task'[o].at = "storeFailed"
        /\ \A p \in TaskIds \ {o} : task'[p] = task[p]
    BY <1>8, TaskAfter DEF FailAndRetry
  <2>4. ~Firm(JobOf(o)) /\ runs'[JobOf(o)] > 0
    BY <1>4, <1>8 DEF FailAndRetry
  <2>5. FirmTasks' /\ StartedIsCounted'
    BY <1>2, <1>3, <2>3, <2>4, StepKeepsFirmTasks
  <2> QED BY <1>3, <2>2, <2>5
<1>9. CASE DbFault(o)
  <2>1. FirmRows'
    BY <1>2, <1>9 DEF DbFault, FirmRows, Exists
  <2>2. CASE Drop(o)
    BY <1>3, <1>5, <2>1, <2>2
  <2>3. CASE task[o].at = "service" /\ Goto(o, "storeFailed")
    <3>1. /\ task'[o].at = "storeFailed"
          /\ \A p \in TaskIds \ {o} : task'[p] = task[p]
      BY <2>3, TaskAfter
    <3>2. FirmTasks' /\ StartedIsCounted'
      BY <1>2, <1>3, <1>4, <2>3, <3>1, StepKeepsFirmTasks
    <3> QED BY <1>3, <2>1, <3>2
  <2> QED BY <1>9, <2>2, <2>3 DEF DbFault
<1> QED BY <1>6, <1>7, <1>8, <1>9

\* Scheduling, the in-memory jobs and the recovery of crashed jobs create rows
\* under free keys, or mark rows as cancelled.
LEMMA RowsKeepCancel ==
  ASSUME CancelInv,
         \/ \E t \in Templates : Schedule(t)
         \/ \E i \in Instances : ReloadNext(i) \/ AsyncQueue(i) \/ AsyncTake(i) \/ AsyncEnd(i)
  PROVE  FirmRows' /\ FirmTasks' /\ StartedIsCounted' /\ AdminHasRow'
<1> USE DEF CancelInv
<1>1. UNCHANGED <<acked, runs, admin, task>>
  BY DEF Schedule, ReloadNext, ReloadQuery, ReloadMark, ReloadCreate, ReloadFault,
         AsyncQueue, AsyncTake, AsyncEnd, history
<1>2. FirmTasks' /\ StartedIsCounted' /\ AdminHasRow'
  BY <1>1 DEF FirmTasks, StartedIsCounted, AdminHasRow
<1>3. CASE UNCHANGED sandbox
  BY <1>1, <1>2, <1>3 DEF FirmRows, Exists
<1>4. ASSUME NEW k \in Jobs, NextFree(k), NEW row, Store(k, row) PROVE FirmRows'
  BY <1>1, <1>4 DEF TypeOK, FirmRows, Exists, NextFree, Store
<1>5. ASSUME NEW i \in Instances, ReloadMark(i) PROVE FirmRows'
  <2> DEFINE j == reload[i].half
             row == [reload[i].vals[j] EXCEPT !.status = "CRASHED", !.cancel = TRUE]
  <2>1. j \in Jobs
    BY <1>5, TypeOf DEF ReloadMark
  <2>2. reload[i].vals[j] \in Row
    BY <2>1, TypeOf
  <2>3. row \in Row /\ row.cancel /\ row.status # "ABSENT"
    BY <2>2 DEF Row, Statuses
  <2>4. Store(j, row)
    BY <1>5 DEF ReloadMark
  <2> HIDE DEF j, row
  <2> QED BY <1>1, <2>1, <2>3, <2>4, StoreKeepsFirmRows
<1>6. \/ UNCHANGED sandbox
      \/ \E k \in Jobs : NextFree(k) /\ \E row : Store(k, row)
      \/ \E i \in Instances : ReloadMark(i)
  <2>1. ASSUME NEW t \in Templates, Schedule(t)
        PROVE  \E k \in Jobs : NextFree(k) /\ \E row : Store(k, row)
    BY <2>1 DEF Schedule
  <2>2. ASSUME NEW i \in Instances, ReloadNext(i)
        PROVE  \/ UNCHANGED sandbox \/ ReloadMark(i)
               \/ \E k \in Jobs : NextFree(k) /\ \E row : Store(k, row)
    BY <2>2 DEF ReloadNext, ReloadQuery, ReloadCreate, ReloadFault
  <2>3. ASSUME NEW i \in Instances, AsyncQueue(i) \/ AsyncTake(i) \/ AsyncEnd(i)
        PROVE  UNCHANGED sandbox
    BY <2>3 DEF AsyncQueue, AsyncTake, AsyncEnd
  <2> QED BY <2>1, <2>2, <2>3
<1> QED BY <1>2, <1>3, <1>4, <1>5, <1>6

\* A poll changes the owner of rows only, and its Job objects are candidates.
LEMMA PollKeepsCancel ==
  ASSUME CancelInv, NEW i \in Instances, PollNext(i)
  PROVE  FirmRows' /\ FirmTasks' /\ StartedIsCounted' /\ AdminHasRow'
<1> USE DEF CancelInv
<1>1. UNCHANGED <<acked, runs, admin>> /\ AdminHasRow'
  BY DEF PollNext, PollSelect, PollClaim, history, AdminHasRow
<1>2. CASE PollSelect(i)
  BY <1>1, <1>2 DEF PollSelect, FirmRows, FirmTasks, StartedIsCounted, Exists
<1>3. ASSUME NEW claimed \in SUBSET poller[i].due, PollClaim(i, claimed)
      PROVE  FirmRows' /\ FirmTasks' /\ StartedIsCounted'
  <2>1. \A j \in Jobs : sandbox'[j].cancel = sandbox[j].cancel /\ sandbox'[j].status = sandbox[j].status
    <3>1. \A j \in Jobs : /\ [sandbox[j] EXCEPT !.runBy = i].cancel = sandbox[j].cancel
                          /\ [sandbox[j] EXCEPT !.runBy = i].status = sandbox[j].status
      BY TypeOf DEF Row
    <3> QED BY <1>3, <3>1 DEF PollClaim
  <2>2. FirmRows'
    BY <1>1, <2>1 DEF FirmRows, Exists
  <2>3. \A o \in TaskIds : task'[o] = task[o] \/ task'[o].at = "candidate"
    <3>1. \A n, m : [NoTask EXCEPT !.at = "candidate", !.maxRetry = n, !.retry = m].at = "candidate"
      BY DEF NoTask
    <3> QED BY <1>3, <3>1 DEF PollClaim
  <2>4. FirmTasks' /\ StartedIsCounted'
    BY <1>1, <2>3 DEF FirmTasks, StartedIsCounted
  <2> QED BY <2>2, <2>4
<1> QED BY <1>1, <1>2, <1>3 DEF PollNext

\* Shutdown drains the queue, the end of a process forgets its Job objects.
LEMMA LifeKeepsCancel ==
  ASSUME CancelInv, NEW i \in Instances, ShutDown(i) \/ Crash(i) \/ Exit(i) \/ Restart(i)
  PROVE  FirmRows' /\ FirmTasks' /\ StartedIsCounted' /\ AdminHasRow'
<1> USE DEF CancelInv
<1>1. UNCHANGED <<acked, runs, admin, sandbox>>
  BY DEF ShutDown, Crash, Exit, Restart, Die, history
<1>2. FirmRows' /\ AdminHasRow'
  BY <1>1 DEF FirmRows, Exists, AdminHasRow
<1>3. \A o \in TaskIds : task'[o] = task[o] \/ task'[o].at \in Harmless
  <2>1. CASE ShutDown(i)
    <3>1. \A o \in TaskIds : [task[o] EXCEPT !.at = "drained"].at = "drained"
      BY TypeOf DEF Task
    <3> QED BY <2>1, <3>1 DEF ShutDown, Harmless
  <2>2. CASE Crash(i) \/ Exit(i)
    BY <2>2 DEF Crash, Exit, Die, NoTask, Harmless
  <2>3. CASE Restart(i)
    BY <2>3 DEF Restart
  <2> QED BY <2>1, <2>2, <2>3
<1>4. FirmTasks' /\ StartedIsCounted'
  BY <1>1, <1>3 DEF FirmTasks, StartedIsCounted, Harmless
<1> QED BY <1>2, <1>4

\* A cancel is firm when no Job object is past its checks; a reset ends the
\* promise; cancelJobRetries writes back cancelled rows only.
LEMMA AdminKeepsCancel ==
  ASSUME CancelInv, AdminNext
  PROVE  FirmRows' /\ FirmTasks' /\ StartedIsCounted' /\ AdminHasRow'
<1> USE DEF CancelInv
<1>1. UNCHANGED <<runs, task>> /\ StartedIsCounted'
  BY DEF AdminNext, AdminRead, CancelStore, ResetStore, CancelRetriesStore, history, StartedIsCounted
<1>2. ASSUME NEW kind \in AdminKinds, NEW j \in Jobs, AdminRead(kind, j)
      PROVE  FirmRows' /\ FirmTasks' /\ AdminHasRow'
  <2>1. FirmRows' /\ FirmTasks'
    BY <1>1, <1>2 DEF AdminRead, history, FirmRows, FirmTasks, Exists
  <2>2. AdminHasRow'
    BY <1>2 DEF AdminRead, AdminHasRow, Exists
  <2> QED BY <2>1, <2>2
<1>3. admin.kind # "none" => admin.job \in Jobs /\ admin.val \in Row
  BY DEF TypeOK, NoCall
<1>4. CASE CancelStore
  <2> DEFINE j == admin.job
             row == [admin.val EXCEPT !.status = "CANCELLED", !.cancel = TRUE]
  <2>1. j \in Jobs /\ admin.val \in Row
    BY <1>3, <1>4 DEF CancelStore
  <2>2. row.cancel /\ row.status # "ABSENT"
    BY <2>1 DEF Row
  <2>3. /\ Store(j, row)
        /\ acked' = IF runs[j] > 0 THEN acked
                    ELSE [acked EXCEPT ![j] = IF StaleWriter(j) THEN "open" ELSE "firm"]
    BY <1>4 DEF CancelStore
  <2>4. AdminHasRow'
    BY <1>4 DEF CancelStore, AdminHasRow, NoCall
  <2> HIDE DEF j, row
  <2>5. \A k \in Jobs : acked'[k] = "firm" => (k = j /\ runs[j] = 0) \/ acked[k] = "firm"
    <3>1. runs[j] \in Nat
      BY <2>1 DEF TypeOK
    <3>2. CASE runs[j] > 0
      BY <2>3, <3>2
    <3>3. CASE ~(runs[j] > 0)
      <4>1. runs[j] = 0
        BY <3>1, <3>3
      <4> QED BY <2>1, <2>3, <3>3, <4>1 DEF TypeOK
    <3> QED BY <3>2, <3>3
  <2>6. FirmRows'
    BY <1>1, <2>1, <2>2, <2>3, <2>5 DEF TypeOK, FirmRows, Store, Exists
  <2>7. FirmTasks'
    <3> SUFFICES ASSUME NEW o \in TaskIds, acked'[JobOf(o)] = "firm", acked[JobOf(o)] # "firm"
                 PROVE  task[o].at \notin StaleSteps \cup {"service", "storeFailed"}
      BY <1>1 DEF FirmTasks, StaleSteps
    <3>1. JobOf(o) = j /\ runs[j] = 0 /\ j \in Jobs
      BY <2>5, TaskIdParts
    <3>2. task[o].at \notin {"service", "storeFailed"}
      BY <3>1 DEF StartedIsCounted
    <3>3. acked' = [acked EXCEPT ![j] = IF StaleWriter(j) THEN "open" ELSE "firm"]
      BY <2>3, <3>1
    <3>4. ~StaleWriter(j)
      BY <3>1, <3>3 DEF TypeOK
    <3> QED BY <3>1, <3>2, <3>4 DEF StaleWriter
  <2> QED BY <1>1, <2>4, <2>6, <2>7
<1>5. CASE ResetStore
  <2>1. admin.job \in Jobs /\ acked' = [acked EXCEPT ![admin.job] = "no"]
    BY <1>3, <1>5 DEF ResetStore
  <2>2. \A k \in Jobs : acked'[k] = "firm" => k # admin.job /\ acked[k] = "firm"
    BY <2>1 DEF TypeOK
  <2>3. FirmRows'
    BY <1>1, <1>5, <2>2 DEF TypeOK, ResetStore, FirmRows, Store, Exists
  <2>4. FirmTasks'
    BY <1>1, <2>2, TaskIdParts DEF FirmTasks
  <2>5. AdminHasRow'
    BY <1>5 DEF ResetStore, AdminHasRow, NoCall
  <2> QED BY <1>1, <2>3, <2>4, <2>5
<1>6. CASE CancelRetriesStore
  <2>1. UNCHANGED acked /\ FirmTasks' /\ AdminHasRow'
    BY <1>1, <1>6 DEF CancelRetriesStore, history, FirmTasks, AdminHasRow, NoCall
  <2>2. CASE UNCHANGED sandbox
    BY <1>1, <2>1, <2>2 DEF FirmRows, Exists
  <2>3. CASE admin.val.cancel /\ Store(admin.job, [admin.val EXCEPT !.maxRetry = 0])
    <3>1. admin.job \in Jobs /\ admin.val \in Row /\ admin.val.status # "ABSENT"
      BY <1>3, <1>6 DEF CancelRetriesStore, AdminHasRow
    <3>2. /\ [admin.val EXCEPT !.maxRetry = 0] \in Row
          /\ [admin.val EXCEPT !.maxRetry = 0].cancel = admin.val.cancel
          /\ [admin.val EXCEPT !.maxRetry = 0].status = admin.val.status
      BY <3>1 DEF Row
    <3>3. [admin.val EXCEPT !.maxRetry = 0].cancel
      BY <2>3, <3>2
    <3>4. FirmRows'
      BY <1>1, <2>1, <2>3, <3>1, <3>2, <3>3, StoreKeepsFirmRows
    <3> QED BY <1>1, <2>1, <3>4
  <2> QED BY <1>1, <1>6, <2>1, <2>2, <2>3 DEF CancelRetriesStore
<1> QED BY <1>1, <1>2, <1>4, <1>5, <1>6 DEF AdminNext

LEMMA InitCancelInv ==
  ASSUME Init
  PROVE  CancelInv
<1>1. FirmRows
  BY DEF Init, FirmRows
<1>2. FirmTasks /\ StartedIsCounted
  BY TaskIdParts DEF Init, FirmTasks, StartedIsCounted, NoTask
<1>3. AdminHasRow
  BY DEF Init, AdminHasRow, NoCall
<1> QED BY <1>1, <1>2, <1>3, InitTypes DEF CancelInv

LEMMA NextCancelInv ==
  ASSUME CancelInv, [Next]_vars
  PROVE  CancelInv'
<1>1. TypeOK'
  BY NextTypes DEF CancelInv
<1>2. FirmRows' /\ FirmTasks' /\ StartedIsCounted' /\ AdminHasRow'
  <2>1. CASE \E t \in Templates : Schedule(t)
    BY <2>1, RowsKeepCancel
  <2>2. ASSUME NEW i \in Instances, ReloadNext(i) \/ PollNext(i) \/ InstanceNext(i)
        PROVE  FirmRows' /\ FirmTasks' /\ StartedIsCounted' /\ AdminHasRow'
    BY <2>2, RowsKeepCancel, PollKeepsCancel, LifeKeepsCancel DEF InstanceNext
  <2>3. ASSUME NEW o \in TaskIds, TaskNext(o)
        PROVE  FirmRows' /\ FirmTasks' /\ StartedIsCounted' /\ AdminHasRow'
    BY <2>3, QueueKeepsCancel, StartKeepsCancel, EndKeepsCancel DEF TaskNext
  <2>4. CASE AdminNext
    BY <2>4, AdminKeepsCancel
  <2>5. CASE UNCHANGED vars
    BY <2>5 DEF CancelInv, vars, FirmRows, FirmTasks, StartedIsCounted, AdminHasRow, Exists
  <2> QED BY <2>1, <2>2, <2>3, <2>4, <2>5 DEF Next
<1> QED BY <1>1, <1>2 DEF CancelInv

\* A cancelJob that commits while no Job object of the row is past the checks
\* of queue() or init() is final: whatever pollers, workers, crashes,
\* recoveries and other administrators do, the row stays cancelled and its
\* service never starts (PersistedServiceJob.queue and init refuse it).
THEOREM FirmCancel == Spec => []FirmCancelHolds
<1>1. Init => CancelInv
  BY InitCancelInv
<1>2. CancelInv /\ [Next]_vars => CancelInv'
  BY NextCancelInv
<1>3. CancelInv => FirmCancelHolds
  BY DEF CancelInv, FirmRows, FirmCancelHolds
<1> QED BY <1>1, <1>2, <1>3, PTL DEF Spec

-----------------------------------------------------------------------------
(* Where the rows come from *)

\* What the steps of a Job object leave in it.
LEMMA CopyAfter ==
  ASSUME TypeOK, NEW o \in TaskIds, NEW step
  PROVE  /\ Goto(o, step) => task'[o] = [task[o] EXCEPT !.at = step] /\ task'[o].at = step
                             /\ task'[o].val = task[o].val /\ task'[o].next = task[o].next
         /\ Drop(o) => task'[o] = NoTask /\ task'[o].at = "none" /\ task'[o].val = AbsentRow
         /\ task' = [task EXCEPT ![o].at = step, ![o].next = TRUE]
            => task'[o].at = step /\ task'[o].val = task[o].val /\ task'[o].next
         /\ Goto(o, step) \/ task' = [task EXCEPT ![o].at = step, ![o].next = TRUE]
            => task'[o].maxRetry = task[o].maxRetry /\ task'[o].retry = task[o].retry
<1>1. task[o] \in Task /\ o \in DOMAIN task
  BY TypeOf DEF TypeOK
<1>2. /\ [task[o] EXCEPT !.at = step].at = step
      /\ [task[o] EXCEPT !.at = step].val = task[o].val
      /\ [task[o] EXCEPT !.at = step].next = task[o].next
      /\ [task[o] EXCEPT !.at = step].maxRetry = task[o].maxRetry
      /\ [task[o] EXCEPT !.at = step].retry = task[o].retry
  BY <1>1 DEF Task
<1>3. /\ [task[o] EXCEPT !.at = step, !.next = TRUE].at = step
      /\ [task[o] EXCEPT !.at = step, !.next = TRUE].val = task[o].val
      /\ [task[o] EXCEPT !.at = step, !.next = TRUE].next
      /\ [task[o] EXCEPT !.at = step, !.next = TRUE].maxRetry = task[o].maxRetry
      /\ [task[o] EXCEPT !.at = step, !.next = TRUE].retry = task[o].retry
  BY <1>1 DEF Task
<1>4. NoTask.at = "none" /\ NoTask.val = AbsentRow
  BY DEF NoTask
<1> QED BY <1>1, <1>2, <1>3, <1>4 DEF Goto, Drop

\* A step with a new copy of the row, and what it leaves of the Job object.
LEMMA NewCopyAfter ==
  ASSUME TypeOK, NEW o \in TaskIds, NEW step, NEW row,
         task' = [task EXCEPT ![o].at = step, ![o].val = row]
  PROVE  task'[o].at = step /\ task'[o].val = row
<1>1. task[o] \in Task /\ o \in DOMAIN task
  BY TypeOf DEF TypeOK
<1>2. /\ [task[o] EXCEPT !.at = step, !.val = row].at = step
      /\ [task[o] EXCEPT !.at = step, !.val = row].val = row
  BY <1>1 DEF Task
<1> QED BY <1>1, <1>2

LEMMA NewCopyKeeps ==
  ASSUME TypeOK, NEW o \in TaskIds, NEW step, NEW row,
         task' = [task EXCEPT ![o].at = step, ![o].val = row]
  PROVE  /\ task'[o].maxRetry = task[o].maxRetry /\ task'[o].retry = task[o].retry
         /\ task'[o].next = task[o].next
<1>1. task[o] \in Task /\ o \in DOMAIN task
  BY TypeOf DEF TypeOK
<1>2. /\ [task[o] EXCEPT !.at = step, !.val = row].next = task[o].next
      /\ [task[o] EXCEPT !.at = step, !.val = row].maxRetry = task[o].maxRetry
      /\ [task[o] EXCEPT !.at = step, !.val = row].retry = task[o].retry
  BY <1>1 DEF Task
<1> QED BY <1>1, <1>2

\* A step of one Job object leaves the others alone.
LEMMA OtherTasksAfter ==
  ASSUME NEW o \in TaskIds, TaskNext(o), NEW p \in TaskIds \ {o}, TypeOK
  PROVE  task'[p] = task[p]
<1>1. \A step, row : \/ Goto(o, step) \/ Drop(o)
                     \/ task' = [task EXCEPT ![o].at = step, ![o].next = TRUE]
                     \/ task' = [task EXCEPT ![o].at = step, ![o].val = row]
                     => task'[p] = task[p]
  BY TaskAfter
<1>2. CASE QueueRefresh(o) \/ QueueStore(o) \/ DeQueueRefresh(o) \/ DeQueueStore(o) \/ Take(o)
  BY <1>1, <1>2 DEF QueueRefresh, QueueStore, DeQueueRefresh, DeQueueStore, Take
<1>3. CASE InitRefresh(o) \/ InitStore(o) \/ Recur(o)
  BY <1>1, <1>3 DEF InitRefresh, InitStore, Recur
<1>4. CASE Finish(o) \/ FailAndRetry(o) \/ StoreFailed(o) \/ DbFault(o)
  BY <1>1, <1>4 DEF Finish, FailAndRetry, StoreFailed, DbFault
<1> QED BY <1>2, <1>3, <1>4 DEF TaskNext

\* The copies of row j: in the table, in Job objects, in a reload and in an
\* administrative call.
VersionsOf(j) ==
  {sandbox[j]} \cup {task[o].val : o \in {p \in TaskIds : JobOf(p) = j}}
  \cup {reload[i].vals[j] : i \in Instances} \cup {row \in {admin.val} : admin.job = j}

\* What the code makes of a copy of the row.
Rewritten(old, new) ==
  \/ \E i \in Instances : new = [old EXCEPT !.runBy = i]
  \/ old.runBy # NoInstance /\ new = [old EXCEPT !.status = "QUEUED"]
  \/ new = Dequeued(old)
  \/ old.runBy # NoInstance /\ new = [old EXCEPT !.start = TRUE, !.status = "RUNNING"]
  \/ new = CountRecurrence(old)
  \/ \E s \in {"FINISHED", "FAILED"} : new = [old EXCEPT !.status = s, !.finish = TRUE]
  \/ \E s \in {"CANCELLED", "CRASHED"} : new = [old EXCEPT !.status = s, !.cancel = TRUE]
  \/ new = [old EXCEPT !.status = "PENDING", !.start = FALSE, !.finish = FALSE,
                       !.cancel = FALSE, !.runBy = NoInstance]
  \/ old.cancel /\ new = [old EXCEPT !.maxRetry = 0]

\* The row that schedule makes.
Scheduled(t) == [AbsentRow EXCEPT !.status = "PENDING", !.recurs = t.recurs, !.maxRecur = t.maxRecur,
                                  !.curRecur = 0, !.maxRetry = t.maxRetry, !.retry = t.retry]

\* A row for a key that was free: it is scheduled, or follows another row.
Inserted(j, new) ==
  /\ NextFree(j)
  /\ \/ \E t \in Templates : new = Scheduled(t)
     \/ \E k \in Jobs : \E old \in VersionsOf(k), n \in Int : new = Recurrence(k, old, n)

Descends(j, new) ==
  \/ new \in VersionsOf(j) \cup {AbsentRow}
  \/ \E old \in VersionsOf(j) : Rewritten(old, new)
  \/ Inserted(j, new)

\* The four places a copy can be in.
LEMMA Versions ==
  ASSUME NEW j \in Jobs
  PROVE  /\ sandbox[j] \in VersionsOf(j)
         /\ \A o \in TaskIds : JobOf(o) = j => task[o].val \in VersionsOf(j)
         /\ \A i \in Instances : reload[i].vals[j] \in VersionsOf(j)
         /\ admin.job = j => admin.val \in VersionsOf(j)
BY DEF VersionsOf

\* An administrative call has a job and a copy of its row.
LEMMA AdminCallType ==
  ASSUME TypeOK
  PROVE  /\ admin.kind # "none" => admin.job \in Jobs /\ admin.val \in Row
         /\ \A j \in Jobs : admin.job = j => admin.kind \in Kinds /\ admin.val \in Row
<1>1. CASE admin = NoCall
  BY <1>1 DEF NoCall
<1>2. CASE admin \in [kind : Kinds, job : Jobs, val : Row]
  BY <1>2
<1> QED BY <1>1, <1>2 DEF TypeOK

\* A copy is a row.
LEMMA VersionsType ==
  ASSUME TypeOK, NEW j \in Jobs, NEW row \in VersionsOf(j)
  PROVE  row \in Row
<1>1. admin.job = j => admin.val \in Row
  BY AdminCallType
<1>2. sandbox[j] \in Row /\ \A o \in TaskIds : task[o].val \in Row
  BY TypeOf
<1>3. \A i \in Instances : reload[i].vals[j] \in Row
  BY TypeOf
<1> QED BY <1>1, <1>2, <1>3 DEF VersionsOf

\* The table: every row that a step stores descends from a copy of the row.
LEMMA TaskStoresDescend ==
  ASSUME TypeOK, NEW o \in TaskIds, TaskNext(o), NEW j \in Jobs
  PROVE  Descends(j, sandbox'[j])
<1>1. JobOf(o) \in Jobs /\ task[o].val \in VersionsOf(JobOf(o))
  BY TaskIdParts, Versions
<1>2. UNCHANGED sandbox => Descends(j, sandbox'[j])
  BY Versions DEF Descends
<1>3. ASSUME NEW row, Store(JobOf(o), row), row = task[o].val \/ Rewritten(task[o].val, row)
      PROVE  Descends(j, sandbox'[j])
  <2>1. CASE j = JobOf(o)
    BY <1>1, <1>3, <2>1 DEF TypeOK, Store, Descends
  <2>2. CASE j # JobOf(o)
    <3>1. sandbox'[j] = sandbox[j]
      BY <1>3, <2>2 DEF TypeOK, Store
    <3> QED BY <3>1, Versions DEF Descends
  <2> QED BY <2>1, <2>2
<1>4. ASSUME NEW k \in Jobs, NEW n \in Int, NextFree(k), Store(k, Recurrence(JobOf(o), task[o].val, n))
      PROVE  Descends(j, sandbox'[j])
  <2>1. CASE j = k
    <3>1. sandbox'[j] = Recurrence(JobOf(o), task[o].val, n)
      BY <1>4, <2>1 DEF TypeOK, Store
    <3>2. Inserted(j, sandbox'[j])
      BY <1>1, <1>4, <2>1, <3>1 DEF Inserted
    <3> QED BY <3>2 DEF Descends
  <2>2. CASE j # k
    <3>1. sandbox'[j] = sandbox[j]
      BY <1>4, <2>2 DEF TypeOK, Store
    <3> QED BY <3>1, Versions DEF Descends
  <2> QED BY <2>1, <2>2
<1>5. CASE QueueRefresh(o) \/ DeQueueRefresh(o) \/ Take(o) \/ InitRefresh(o) \/ DbFault(o)
  BY <1>2, <1>5 DEF QueueRefresh, DeQueueRefresh, Take, InitRefresh, DbFault
<1>6. CASE QueueStore(o) \/ DeQueueStore(o) \/ InitStore(o)
  BY <1>3, <1>6 DEF QueueStore, DeQueueStore, InitStore
<1>7. CASE Recur(o)
  <2>1. 0 \in Int
    OBVIOUS
  <2> QED BY <1>2, <1>4, <1>7, <2>1 DEF Recur
<1>8. CASE Finish(o)
  <2>1. Rewritten(task[o].val, [task[o].val EXCEPT !.status = "FINISHED", !.finish = TRUE])
    BY DEF Rewritten
  <2> QED BY <1>3, <1>8, <2>1 DEF Finish
<1>9. CASE StoreFailed(o)
  <2>1. Rewritten(task[o].val, FailedRow(o))
    BY DEF Rewritten, FailedRow
  <2> QED BY <1>3, <1>9, <2>1 DEF StoreFailed
<1>10. CASE FailAndRetry(o)
  <2>1. task[o].retry + 1 \in Int
    BY TypeOf DEF Task
  <2> QED BY <1>4, <1>10, <2>1 DEF FailAndRetry
<1> QED BY <1>5, <1>6, <1>7, <1>8, <1>9, <1>10 DEF TaskNext

LEMMA OtherStoresDescend ==
  ASSUME TypeOK, NEW j \in Jobs,
         \/ \E t \in Templates : Schedule(t)
         \/ \E i \in Instances : ReloadNext(i) \/ PollNext(i) \/ InstanceNext(i)
         \/ AdminNext
  PROVE  Descends(j, sandbox'[j])
<1>1. UNCHANGED sandbox => Descends(j, sandbox'[j])
  BY Versions DEF Descends
<1>2. ASSUME NEW k \in Jobs, NEW row, Store(k, row),
             Inserted(k, row) \/ \E old \in VersionsOf(k) : Rewritten(old, row)
      PROVE  Descends(j, sandbox'[j])
  <2>1. CASE j = k
    BY <1>2, <2>1 DEF TypeOK, Store, Descends
  <2>2. CASE j # k
    <3>1. sandbox'[j] = sandbox[j]
      BY <1>2, <2>2 DEF TypeOK, Store
    <3> QED BY <3>1, Versions DEF Descends
  <2> QED BY <2>1, <2>2
<1>3. ASSUME NEW t \in Templates, Schedule(t) PROVE Descends(j, sandbox'[j])
  <2>1. PICK k \in Jobs : NextFree(k) /\ Store(k, Scheduled(t))
    BY <1>3 DEF Schedule, Scheduled
  <2> QED BY <1>2, <2>1 DEF Inserted
<1>4. ASSUME NEW i \in Instances, ReloadNext(i) PROVE Descends(j, sandbox'[j])
  <2>1. CASE ReloadQuery(i) \/ \E k \in Jobs : ReloadFault(i, k)
    BY <1>1, <2>1 DEF ReloadQuery, ReloadFault
  <2>2. CASE ReloadMark(i)
    <3> DEFINE k == reload[i].half
               row == [reload[i].vals[k] EXCEPT !.status = "CRASHED", !.cancel = TRUE]
    <3>1. k \in Jobs /\ Store(k, row)
      BY <2>2, TypeOf DEF ReloadMark
    <3>2. reload[i].vals[k] \in VersionsOf(k) /\ Rewritten(reload[i].vals[k], row)
      BY <3>1, Versions DEF Rewritten
    <3> HIDE DEF k, row
    <3> QED BY <1>2, <3>1, <3>2
  <2>3. ASSUME NEW l \in Jobs, ReloadCreate(i, l) PROVE Descends(j, sandbox'[j])
    <3>1. reload[i].vals[l] \in VersionsOf(l) /\ reload[i].vals[l].retry \in Int
      BY Versions, TypeOf DEF Row
    <3>2. PICK k \in Jobs : NextFree(k) /\ Store(k, CrashCopy(l, reload[i].vals[l]))
      BY <2>3 DEF ReloadCreate
    <3>3. Inserted(k, CrashCopy(l, reload[i].vals[l]))
      BY <3>1, <3>2 DEF Inserted, CrashCopy
    <3> QED BY <1>2, <3>2, <3>3
  <2> QED BY <1>4, <2>1, <2>2, <2>3 DEF ReloadNext
<1>5. ASSUME NEW i \in Instances, PollNext(i) PROVE Descends(j, sandbox'[j])
  <2>1. CASE PollSelect(i)
    BY <1>1, <2>1 DEF PollSelect
  <2>2. ASSUME NEW claimed \in SUBSET poller[i].due, PollClaim(i, claimed) PROVE Descends(j, sandbox'[j])
    <3>1. sandbox'[j] = sandbox[j] \/ sandbox'[j] = [sandbox[j] EXCEPT !.runBy = i]
      BY <2>2 DEF PollClaim
    <3> QED BY <3>1, Versions DEF Descends, Rewritten
  <2> QED BY <1>5, <2>1, <2>2 DEF PollNext
<1>6. ASSUME NEW i \in Instances, InstanceNext(i) PROVE Descends(j, sandbox'[j])
  BY <1>1, <1>6 DEF InstanceNext, ShutDown, Crash, Exit, Die, Restart, AsyncQueue, AsyncTake, AsyncEnd
<1>7. CASE AdminNext
  <2>1. admin.kind # "none" => admin.job \in Jobs /\ admin.val \in VersionsOf(admin.job)
    BY AdminCallType, Versions
  <2>2. CASE \E kind \in AdminKinds, k \in Jobs : AdminRead(kind, k)
    BY <1>1, <2>2 DEF AdminRead
  <2>3. CASE CancelStore
    <3>1. Rewritten(admin.val, [admin.val EXCEPT !.status = "CANCELLED", !.cancel = TRUE])
      BY DEF Rewritten
    <3> QED BY <1>2, <2>1, <2>3, <3>1 DEF CancelStore
  <2>4. CASE ResetStore
    <3>1. Rewritten(admin.val, [admin.val EXCEPT !.status = "PENDING", !.start = FALSE, !.finish = FALSE,
                                                 !.cancel = FALSE, !.runBy = NoInstance])
      BY DEF Rewritten
    <3> QED BY <1>2, <2>1, <2>4, <3>1 DEF ResetStore
  <2>5. CASE CancelRetriesStore
    <3>1. admin.val.cancel => Rewritten(admin.val, [admin.val EXCEPT !.maxRetry = 0])
      BY DEF Rewritten
    <3> QED BY <1>1, <1>2, <2>1, <2>5, <3>1 DEF CancelRetriesStore
  <2> QED BY <1>7, <2>2, <2>3, <2>4, <2>5 DEF AdminNext
<1> QED BY <1>3, <1>4, <1>5, <1>6, <1>7

\* The copies in memory: a Job object, a reload and an administrative call get
\* theirs from the table, or change the one they have.
LEMMA TaskCopiesDescend ==
  ASSUME TypeOK, [Next]_vars, NEW o \in TaskIds
  PROVE  Descends(JobOf(o), task'[o].val)
<1> DEFINE j == JobOf(o)
<1>1. j \in Jobs /\ task[o].val \in VersionsOf(j) /\ sandbox[j] \in VersionsOf(j)
  BY TaskIdParts, Versions
<1>2. task'[o].val \in {task[o].val, AbsentRow} => Descends(j, task'[o].val)
  BY <1>1 DEF Descends
<1>3. ASSUME NEW old \in VersionsOf(j), Rewritten(old, task'[o].val) PROVE Descends(j, task'[o].val)
  BY <1>3 DEF Descends
<1>4. UNCHANGED task => task'[o].val = task[o].val
  OBVIOUS
<1>5. ASSUME NEW p \in TaskIds, TaskNext(p) PROVE Descends(j, task'[o].val)
  <2>1. CASE p # o
    <3>1. task'[o] = task[o]
      BY <1>5, <2>1, OtherTasksAfter
    <3> QED BY <1>2, <3>1
  <2>2. CASE p = o
    <3>1. ASSUME NEW step, Goto(o, step) \/ Drop(o) \/ task' = [task EXCEPT ![o].at = step, ![o].next = TRUE]
          PROVE  task'[o].val \in {task[o].val, AbsentRow}
      BY <3>1, CopyAfter
    <3>2. CASE QueueRefresh(o)
      <4>1. CASE QueueRefuses(Inst(o), sandbox[j])
        BY <1>2, <3>1, <3>2, <4>1 DEF QueueRefresh
      <4>2. CASE ~QueueRefuses(Inst(o), sandbox[j])
        <5>1. sandbox[j].runBy # NoInstance
          BY <4>2, TaskIdParts DEF QueueRefuses
        <5>2. task' = [task EXCEPT ![o].at = "storeQueued", ![o].val = [sandbox[j] EXCEPT !.status = "QUEUED"]]
          BY <3>2, <4>2 DEF QueueRefresh
        <5>3. task'[o].val = [sandbox[j] EXCEPT !.status = "QUEUED"]
          BY <5>2, NewCopyAfter
        <5> QED BY <1>1, <1>3, <5>1, <5>3 DEF Rewritten
      <4> QED BY <4>1, <4>2
    <3>3. CASE QueueStore(o) \/ DeQueueStore(o) \/ Take(o) \/ Recur(o) \/ Finish(o) \/ FailAndRetry(o)
               \/ StoreFailed(o) \/ DbFault(o)
      BY <1>2, <3>1, <3>3 DEF QueueStore, DeQueueStore, Take, Recur, Finish, FailAndRetry, StoreFailed, DbFault
    <3>4. CASE DeQueueRefresh(o)
      <4>1. task' = [task EXCEPT ![o].at = "storeDequeued", ![o].val = Dequeued(sandbox[j])]
        BY <3>4 DEF DeQueueRefresh
      <4>2. task'[o].val = Dequeued(sandbox[j])
        BY <4>1, NewCopyAfter
      <4> QED BY <1>1, <1>3, <4>2 DEF Rewritten
    <3>5. CASE InitRefresh(o)
      <4>1. CASE InitRefuses(Inst(o), sandbox[j])
        BY <1>2, <3>1, <3>5, <4>1 DEF InitRefresh
      <4>2. CASE ~InitRefuses(Inst(o), sandbox[j])
        <5>1. sandbox[j].runBy # NoInstance
          BY <4>2, TaskIdParts DEF InitRefuses
        <5>2. task' = [task EXCEPT ![o].at = "storeRunning",
                                   ![o].val = [sandbox[j] EXCEPT !.start = TRUE, !.status = "RUNNING"]]
          BY <3>5, <4>2 DEF InitRefresh
        <5>3. task'[o].val = [sandbox[j] EXCEPT !.start = TRUE, !.status = "RUNNING"]
          BY <5>2, NewCopyAfter
        <5> QED BY <1>1, <1>3, <5>1, <5>3 DEF Rewritten
      <4> QED BY <4>1, <4>2
    <3>6. CASE InitStore(o)
      <4>1. PICK step : task' = [task EXCEPT ![o].at = step, ![o].val = CountRecurrence(task[o].val)]
        BY <3>6 DEF InitStore
      <4>2. task'[o].val = CountRecurrence(task[o].val)
        BY <4>1, NewCopyAfter
      <4> QED BY <1>1, <1>3, <4>2 DEF Rewritten
    <3> QED BY <1>5, <2>2, <3>2, <3>3, <3>4, <3>5, <3>6 DEF TaskNext
  <2> QED BY <2>1, <2>2
<1>6. ASSUME NEW i \in Instances, PollNext(i) PROVE Descends(j, task'[o].val)
  <2>1. CASE PollSelect(i)
    BY <1>2, <1>4, <2>1 DEF PollSelect
  <2>2. ASSUME NEW claimed \in SUBSET poller[i].due, PollClaim(i, claimed) PROVE Descends(j, task'[o].val)
    <3>1. \A n, m : [NoTask EXCEPT !.at = "candidate", !.maxRetry = n, !.retry = m].val = AbsentRow
      BY DEF NoTask
    <3>2. task'[o].val \in {task[o].val, AbsentRow}
      BY <2>2, <3>1 DEF PollClaim
    <3> QED BY <1>2, <3>2
  <2> QED BY <1>6, <2>1, <2>2 DEF PollNext
<1>7. ASSUME NEW i \in Instances, InstanceNext(i) PROVE Descends(j, task'[o].val)
  <2>1. CASE ShutDown(i)
    <3>1. [task[o] EXCEPT !.at = "drained"].val = task[o].val
      BY TypeOf DEF Task
    <3> QED BY <1>2, <2>1, <3>1 DEF ShutDown
  <2>2. CASE Crash(i) \/ Exit(i)
    BY <1>2, <2>2 DEF Crash, Exit, Die, NoTask
  <2>3. CASE UNCHANGED task
    BY <1>2, <1>4, <2>3
  <2> QED BY <1>7, <2>1, <2>2, <2>3 DEF InstanceNext, Restart, AsyncQueue, AsyncTake, AsyncEnd
<1>8. CASE UNCHANGED task
  BY <1>2, <1>4, <1>8
<1>9. \A i \in Instances : ReloadNext(i) => UNCHANGED task
  BY DEF ReloadNext, ReloadQuery, ReloadMark, ReloadCreate, ReloadFault
<1>10. (\E t \in Templates : Schedule(t)) \/ AdminNext \/ UNCHANGED vars => UNCHANGED task
  BY DEF Schedule, AdminNext, AdminRead, CancelStore, ResetStore, CancelRetriesStore, vars
<1> QED BY <1>5, <1>6, <1>7, <1>8, <1>9, <1>10 DEF Next

LEMMA ReloadCopiesDescend ==
  ASSUME TypeOK, [Next]_vars, NEW i \in Instances, NEW j \in Jobs
  PROVE  Descends(j, reload'[i].vals[j])
<1>1. reload[i].vals[j] \in VersionsOf(j) /\ sandbox[j] \in VersionsOf(j)
  BY Versions
<1>2. reload'[i].vals[j] \in {reload[i].vals[j], sandbox[j], AbsentRow} => Descends(j, reload'[i].vals[j])
  BY <1>1 DEF Descends
<1>3. /\ NotReloaded.vals[j] = AbsentRow
      /\ Reloaded.vals[j] = AbsentRow
  BY DEF NotReloaded, Reloaded
<1>4. ASSUME NEW k \in Instances, ReloadNext(k)
      PROVE  reload'[i].vals[j] \in {reload[i].vals[j], sandbox[j], AbsentRow}
  <2>1. CASE i # k
    <3>1. reload'[i] = reload[i]
      BY <1>4, <2>1 DEF TypeOK, ReloadNext, ReloadQuery, ReloadMark, ReloadCreate, ReloadFault
    <3> QED BY <3>1
  <2>2. CASE i = k
    <3>1. reload[i] \in Reloading /\ \A l \in Jobs : AfterReloadOf(i, l) \in Reloading
      BY TypeOf, AfterReloadType
    <3>2. CASE ReloadQuery(i)
      <4> DEFINE found == {l \in Jobs : Crashed(i, l)}
                 read == [NotReloaded EXCEPT !.todo = found,
                            !.vals = [l \in Jobs |-> IF l \in found THEN sandbox[l] ELSE AbsentRow]]
      <4>1. read.vals[j] \in {sandbox[j], AbsentRow}
        BY DEF NotReloaded
      <4>2. reload'[i] \in {Reloaded, read}
        BY <3>2 DEF TypeOK, ReloadQuery
      <4> HIDE DEF read
      <4> QED BY <1>3, <4>1, <4>2
    <3>3. ASSUME NEW l \in Jobs PROVE AfterReloadOf(i, l).vals[j] \in {reload[i].vals[j], AbsentRow}
      <4>1. [reload[i] EXCEPT !.todo = @ \ {l}, !.half = NoJob, !.vals[l] = AbsentRow].vals
            = [reload[i].vals EXCEPT ![l] = AbsentRow]
        BY <3>1 DEF Reloading
      <4>2. [reload[i].vals EXCEPT ![l] = AbsentRow][j] \in {reload[i].vals[j], AbsentRow}
        BY <3>1 DEF Reloading
      <4> QED BY <1>3, <4>1, <4>2 DEF AfterReloadOf
    <3>4. CASE ReloadMark(i)
      <4>1. reload[i].half \in Jobs /\ reload'[i] = AfterReloadOf(i, reload[i].half)
        BY <3>4, TypeOf DEF TypeOK, ReloadMark
      <4> QED BY <3>3, <4>1
    <3>5. ASSUME NEW l \in Jobs, ReloadFault(i, l)
          PROVE  reload'[i].vals[j] \in {reload[i].vals[j], AbsentRow}
      BY <3>3, <3>5 DEF TypeOK, ReloadFault
    <3>6. ASSUME NEW l \in Jobs, ReloadCreate(i, l) PROVE reload'[i].vals[j] = reload[i].vals[j]
      <4>1. reload'[i] = [reload[i] EXCEPT !.half = l]
        BY <3>6 DEF TypeOK, ReloadCreate
      <4> QED BY <3>1, <4>1 DEF Reloading
    <3> QED BY <1>4, <2>2, <3>2, <3>4, <3>5, <3>6 DEF ReloadNext
  <2> QED BY <2>1, <2>2
<1>5. ASSUME NEW k \in Instances, Die(k) PROVE reload'[i].vals[j] \in {reload[i].vals[j], AbsentRow}
  BY <1>3, <1>5 DEF TypeOK, Die
<1>6. UNCHANGED reload => reload'[i].vals[j] = reload[i].vals[j]
  OBVIOUS
<1>7. ASSUME NEW k \in Instances, PollNext(k) \/ InstanceNext(k) PROVE UNCHANGED reload \/ Die(k)
  BY <1>7 DEF PollNext, PollSelect, PollClaim, InstanceNext, ShutDown, Crash, Exit, Restart,
              AsyncQueue, AsyncTake, AsyncEnd
<1>8. (\E t \in Templates : Schedule(t)) \/ AdminNext \/ (\E o \in TaskIds : TaskNext(o)) \/ UNCHANGED vars
      => UNCHANGED reload
  BY DEF Schedule, AdminNext, AdminRead, CancelStore, ResetStore, CancelRetriesStore, TaskNext, vars,
         QueueRefresh, QueueStore, DeQueueRefresh, DeQueueStore, Take, InitRefresh, InitStore, Recur,
         Finish, FailAndRetry, StoreFailed, DbFault
<1> QED BY <1>2, <1>4, <1>5, <1>6, <1>7, <1>8 DEF Next

LEMMA AdminCopyDescends ==
  ASSUME TypeOK, [Next]_vars, NEW j \in Jobs, admin'.job = j
  PROVE  Descends(j, admin'.val)
<1>1. UNCHANGED admin => Descends(j, admin'.val)
  BY Versions DEF Descends
<1>2. CASE \E kind \in AdminKinds, k \in Jobs : AdminRead(kind, k)
  <2>1. admin'.val = sandbox[j]
    BY <1>2 DEF AdminRead
  <2> QED BY <2>1, Versions DEF Descends
<1>3. AdminNext => UNCHANGED admin \/ admin' = NoCall \/ \E kind \in AdminKinds, k \in Jobs : AdminRead(kind, k)
  BY DEF AdminNext, CancelStore, ResetStore, CancelRetriesStore
<1>4. admin' # NoCall
  BY DEF NoCall
<1>5. \A i \in Instances : ReloadNext(i) \/ PollNext(i) \/ InstanceNext(i) => UNCHANGED admin
  BY DEF ReloadNext, ReloadQuery, ReloadMark, ReloadCreate, ReloadFault, PollNext, PollSelect, PollClaim,
         InstanceNext, ShutDown, Crash, Exit, Die, Restart, AsyncQueue, AsyncTake, AsyncEnd
<1>6. (\E t \in Templates : Schedule(t)) \/ (\E o \in TaskIds : TaskNext(o)) \/ UNCHANGED vars => UNCHANGED admin
  BY DEF Schedule, TaskNext, vars, QueueRefresh, QueueStore, DeQueueRefresh, DeQueueStore, Take, InitRefresh,
         InitStore, Recur, Finish, FailAndRetry, StoreFailed, DbFault
<1> QED BY <1>1, <1>2, <1>3, <1>4, <1>5, <1>6 DEF Next

\* Every copy of a row descends from the copies before the step.
LEMMA VersionsDescend ==
  ASSUME TypeOK, [Next]_vars, NEW j \in Jobs, NEW new \in VersionsOf(j)'
  PROVE  Descends(j, new)
<1>1. Descends(j, sandbox'[j])
  <2>1. CASE UNCHANGED vars
    BY <2>1, Versions DEF vars, Descends
  <2> QED BY <2>1, TaskStoresDescend, OtherStoresDescend DEF Next
<1>2. \A o \in TaskIds : JobOf(o) = j => Descends(j, task'[o].val)
  BY TaskCopiesDescend
<1>3. \A i \in Instances : Descends(j, reload'[i].vals[j])
  BY ReloadCopiesDescend
<1>4. admin'.job = j => Descends(j, admin'.val)
  BY AdminCopyDescends
<1>5. \/ new = sandbox'[j]
      \/ \E o \in TaskIds : JobOf(o) = j /\ new = task'[o].val
      \/ \E i \in Instances : new = reload'[i].vals[j]
      \/ admin'.job = j /\ new = admin'.val
  BY DEF VersionsOf
<1> QED BY <1>1, <1>2, <1>3, <1>4, <1>5

-----------------------------------------------------------------------------
(* No job gets lost *)

\* The job of the row is over, or the row has a status that a poll, its
\* instance or the reload of its instance looks for, and nobody has started it
\* without owning it.
Pursued(row) ==
  \/ row.status = "ABSENT" \/ row.finish \/ row.cancel
  \/ row.status \in {"PENDING", "QUEUED", "RUNNING"} /\ (row.runBy = NoInstance => ~row.start)

\* This holds of the copies too, so that no late store can lose the job.
CopiesPursued == \A j \in Jobs : \A row \in VersionsOf(j) : Pursued(row)

\* No rewriting of a copy gives the job up, ...
LEMMA RewrittenPursued ==
  ASSUME NEW old \in Row, NEW new, Pursued(old), Rewritten(old, new)
  PROVE  Pursued(new)
<1>1. ASSUME NEW i \in Instances, new = [old EXCEPT !.runBy = i] PROVE Pursued(new)
  BY <1>1 DEF Pursued, Row
<1>2. CASE old.runBy # NoInstance /\ new = [old EXCEPT !.status = "QUEUED"]
  BY <1>2 DEF Pursued, Row
<1>3. CASE new = Dequeued(old)
  BY <1>3 DEF Pursued, Row, Dequeued
<1>4. CASE old.runBy # NoInstance /\ new = [old EXCEPT !.start = TRUE, !.status = "RUNNING"]
  BY <1>4 DEF Pursued, Row
<1>5. CASE new = CountRecurrence(old)
  BY <1>5 DEF Pursued, Row, CountRecurrence
<1>6. ASSUME NEW s, new = [old EXCEPT !.status = s, !.finish = TRUE] PROVE Pursued(new)
  BY <1>6 DEF Pursued, Row
<1>7. ASSUME NEW s, new = [old EXCEPT !.status = s, !.cancel = TRUE] PROVE Pursued(new)
  BY <1>7 DEF Pursued, Row
<1>8. CASE new = [old EXCEPT !.status = "PENDING", !.start = FALSE, !.finish = FALSE,
                             !.cancel = FALSE, !.runBy = NoInstance]
  BY <1>8 DEF Pursued, Row
<1>9. CASE old.cancel /\ new = [old EXCEPT !.maxRetry = 0]
  BY <1>9 DEF Pursued, Row
<1> QED BY <1>1, <1>2, <1>3, <1>4, <1>5, <1>6, <1>7, <1>8, <1>9 DEF Rewritten

\* ... and a new row waits for a poll.
LEMMA InsertedPursued ==
  ASSUME TypeOK, NEW j \in Jobs, NEW new, Inserted(j, new)
  PROVE  Pursued(new)
<1>1. ASSUME NEW t \in Templates, new = Scheduled(t) PROVE Pursued(new)
  BY <1>1 DEF Pursued, Scheduled, AbsentRow
<1>2. ASSUME NEW k \in Jobs, NEW old \in VersionsOf(k), NEW n \in Int, new = Recurrence(k, old, n)
      PROVE  Pursued(new)
  <2>1. old \in Row
    BY VersionsType
  <2> QED BY <1>2, <2>1 DEF Pursued, Recurrence, Row
<1> QED BY <1>1, <1>2 DEF Inserted

LEMMA NextPursued ==
  ASSUME TypeOK, CopiesPursued, [Next]_vars
  PROVE  CopiesPursued'
<1> SUFFICES ASSUME NEW j \in Jobs, NEW new \in VersionsOf(j)' PROVE Pursued(new)
  BY DEF CopiesPursued
<1>1. Descends(j, new)
  BY VersionsDescend
<1>2. CASE new \in VersionsOf(j) \cup {AbsentRow}
  BY <1>2 DEF CopiesPursued, Pursued, AbsentRow
<1>3. ASSUME NEW old \in VersionsOf(j), Rewritten(old, new) PROVE Pursued(new)
  <2>1. old \in Row /\ Pursued(old)
    BY VersionsType DEF CopiesPursued
  <2> QED BY <1>3, <2>1, RewrittenPursued
<1>4. CASE Inserted(j, new)
  BY <1>4, InsertedPursued
<1> QED BY <1>1, <1>2, <1>3, <1>4 DEF Descends

LEMMA InitPursued ==
  ASSUME Init
  PROVE  CopiesPursued
<1> SUFFICES ASSUME NEW j \in Jobs, NEW row \in VersionsOf(j) PROVE row = AbsentRow
  BY DEF CopiesPursued, Pursued, AbsentRow
<1>1. sandbox[j] = AbsentRow /\ \A o \in TaskIds : task[o].val = AbsentRow
  BY DEF Init, NoTask
<1>2. \A i \in Instances : reload[i].vals[j] = AbsentRow
  BY DEF Init, NotReloaded
<1>3. admin.val = AbsentRow
  BY DEF Init, NoCall
<1> QED BY <1>1, <1>2, <1>3 DEF VersionsOf

\* A row that is neither finished nor cancelled can be polled, or is held by
\* the instance it names, or will be recovered by it: no copy that is stored
\* late, by queue(), deQueue(), init(), finish(), failed(), a reload or an
\* administrator, makes the scheduler forget the job.
THEOREM NothingLost == Spec => []NoJobLost
<1>1. Init => TypeOK /\ CopiesPursued
  BY InitTypes, InitPursued
<1>2. TypeOK /\ CopiesPursued /\ [Next]_vars => TypeOK' /\ CopiesPursued'
  BY NextTypes, NextPursued
<1>3. TypeOK /\ CopiesPursued => NoJobLost
  <2> SUFFICES ASSUME TypeOK, CopiesPursued, NEW j \in Jobs, Exists(j), ~Done(j)
               PROVE  \/ Pollable(j)
                      \/ \E i \in Instances : sandbox[j].runBy = i /\ (HoldsTask(i, j) \/ Crashed(i, j))
    BY DEF NoJobLost
  <2>1. Pursued(sandbox[j])
    BY Versions DEF CopiesPursued
  <2>2. sandbox[j].runBy \in Instances \cup {NoInstance}
    BY TypeOf DEF Row
  <2>3. CASE sandbox[j].runBy = NoInstance
    BY <2>1, <2>3 DEF Pursued, Exists, Done, Pollable
  <2>4. CASE sandbox[j].runBy \in Instances
    BY <2>1, <2>4 DEF Pursued, Exists, Done, Crashed
  <2> QED BY <2>2, <2>3, <2>4
<1> QED BY <1>1, <1>2, <1>3, PTL DEF Spec

-----------------------------------------------------------------------------
(* What an instance owns *)

\* A nonempty set of naturals has a least element.
LEMMA LeastNatural ==
  ASSUME NEW S, S \subseteq Nat, S # {}
  PROVE  \E n \in S : \A m \in S : n <= m
<1> DEFINE less == {p \in Nat \X Nat : p[1] < p[2]}
<1>1. IsWellFoundedOn(less, Nat)
  BY NatLessThanWellFounded DEF OpToRel
<1>2. \E n \in S : \A m \in S : <<m, n>> \notin less
  BY <1>1, WFMin, Zenon
<1>3. \A m, n \in Nat : <<m, n>> \notin less => n <= m
  OBVIOUS
<1> HIDE DEF less
<1> QED BY <1>2, <1>3

\* The poll has a name for the Job object of a row that it may claim.
LEMMA FreshTaskId ==
  ASSUME NEW i \in Instances, NEW j \in Jobs, Claimable(i, j)
  PROVE  \E o \in TaskIds : NewTaskId(i, j, o)
<1> DEFINE free == {c \in Copies : task[<<i, j, c>>].at = "none"}
<1>1. free \subseteq Nat /\ free # {}
  BY DEF Claimable
<1>2. PICK c \in free : \A d \in free : c <= d
  BY <1>1, LeastNatural
<1>3. \A d \in Copies : d < c => task[<<i, j, d>>].at # "none"
  BY <1>1, <1>2
<1>4. <<i, j, c>> \in TaskIds /\ Inst(<<i, j, c>>) = i /\ JobOf(<<i, j, c>>) = j /\ <<i, j, c>>[3] = c
  BY <1>2 DEF TaskIds, Inst, JobOf
<1> QED BY <1>2, <1>3, <1>4 DEF NewTaskId

\* What a Job object has made of its copy of the row when it stores it.
CopyFits(o) ==
  /\ task[o].at = "storeQueued" =>
       task[o].val.status = "QUEUED" /\ task[o].val.runBy = Inst(o) /\ ~task[o].val.start
  /\ task[o].at = "storeDequeued" => task[o].val.status = "PENDING" /\ task[o].val.runBy = NoInstance
  /\ task[o].at \in {"storeRunning", "recur", "service", "storeFailed"} =>
       task[o].val.status = "RUNNING" /\ task[o].val.runBy = Inst(o) /\ task[o].val.start
CopiesFit == \A o \in TaskIds : CopyFits(o)

\* The steps at which a Job object has stored that its job is running.
StartedSteps == {"recur", "service", "storeFailed"}

\* An action of a Job object needs one, and leaves the instances alone.
LEMMA TaskFrame ==
  ASSUME NEW o \in TaskIds, TaskNext(o)
  PROVE  /\ task[o].at # "none"
         /\ UNCHANGED <<mode, poller, reload, async, admin, acked, recovered>>
         /\ UNCHANGED used \/ DbFault(o)
<1>1. CASE QueueRefresh(o) \/ QueueStore(o) \/ DeQueueRefresh(o) \/ DeQueueStore(o) \/ Take(o)
  BY <1>1 DEF QueueRefresh, QueueStore, DeQueueRefresh, DeQueueStore, Take, history
<1>2. CASE InitRefresh(o) \/ InitStore(o) \/ Recur(o)
  BY <1>2 DEF InitRefresh, InitStore, Recur, history
<1>3. CASE Finish(o) \/ FailAndRetry(o) \/ StoreFailed(o) \/ DbFault(o)
  BY <1>3 DEF Finish, FailAndRetry, StoreFailed, DbFault, history
<1> QED BY <1>1, <1>2, <1>3 DEF TaskNext

\* The copy fits after each step of its Job object.
LEMMA TaskKeepsCopyFits ==
  ASSUME TypeOK, NEW o \in TaskIds, CopyFits(o), TaskNext(o)
  PROVE  CopyFits(o)'
<1>1. sandbox[JobOf(o)] \in Row /\ task[o].val \in Row
  BY TaskIdParts, TypeOf
<1>2. ASSUME Drop(o) PROVE CopyFits(o)'
  <2>1. task'[o].at = "none"
    BY <1>2, CopyAfter
  <2> QED BY <2>1 DEF CopyFits
<1>3. ASSUME NEW step \in Harmless, Goto(o, step) PROVE CopyFits(o)'
  <2>1. task'[o].at \in Harmless
    BY <1>3, CopyAfter
  <2> QED BY <2>1 DEF CopyFits, Harmless
<1>4. CASE QueueRefresh(o)
  <2>1. CASE ~QueueRefuses(Inst(o), sandbox[JobOf(o)])
    <3> DEFINE row == [sandbox[JobOf(o)] EXCEPT !.status = "QUEUED"]
    <3>1. row.status = "QUEUED" /\ row.runBy = Inst(o) /\ ~row.start
      BY <1>1, <2>1 DEF QueueRefuses, Row
    <3>2. task' = [task EXCEPT ![o].at = "storeQueued", ![o].val = row]
      BY <1>4, <2>1 DEF QueueRefresh
    <3> HIDE DEF row
    <3>3. task'[o].at = "storeQueued" /\ task'[o].val = row
      BY <3>2, NewCopyAfter
    <3> QED BY <3>1, <3>3 DEF CopyFits
  <2> QED BY <1>2, <1>4, <2>1 DEF QueueRefresh
<1>5. CASE QueueStore(o) \/ Take(o)
  BY <1>3, <1>5 DEF QueueStore, Take, Harmless
<1>6. CASE DeQueueRefresh(o)
  <2> DEFINE row == Dequeued(sandbox[JobOf(o)])
  <2>1. row.status = "PENDING" /\ row.runBy = NoInstance
    BY <1>1 DEF Dequeued, Row
  <2>2. task' = [task EXCEPT ![o].at = "storeDequeued", ![o].val = row]
    BY <1>6 DEF DeQueueRefresh
  <2> HIDE DEF row
  <2>3. task'[o].at = "storeDequeued" /\ task'[o].val = row
    BY <2>2, NewCopyAfter
  <2> QED BY <2>1, <2>3 DEF CopyFits
<1>7. CASE DeQueueStore(o) \/ Finish(o) \/ StoreFailed(o)
  BY <1>2, <1>7 DEF DeQueueStore, Finish, StoreFailed
<1>8. CASE InitRefresh(o)
  <2>1. CASE ~InitRefuses(Inst(o), sandbox[JobOf(o)])
    <3> DEFINE row == [sandbox[JobOf(o)] EXCEPT !.start = TRUE, !.status = "RUNNING"]
    <3>1. row.status = "RUNNING" /\ row.runBy = Inst(o) /\ row.start
      BY <1>1, <2>1 DEF InitRefuses, Row
    <3>2. task' = [task EXCEPT ![o].at = "storeRunning", ![o].val = row]
      BY <1>8, <2>1 DEF InitRefresh
    <3> HIDE DEF row
    <3>3. task'[o].at = "storeRunning" /\ task'[o].val = row
      BY <3>2, NewCopyAfter
    <3> QED BY <3>1, <3>3 DEF CopyFits
  <2> QED BY <1>2, <1>8, <2>1 DEF InitRefresh
<1>9. CASE InitStore(o)
  <2> DEFINE row == CountRecurrence(task[o].val)
  <2>1. row.status = task[o].val.status /\ row.runBy = task[o].val.runBy /\ row.start = task[o].val.start
    BY <1>1 DEF CountRecurrence, Row
  <2>2. task[o].val.status = "RUNNING" /\ task[o].val.runBy = Inst(o) /\ task[o].val.start
    BY <1>9 DEF CopyFits, InitStore
  <2>3. PICK step \in {"recur", "service"} : task' = [task EXCEPT ![o].at = step, ![o].val = row]
    BY <1>9 DEF InitStore
  <2> HIDE DEF row
  <2>4. task'[o].at = step /\ task'[o].val = row
    BY <2>3, NewCopyAfter
  <2> QED BY <2>1, <2>2, <2>4 DEF CopyFits
<1>10. CASE Recur(o) \/ FailAndRetry(o)
  <2>1. task[o].at \in {"recur", "service"}
    BY <1>10 DEF Recur, FailAndRetry
  <2>2. PICK step \in {"service", "storeFailed"} :
          Goto(o, step) \/ task' = [task EXCEPT ![o].at = step, ![o].next = TRUE]
    BY <1>10 DEF Recur, FailAndRetry
  <2>3. task'[o].at = step /\ task'[o].val = task[o].val
    BY <2>2, CopyAfter
  <2> QED BY <2>1, <2>3 DEF CopyFits
<1>11. CASE DbFault(o)
  <2>1. CASE task[o].at = "service" /\ Goto(o, "storeFailed")
    <3>1. task'[o].at = "storeFailed" /\ task'[o].val = task[o].val
      BY <2>1, CopyAfter
    <3> QED BY <2>1, <3>1 DEF CopyFits
  <2> QED BY <1>2, <1>11, <2>1 DEF DbFault
<1> QED BY <1>4, <1>5, <1>6, <1>7, <1>8, <1>9, <1>10, <1>11 DEF TaskNext

\* Apart from the steps of its own, a Job object is created as a candidate,
\* drained from the queue, or forgotten.
LEMMA TasksElsewhere ==
  ASSUME TypeOK, NEW o \in TaskIds, [Next]_vars
  PROVE  TaskNext(o) \/ task'[o] = task[o] \/ task'[o].at \in Harmless
<1>1. ASSUME NEW p \in TaskIds, TaskNext(p) PROVE p = o \/ task'[o] = task[o]
  BY <1>1, OtherTasksAfter
<1>2. ASSUME NEW i \in Instances, PollNext(i) PROVE task'[o] = task[o] \/ task'[o].at \in Harmless
  <2>1. \A n, m : [NoTask EXCEPT !.at = "candidate", !.maxRetry = n, !.retry = m].at = "candidate"
    BY DEF NoTask
  <2>2. CASE PollSelect(i)
    BY <2>2 DEF PollSelect
  <2>3. ASSUME NEW claimed \in SUBSET poller[i].due, PollClaim(i, claimed)
        PROVE  task'[o] = task[o] \/ task'[o].at \in Harmless
    BY <2>1, <2>3 DEF PollClaim, Harmless
  <2> QED BY <1>2, <2>2, <2>3 DEF PollNext
<1>3. ASSUME NEW i \in Instances, InstanceNext(i) PROVE task'[o] = task[o] \/ task'[o].at \in Harmless
  <2>1. [task[o] EXCEPT !.at = "drained"].at = "drained" /\ NoTask.at = "none"
    BY TypeOf DEF Task, NoTask
  <2> QED BY <1>3, <2>1 DEF InstanceNext, ShutDown, Crash, Exit, Die, Restart, AsyncQueue, AsyncTake,
                            AsyncEnd, Harmless
<1>4. \A i \in Instances : ReloadNext(i) => UNCHANGED task
  BY DEF ReloadNext, ReloadQuery, ReloadMark, ReloadCreate, ReloadFault
<1>5. (\E t \in Templates : Schedule(t)) \/ AdminNext \/ UNCHANGED vars => UNCHANGED task
  BY DEF Schedule, AdminNext, AdminRead, CancelStore, ResetStore, CancelRetriesStore, vars
<1> QED BY <1>1, <1>2, <1>3, <1>4, <1>5 DEF Next

LEMMA NextCopiesFit ==
  ASSUME TypeOK, CopiesFit, [Next]_vars
  PROVE  CopiesFit'
<1> SUFFICES ASSUME NEW o \in TaskIds PROVE CopyFits(o)'
  BY DEF CopiesFit
<1>1. CASE TaskNext(o)
  BY <1>1, TaskKeepsCopyFits DEF CopiesFit
<1>2. CASE task'[o] = task[o]
  BY <1>2 DEF CopiesFit, CopyFits
<1>3. CASE task'[o].at \in Harmless
  BY <1>3 DEF CopyFits, Harmless
<1> QED BY <1>1, <1>2, <1>3, TasksElsewhere

LEMMA InitCopiesFit ==
  ASSUME Init
  PROVE  CopiesFit
BY DEF Init, CopiesFit, CopyFits, NoTask

\* Crashed jobs are reloaded before an instance polls: until then it has no
\* Job objects.  A process that is down has forgotten its reload.
ReloadFirst ==
  \A i \in Instances :
    /\ ~reload[i].done => poller[i] = Idle /\ \A o \in TaskIds : Inst(o) = i => task[o].at = "none"
    /\ mode[i] = "down" => reload[i] = NotReloaded
    /\ reload[i].half # NoJob => reload[i].half \in reload[i].todo
    /\ reload[i].done => reload[i].todo = {}

\* What is left of a reload once a job has been dealt with.
LEMMA AfterReload ==
  ASSUME TypeOK, NEW i \in Instances, NEW j \in Jobs
  PROVE  /\ reload[i].todo = {j} => AfterReloadOf(i, j) = Reloaded
         /\ reload[i].todo # {j} => /\ AfterReloadOf(i, j).todo = reload[i].todo \ {j}
                                    /\ AfterReloadOf(i, j).half = NoJob
                                    /\ AfterReloadOf(i, j).done = reload[i].done
         /\ Reloaded.done /\ Reloaded.todo = {} /\ Reloaded.half = NoJob
         /\ ~NotReloaded.done /\ NotReloaded.todo = {} /\ NotReloaded.half = NoJob
<1>1. reload[i] \in Reloading
  BY TypeOf
<1>2. /\ [reload[i] EXCEPT !.todo = @ \ {j}, !.half = NoJob, !.vals[j] = AbsentRow].todo = reload[i].todo \ {j}
      /\ [reload[i] EXCEPT !.todo = @ \ {j}, !.half = NoJob, !.vals[j] = AbsentRow].half = NoJob
      /\ [reload[i] EXCEPT !.todo = @ \ {j}, !.half = NoJob, !.vals[j] = AbsentRow].done = reload[i].done
  BY <1>1 DEF Reloading
<1>3. /\ Reloaded.done /\ Reloaded.todo = {} /\ Reloaded.half = NoJob
      /\ ~NotReloaded.done /\ NotReloaded.todo = {} /\ NotReloaded.half = NoJob
  BY DEF Reloaded, NotReloaded
<1> QED BY <1>2, <1>3 DEF AfterReloadOf

\* What the query finds is what has to be reloaded, unless the query fails.
LEMMA ReloadQueryAfter ==
  ASSUME TypeOK, NEW i \in Instances, ReloadQuery(i)
  PROVE  /\ reload'[i].half = NoJob
         /\ reload'[i].done <=> reload'[i].todo = {}
         /\ UNCHANGED used => reload'[i].todo = {j \in Jobs : Crashed(i, j)}
<1> DEFINE found == {j \in Jobs : Crashed(i, j)}
           read == [NotReloaded EXCEPT !.todo = found,
                      !.vals = [j \in Jobs |-> IF j \in found THEN sandbox[j] ELSE AbsentRow]]
<1>1. read.todo = found /\ read.half = NoJob /\ ~read.done
  BY DEF NotReloaded
<1>2. \/ reload'[i] = IF found = {} THEN Reloaded ELSE read
      \/ Use("faults") /\ reload'[i] = Reloaded
  BY DEF TypeOK, ReloadQuery
<1>3. Reloaded.done /\ Reloaded.todo = {} /\ Reloaded.half = NoJob
  BY DEF Reloaded, NotReloaded
<1>4. Use("faults") => used' # used
  BY DEF TypeOK, Use
<1> HIDE DEF found, read
<1>5. reload'[i].half = NoJob /\ (reload'[i].done <=> reload'[i].todo = {})
  BY <1>1, <1>2, <1>3
<1>6. UNCHANGED used => reload'[i].todo = found
  BY <1>1, <1>2, <1>3, <1>4
<1> QED BY <1>5, <1>6 DEF found

\* The steps of a reload, from the instance's point of view.
LEMMA ReloadSteps ==
  ASSUME TypeOK, ReloadFirst, NEW i \in Instances, ReloadNext(i)
  PROVE  /\ ~reload[i].done /\ mode[i] # "down"
         /\ UNCHANGED <<task, poller, mode, admin, runs, acked, async>>
         /\ \A k \in Instances \ {i} : reload'[k] = reload[k]
         /\ \/ /\ ReloadQuery(i) /\ reload'[i].half = NoJob
               /\ reload'[i].done <=> reload'[i].todo = {}
            \/ \E j \in reload[i].todo : /\ reload'[i].half = j /\ reload'[i].todo = reload[i].todo
                                         /\ reload'[i].done = reload[i].done
            \/ \E j \in reload[i].todo : /\ reload'[i] = AfterReloadOf(i, j)
                                         /\ (ReloadMark(i) /\ j = reload[i].half) \/ ReloadFault(i, j)
<1>1. UNCHANGED <<task, poller, mode, admin, runs, acked, async>>
  BY DEF ReloadNext, ReloadQuery, ReloadMark, ReloadCreate, ReloadFault, history
<1>2. \A k \in Instances \ {i} : reload'[k] = reload[k]
  BY DEF TypeOK, ReloadNext, ReloadQuery, ReloadMark, ReloadCreate, ReloadFault
<1>3. CASE ReloadQuery(i)
  <2>1. ~reload[i].done /\ mode[i] # "down"
    BY <1>3 DEF ReloadQuery, PollerFree
  <2>2. reload'[i].half = NoJob /\ (reload'[i].done <=> reload'[i].todo = {})
    BY <1>3, ReloadQueryAfter
  <2> QED BY <1>1, <1>2, <1>3, <2>1, <2>2
<1>4. ASSUME NEW j \in Jobs, ReloadCreate(i, j)
      PROVE  /\ ~reload[i].done /\ mode[i] # "down"
             /\ j \in reload[i].todo /\ reload'[i].half = j /\ reload'[i].todo = reload[i].todo
             /\ reload'[i].done = reload[i].done
  <2>1. reload'[i] = [reload[i] EXCEPT !.half = j] /\ j \in reload[i].todo /\ mode[i] # "down"
    BY <1>4 DEF TypeOK, ReloadCreate
  <2>2. reload[i] \in Reloading
    BY TypeOf
  <2>3. ~reload[i].done
    BY <2>1 DEF ReloadFirst
  <2> QED BY <2>1, <2>2, <2>3 DEF Reloading
<1>5. CASE ReloadMark(i)
  <2>1. reload[i].half \in reload[i].todo /\ mode[i] # "down"
    BY <1>5 DEF ReloadMark, ReloadFirst
  <2>2. reload'[i] = AfterReloadOf(i, reload[i].half)
    BY <1>5 DEF TypeOK, ReloadMark
  <2>3. ~reload[i].done
    BY <2>1 DEF ReloadFirst
  <2> QED BY <1>1, <1>2, <1>5, <2>1, <2>2, <2>3
<1>6. ASSUME NEW j \in Jobs, ReloadFault(i, j)
      PROVE  /\ ~reload[i].done /\ mode[i] # "down"
             /\ j \in reload[i].todo /\ reload'[i] = AfterReloadOf(i, j)
  <2>1. reload'[i] = AfterReloadOf(i, j) /\ j \in reload[i].todo /\ mode[i] # "down"
    BY <1>6 DEF TypeOK, ReloadFault
  <2> QED BY <2>1 DEF ReloadFirst
<1> QED BY <1>1, <1>2, <1>3, <1>4, <1>5, <1>6 DEF ReloadNext

LEMMA NextReloadFirst ==
  ASSUME TypeOK, ReloadFirst, [Next]_vars
  PROVE  ReloadFirst'
<1>1. ASSUME NEW o \in TaskIds, TaskNext(o) PROVE ReloadFirst'
  <2>1. task[o].at # "none" /\ UNCHANGED <<mode, poller, reload>>
    BY <1>1, TaskFrame
  <2>2. reload[Inst(o)].done
    BY <2>1, TaskIdParts DEF ReloadFirst
  <2>3. \A p \in TaskIds : p # o => task'[p] = task[p]
    BY <1>1, OtherTasksAfter
  <2> QED BY <2>1, <2>2, <2>3 DEF ReloadFirst
<1>2. ASSUME NEW i \in Instances, ReloadNext(i) PROVE ReloadFirst'
  <2>1. /\ ~reload[i].done /\ mode[i] # "down"
        /\ UNCHANGED <<task, poller, mode>>
        /\ \A k \in Instances \ {i} : reload'[k] = reload[k]
    BY <1>2, ReloadSteps
  <2>2. /\ reload'[i].half # NoJob => reload'[i].half \in reload'[i].todo
        /\ reload'[i].done => reload'[i].todo = {}
    <3>1. CASE reload'[i].half = NoJob /\ (reload'[i].done <=> reload'[i].todo = {})
      BY <3>1
    <3>3. ASSUME NEW j \in reload[i].todo, reload'[i].half = j, reload'[i].todo = reload[i].todo,
                 reload'[i].done = reload[i].done
          PROVE  reload'[i].half \in reload'[i].todo /\ ~reload'[i].done
      BY <2>1, <3>3
    <3>4. ASSUME NEW j \in reload[i].todo, reload'[i] = AfterReloadOf(i, j)
          PROVE  reload'[i].half = NoJob /\ (reload'[i].done => reload'[i].todo = {})
      <4>1. j \in Jobs
        BY TypeOf
      <4> QED BY <2>1, <3>4, <4>1, AfterReload
    <3> QED BY <1>2, <3>1, <3>3, <3>4, ReloadSteps
  <2> QED BY <2>1, <2>2 DEF ReloadFirst
<1>3. ASSUME NEW i \in Instances, PollNext(i) PROVE ReloadFirst'
  <2>1. reload[i].done /\ UNCHANGED <<mode, reload>>
    <3>1. CASE PollSelect(i)
      BY <3>1 DEF PollSelect
    <3>2. ASSUME NEW claimed \in SUBSET poller[i].due, PollClaim(i, claimed)
          PROVE  reload[i].done /\ UNCHANGED <<mode, reload>>
      <4>1. Idle.at = "idle" /\ poller[i].at = "selected"
        BY <3>2 DEF PollClaim, Idle
      <4>2. poller[i] # Idle
        BY <4>1
      <4> QED BY <3>2, <4>2 DEF PollClaim, ReloadFirst
    <3> QED BY <1>3, <3>1, <3>2 DEF PollNext
  <2>2. \A k \in Instances \ {i} : poller'[k] = poller[k]
    BY <1>3 DEF TypeOK, PollNext, PollSelect, PollClaim
  <2>3. \A o \in TaskIds : Inst(o) # i => task'[o] = task[o]
    <3>1. CASE PollSelect(i)
      BY <3>1 DEF PollSelect
    <3>2. ASSUME NEW claimed \in SUBSET poller[i].due, PollClaim(i, claimed), NEW o \in TaskIds, Inst(o) # i
          PROVE  task'[o] = task[o]
      BY <3>2 DEF PollClaim, NewTaskId
    <3> QED BY <1>3, <3>1, <3>2 DEF PollNext
  <2> QED BY <2>1, <2>2, <2>3 DEF ReloadFirst
<1>4. ASSUME NEW i \in Instances, InstanceNext(i) PROVE ReloadFirst'
  <2>1. CASE ShutDown(i)
    <3>1. UNCHANGED <<poller, reload>> /\ \A k \in Instances : mode'[k] = "down" => mode[k] = "down"
      BY <2>1 DEF TypeOK, ShutDown
    <3>2. \A o \in TaskIds : task[o].at = "none" => task'[o].at = "none"
      BY <2>1 DEF ShutDown, TasksAt
    <3> QED BY <3>1, <3>2 DEF ReloadFirst
  <2>2. CASE Crash(i) \/ Exit(i)
    <3>1. Die(i)
      BY <2>2 DEF Crash, Exit
    <3>2. \A o \in TaskIds : task'[o] = IF Inst(o) = i THEN NoTask ELSE task[o]
      BY <3>1 DEF Die
    <3>3. /\ \A k \in Instances : poller'[k] = IF k = i THEN Idle ELSE poller[k]
          /\ \A k \in Instances : reload'[k] = IF k = i THEN NotReloaded ELSE reload[k]
          /\ \A k \in Instances : mode'[k] = IF k = i THEN "down" ELSE mode[k]
      BY <3>1 DEF TypeOK, Die
    <3>4. ~NotReloaded.done /\ NotReloaded.todo = {} /\ NotReloaded.half = NoJob /\ NoTask.at = "none"
      BY DEF NotReloaded, NoTask
    <3> QED BY <3>2, <3>3, <3>4 DEF ReloadFirst
  <2>3. CASE Restart(i)
    <3>1. UNCHANGED <<poller, reload, task>> /\ \A k \in Instances : mode'[k] = "down" => mode[k] = "down"
      BY <2>3 DEF TypeOK, Restart
    <3> QED BY <3>1 DEF ReloadFirst
  <2>4. CASE AsyncQueue(i) \/ AsyncTake(i) \/ AsyncEnd(i)
    BY <2>4 DEF AsyncQueue, AsyncTake, AsyncEnd, ReloadFirst
  <2> QED BY <1>4, <2>1, <2>2, <2>3, <2>4 DEF InstanceNext
<1>5. CASE UNCHANGED <<mode, poller, reload, task>>
  BY <1>5 DEF ReloadFirst
<1>6. (\E t \in Templates : Schedule(t)) \/ AdminNext \/ UNCHANGED vars => UNCHANGED <<mode, poller, reload, task>>
  BY DEF Schedule, AdminNext, AdminRead, CancelStore, ResetStore, CancelRetriesStore, vars, history
<1> QED BY <1>1, <1>2, <1>3, <1>4, <1>5, <1>6 DEF Next

LEMMA InitReloadFirst ==
  ASSUME Init
  PROVE  ReloadFirst
BY DEF Init, ReloadFirst, NotReloaded, NoTask

\* An unfinished row that names instance i.
Owes(i, j) == Crashed(i, j) /\ ~Done(j)

TaskOf(i, j, steps) == \E o \in TaskIds : Inst(o) = i /\ JobOf(o) = j /\ task[o].at \in steps

\* A row that an instance owes is held by a Job object, and by one that has
\* stored that it runs when the row says so, or is on the list to be reloaded.
Kept(i, j) ==
  /\ reload[i].done => /\ TaskOf(i, j, Steps \ {"none"})
                       /\ sandbox[j].start => TaskOf(i, j, StartedSteps)
  /\ ~reload[i].done /\ reload[i].todo # {} => j \in reload[i].todo
OwnedKept ==
  \A i \in Instances, j \in Jobs : used.faults = 0 /\ mode[i] = "up" /\ Owes(i, j) => Kept(i, j)

OwnedInv == TypeOK /\ CopiesPursued /\ CopiesFit /\ ReloadFirst /\ OwnedKept

\* What an instance holds is kept while its row, its reload and its Job
\* objects of the row stay.
LEMMA KeptAcross ==
  ASSUME TypeOK, OwnedKept, NEW i \in Instances, NEW j \in Jobs,
         used.faults = 0, mode[i] = "up", Owes(i, j)',
         sandbox'[j] = sandbox[j], reload'[i] = reload[i],
         \A o \in TaskIds : Inst(o) = i /\ JobOf(o) = j /\ task[o].at # "none" =>
           /\ task'[o].at \in Steps \ {"none"}
           /\ task[o].at \in StartedSteps => task'[o].at \in StartedSteps
  PROVE  Kept(i, j)'
<1>1. Kept(i, j)
  BY DEF OwnedKept, Owes, Crashed, Done
<1> QED BY <1>1 DEF Kept, TaskOf, StartedSteps

\* A Job object stores rows of its own instance, or rows without an owner.
LEMMA StoredOwner ==
  ASSUME TypeOK, CopiesFit, NEW o \in TaskIds, TaskNext(o), NEW j \in Jobs
  PROVE  \/ sandbox'[j] = sandbox[j]
         \/ sandbox'[j].runBy = NoInstance
         \/ j = JobOf(o) /\ sandbox'[j].runBy = Inst(o)
<1>1. JobOf(o) \in Jobs /\ task[o].val \in Row /\ CopyFits(o)
  BY TaskIdParts, TypeOf DEF CopiesFit
<1>2. ASSUME NEW row, Store(JobOf(o), row), row.runBy \in {NoInstance, Inst(o)}
      PROVE  \/ sandbox'[j] = sandbox[j]
             \/ sandbox'[j].runBy = NoInstance
             \/ j = JobOf(o) /\ sandbox'[j].runBy = Inst(o)
  BY <1>1, <1>2 DEF TypeOK, Store
<1>3. ASSUME NEW k \in Jobs, NEW n, Store(k, Recurrence(JobOf(o), task[o].val, n))
      PROVE  sandbox'[j] = sandbox[j] \/ sandbox'[j].runBy = NoInstance
  <2>1. Recurrence(JobOf(o), task[o].val, n).runBy = NoInstance
    BY <1>1 DEF Recurrence, Row
  <2> QED BY <1>3, <2>1 DEF TypeOK, Store
<1>4. CASE QueueRefresh(o) \/ DeQueueRefresh(o) \/ Take(o) \/ InitRefresh(o) \/ DbFault(o)
  BY <1>4 DEF QueueRefresh, DeQueueRefresh, Take, InitRefresh, DbFault
<1>5. CASE QueueStore(o) \/ DeQueueStore(o) \/ InitStore(o)
  <2>1. task[o].val.runBy \in {NoInstance, Inst(o)}
    BY <1>1, <1>5 DEF CopyFits, QueueStore, DeQueueStore, InitStore
  <2> QED BY <1>2, <1>5, <2>1 DEF QueueStore, DeQueueStore, InitStore
<1>6. CASE Recur(o) \/ FailAndRetry(o)
  BY <1>3, <1>6 DEF Recur, FailAndRetry
<1>7. CASE Finish(o) \/ StoreFailed(o)
  <2>1. PICK s \in {"FINISHED", "FAILED"} : Store(JobOf(o), [task[o].val EXCEPT !.status = s, !.finish = TRUE])
    BY <1>7 DEF Finish, StoreFailed, FailedRow
  <2>2. [task[o].val EXCEPT !.status = s, !.finish = TRUE].runBy = Inst(o)
    BY <1>1, <1>7 DEF CopyFits, Finish, StoreFailed, Row
  <2> QED BY <1>2, <2>1, <2>2
<1> QED BY <1>4, <1>5, <1>6, <1>7 DEF TaskNext

\* The row of a Job object that takes a step.
LEMMA TaskKeepsOwn ==
  ASSUME OwnedInv, NEW o \in TaskIds, TaskNext(o), used.faults = 0, used'.faults = 0,
         mode[Inst(o)] = "up", Owes(Inst(o), JobOf(o))'
  PROVE  Kept(Inst(o), JobOf(o))'
<1> DEFINE i == Inst(o)
           j == JobOf(o)
<1> USE DEF OwnedInv
<1>1. /\ i \in Instances /\ j \in Jobs /\ task[o].val \in Row /\ sandbox[j] \in Row /\ CopyFits(o)
      /\ task[o].at # "none" /\ reload'[i] = reload[i]
  BY TaskIdParts, TypeOf, TaskFrame DEF CopiesFit
<1>2. reload[i].done
  BY <1>1 DEF ReloadFirst
<1>3. ~DbFault(o)
  BY DEF DbFault, Use, TypeOK
<1>4. \A p \in TaskIds : p # o => task'[p] = task[p]
  BY OtherTasksAfter
<1>5. /\ sandbox'[j].runBy = i /\ ~sandbox'[j].cancel /\ ~sandbox'[j].finish
      /\ \A p \in TaskIds : task'[p] \in Task
  BY NextTypes, TypeOf DEF Owes, Crashed, Done, TypeOK, Next
<1>6. ASSUME task'[o].at \in Steps \ {"none"}, ~sandbox'[j].start \/ task'[o].at \in StartedSteps
      PROVE  Kept(i, j)'
  BY <1>1, <1>2, <1>6 DEF Kept, TaskOf, StartedSteps
<1>7. ASSUME sandbox' = sandbox, task[o].at \notin StartedSteps, task'[o].at \in Steps \ {"none"}
      PROVE  Kept(i, j)'
  <2>1. \A p \in TaskIds : task[p].at # "none" => task'[p].at \in Steps \ {"none"}
    BY <1>4, <1>5, <1>7 DEF Task
  <2>2. \A p \in TaskIds : task[p].at \in StartedSteps => task'[p].at \in StartedSteps
    BY <1>4, <1>7
  <2> QED BY <1>1, <1>7, <2>1, <2>2, KeptAcross
<1>8. {"storeQueued", "rejected", "inQueue", "init", "storeDequeued", "storeRunning"} \cup StartedSteps
      \subseteq Steps \ {"none"}
  BY DEF Steps, PollerSteps, WorkerSteps, StartedSteps
<1>9. CASE QueueRefresh(o)
  <2>1. CASE QueueRefuses(i, sandbox[j])
    <3>1. sandbox' = sandbox /\ task[o].at = "candidate"
      BY <1>9 DEF QueueRefresh
    <3>2. sandbox[j].start
      BY <1>5, <2>1, <3>1 DEF QueueRefuses
    <3>3. Kept(i, j)
      BY <1>1, <3>1 DEF OwnedKept, Owes, Crashed, Done
    <3>4. PICK p \in TaskIds : Inst(p) = i /\ JobOf(p) = j /\ task[p].at \in StartedSteps
      BY <1>2, <3>2, <3>3 DEF Kept, TaskOf
    <3>5. task'[p] = task[p]
      BY <1>4, <3>1, <3>4 DEF StartedSteps
    <3> QED BY <1>1, <1>2, <1>8, <3>4, <3>5 DEF Kept, TaskOf
  <2>2. CASE ~QueueRefuses(i, sandbox[j])
    <3>1. task' = [task EXCEPT ![o].at = "storeQueued", ![o].val = [sandbox[j] EXCEPT !.status = "QUEUED"]]
      BY <1>9, <2>2 DEF QueueRefresh
    <3>2. task'[o].at = "storeQueued"
      BY <3>1, NewCopyAfter
    <3> QED BY <1>7, <1>8, <1>9, <3>2 DEF QueueRefresh, StartedSteps
  <2> QED BY <2>1, <2>2
<1>10. CASE QueueStore(o)
  <2>1. sandbox'[j] = task[o].val /\ ~task[o].val.start
    BY <1>1, <1>10 DEF TypeOK, QueueStore, Store, CopyFits
  <2>2. PICK step \in {"rejected", "inQueue", "init"} : Goto(o, step)
    BY <1>10 DEF QueueStore
  <2>3. task'[o].at = step
    BY <2>2, CopyAfter
  <2> QED BY <1>6, <1>8, <2>1, <2>3
<1>11. CASE DeQueueRefresh(o)
  <2>1. task' = [task EXCEPT ![o].at = "storeDequeued", ![o].val = Dequeued(sandbox[j])]
    BY <1>11 DEF DeQueueRefresh
  <2>2. task'[o].at = "storeDequeued"
    BY <2>1, NewCopyAfter
  <2> QED BY <1>7, <1>8, <1>11, <2>2 DEF DeQueueRefresh, StartedSteps
<1>12. CASE DeQueueStore(o)
  <2>1. sandbox'[j] = task[o].val /\ task[o].val.runBy = NoInstance
    BY <1>1, <1>12 DEF TypeOK, DeQueueStore, Store, CopyFits
  <2> QED BY <1>1, <1>5, <2>1
<1>13. CASE Take(o)
  <2>1. task'[o].at = "init"
    BY <1>13, CopyAfter DEF Take
  <2> QED BY <1>7, <1>8, <1>13, <2>1 DEF Take, StartedSteps
<1>14. CASE InitRefresh(o)
  <2>1. sandbox' = sandbox /\ task[o].at = "init"
    BY <1>14 DEF InitRefresh
  <2>2. ~InitRefuses(i, sandbox[j])
    BY <1>5, <2>1 DEF InitRefuses
  <2>3. task' = [task EXCEPT ![o].at = "storeRunning",
                             ![o].val = [sandbox[j] EXCEPT !.start = TRUE, !.status = "RUNNING"]]
    BY <1>14, <2>2 DEF InitRefresh
  <2>4. task'[o].at = "storeRunning"
    BY <2>3, NewCopyAfter
  <2> QED BY <1>7, <1>8, <2>1, <2>4 DEF StartedSteps
<1>15. CASE InitStore(o)
  <2>1. PICK step \in {"recur", "service"} :
          task' = [task EXCEPT ![o].at = step, ![o].val = CountRecurrence(task[o].val)]
    BY <1>15 DEF InitStore
  <2>2. task'[o].at = step
    BY <2>1, NewCopyAfter
  <2> QED BY <1>6, <1>8, <2>2 DEF StartedSteps
<1>16. CASE Recur(o) \/ FailAndRetry(o)
  <2>1. PICK step \in {"service", "storeFailed"} :
          Goto(o, step) \/ task' = [task EXCEPT ![o].at = step, ![o].next = TRUE]
    BY <1>16 DEF Recur, FailAndRetry
  <2>2. task'[o].at = step
    BY <2>1, CopyAfter
  <2> QED BY <1>6, <1>8, <2>2 DEF StartedSteps
<1>17. CASE Finish(o) \/ StoreFailed(o)
  <2>1. PICK s \in {"FINISHED", "FAILED"} : Store(j, [task[o].val EXCEPT !.status = s, !.finish = TRUE])
    BY <1>17 DEF Finish, StoreFailed, FailedRow
  <2>2. [task[o].val EXCEPT !.status = s, !.finish = TRUE].finish
    BY <1>1 DEF Row
  <2>3. sandbox'[j].finish
    BY <1>1, <2>1, <2>2 DEF TypeOK, Store
  <2> QED BY <1>5, <2>3
<1> QED BY <1>3, <1>9, <1>10, <1>11, <1>12, <1>13, <1>14, <1>15, <1>16, <1>17 DEF TaskNext

LEMMA TaskKeepsOwned ==
  ASSUME OwnedInv, NEW o \in TaskIds, TaskNext(o)
  PROVE  OwnedKept'
<1> SUFFICES ASSUME NEW i \in Instances, NEW j \in Jobs, used'.faults = 0, mode'[i] = "up", Owes(i, j)'
             PROVE  Kept(i, j)'
  BY DEF OwnedKept
<1> USE DEF OwnedInv
<1>1. mode[i] = "up" /\ reload'[i] = reload[i]
  BY TaskFrame
<1>2. used.faults = 0
  BY TaskFrame DEF DbFault, Use, TypeOK
<1>3. CASE i = Inst(o) /\ j = JobOf(o)
  BY <1>1, <1>2, <1>3, TaskKeepsOwn
<1>4. CASE ~(i = Inst(o) /\ j = JobOf(o))
  <2>1. sandbox'[j].runBy = i
    BY DEF Owes, Crashed
  <2>2. sandbox'[j] = sandbox[j]
    BY <1>4, <2>1, StoredOwner
  <2>3. \A p \in TaskIds : Inst(p) = i /\ JobOf(p) = j => task'[p] = task[p] /\ task[p].at \in Steps
    BY <1>4, OtherTasksAfter, TypeOf DEF Task
  <2> QED BY <1>1, <1>2, <2>2, <2>3, KeptAcross
<1> QED BY <1>3, <1>4

\* A reload: the rows it has not dealt with stay on its list.
LEMMA ReloadKeepsOwned ==
  ASSUME OwnedInv, NEW k \in Instances, ReloadNext(k)
  PROVE  OwnedKept'
<1> SUFFICES ASSUME NEW i \in Instances, NEW j \in Jobs, used'.faults = 0, mode'[i] = "up", Owes(i, j)'
             PROVE  Kept(i, j)'
  BY DEF OwnedKept
<1> USE DEF OwnedInv
<1>1. /\ ~reload[k].done /\ UNCHANGED <<task, mode>>
      /\ \A l \in Instances \ {k} : reload'[l] = reload[l]
  BY ReloadSteps
<1>2. used.faults = 0 /\ \A l \in Jobs : ~ReloadFault(k, l)
  BY DEF TypeOK, ReloadNext, ReloadQuery, ReloadMark, ReloadCreate, ReloadFault, Use
<1>3. \A o \in TaskIds : task[o].at \in Steps
  BY TypeOf DEF Task
<1>4. sandbox'[j] = sandbox[j]
  <2>1. CASE ReloadQuery(k)
    BY <2>1 DEF ReloadQuery
  <2>2. ASSUME NEW l \in Jobs, ReloadCreate(k, l) PROVE sandbox'[j] = sandbox[j]
    <3>1. CrashCopy(l, reload[k].vals[l]).runBy = NoInstance
      BY TypeOf DEF CrashCopy, Recurrence, Row
    <3>2. sandbox'[j] = sandbox[j] \/ sandbox'[j].runBy = NoInstance
      BY <2>2, <3>1 DEF TypeOK, ReloadCreate, Store
    <3> QED BY <3>2 DEF Owes, Crashed
  <2>3. CASE ReloadMark(k)
    <3> DEFINE row == [reload[k].vals[reload[k].half] EXCEPT !.status = "CRASHED", !.cancel = TRUE]
    <3>1. reload[k].half \in Jobs
      BY <2>3, TypeOf DEF ReloadMark
    <3>2. row.cancel
      <4>1. reload[k].vals[reload[k].half] \in Row
        BY <3>1, TypeOf
      <4> QED BY <4>1 DEF Row
    <3>3. Store(reload[k].half, row)
      BY <2>3 DEF ReloadMark
    <3> HIDE DEF row
    <3>4. sandbox'[j] = sandbox[j] \/ sandbox'[j].cancel
      BY <3>2, <3>3 DEF TypeOK, Store
    <3> QED BY <3>4 DEF Owes, Done
  <2> QED BY <1>2, <2>1, <2>2, <2>3 DEF ReloadNext
<1>5. CASE i # k
  BY <1>1, <1>2, <1>3, <1>4, <1>5, KeptAcross
<1>6. CASE i = k
  <2>1. Owes(i, j)
    BY <1>4 DEF Owes, Crashed, Done
  <2>2. CASE ReloadQuery(i)
    <3>1. used' = used
      BY <1>2, <2>2 DEF TypeOK, ReloadQuery, Use
    <3>2. j \in reload'[i].todo
      BY <2>1, <2>2, <3>1, ReloadQueryAfter DEF Owes
    <3>3. ~reload'[i].done
      BY <2>2, <3>2, ReloadQueryAfter
    <3> QED BY <3>2, <3>3 DEF Kept
  <2>3. ASSUME NEW l \in reload[i].todo, reload'[i].todo = reload[i].todo, reload'[i].done = reload[i].done
        PROVE  Kept(i, j)'
    BY <1>1, <1>2, <1>6, <2>1, <2>3 DEF OwnedKept, Kept
  <2>4. ASSUME ReloadMark(i), reload'[i] = AfterReloadOf(i, reload[i].half), reload[i].half \in reload[i].todo
        PROVE  Kept(i, j)'
    <3>1. j \in reload[i].todo
      BY <1>1, <1>2, <1>6, <2>1, <2>4 DEF OwnedKept, Kept
    <3>2. reload[i].half \in Jobs
      BY <2>4, TypeOf
    <3>3. j # reload[i].half
      <4> DEFINE row == [reload[i].vals[reload[i].half] EXCEPT !.status = "CRASHED", !.cancel = TRUE]
      <4>1. reload[i].vals[reload[i].half] \in Row
        BY <3>2, TypeOf
      <4>2. row.cancel
        BY <4>1 DEF Row
      <4>3. Store(reload[i].half, row)
        BY <2>4 DEF ReloadMark
      <4> HIDE DEF row
      <4>4. sandbox'[reload[i].half].cancel
        BY <3>2, <4>2, <4>3 DEF TypeOK, Store
      <4> QED BY <4>4 DEF Owes, Done
    <3>4. reload'[i].todo = reload[i].todo \ {reload[i].half} /\ ~reload'[i].done
      <4>1. reload[i].todo # {reload[i].half} /\ ~reload[i].done
        BY <1>1, <1>6, <3>1, <3>3
      <4>2. /\ AfterReloadOf(i, reload[i].half).todo = reload[i].todo \ {reload[i].half}
            /\ AfterReloadOf(i, reload[i].half).done = reload[i].done
        BY <3>2, <4>1, AfterReload
      <4> QED BY <2>4, <4>1, <4>2
    <3> QED BY <3>1, <3>3, <3>4 DEF Kept
  <2>5. \A l \in reload[i].todo : l \in Jobs
    BY TypeOf
  <2> QED BY <1>2, <1>6, <2>2, <2>3, <2>4, <2>5, ReloadSteps
<1> QED BY <1>5, <1>6

\* A poll has a Job object for every row it claims, and such a row has not
\* been started.
LEMMA PollKeepsOwned ==
  ASSUME OwnedInv, NEW k \in Instances, PollNext(k)
  PROVE  OwnedKept'
<1> SUFFICES ASSUME NEW i \in Instances, NEW j \in Jobs, used'.faults = 0, mode'[i] = "up", Owes(i, j)'
             PROVE  Kept(i, j)'
  BY DEF OwnedKept
<1> USE DEF OwnedInv
<1>1. UNCHANGED <<mode, reload, used>>
  BY DEF PollNext, PollSelect, PollClaim
<1>2. \A o \in TaskIds : task[o].at \in Steps
  BY TypeOf DEF Task
<1>3. CASE PollSelect(k)
  BY <1>1, <1>2, <1>3, KeptAcross DEF PollSelect
<1>4. ASSUME NEW claimed \in SUBSET poller[k].due, PollClaim(k, claimed)
      PROVE  Kept(i, j)'
  <2>1. \A o \in TaskIds : task[o].at # "none" => task'[o] = task[o]
    BY <1>4 DEF PollClaim, NewTaskId
  <2>2. CASE j \notin claimed
    <3>1. sandbox'[j] = sandbox[j]
      BY <1>4, <2>2 DEF PollClaim
    <3> QED BY <1>1, <1>2, <2>1, <3>1, KeptAcross
  <2>3. CASE j \in claimed
    <3>1. sandbox'[j] = [sandbox[j] EXCEPT !.runBy = k] /\ sandbox[j].runBy = NoInstance /\ Claimable(k, j)
      BY <1>4, <2>3 DEF PollClaim, Claimable
    <3>2. /\ sandbox'[j].runBy = k /\ sandbox'[j].start = sandbox[j].start /\ sandbox'[j].status = sandbox[j].status
          /\ sandbox'[j].finish = sandbox[j].finish /\ sandbox'[j].cancel = sandbox[j].cancel
      BY <3>1, TypeOf DEF Row
    <3>3. i = k
      BY <3>2 DEF Owes, Crashed
    <3>4. ~sandbox'[j].start
      <4>1. Pursued(sandbox[j])
        BY Versions DEF CopiesPursued
      <4> QED BY <3>1, <3>2, <4>1 DEF Pursued, Owes, Crashed, Done
    <3>5. PICK o \in TaskIds : NewTaskId(k, j, o)
      BY <3>1, FreshTaskId
    <3>6. task'[o].at = "candidate" /\ Inst(o) = k /\ JobOf(o) = j
      <4>1. \A n, m : [NoTask EXCEPT !.at = "candidate", !.maxRetry = n, !.retry = m].at = "candidate"
        BY DEF NoTask
      <4> QED BY <1>4, <2>3, <3>5, <4>1 DEF PollClaim, NewTaskId
    <3>7. reload'[k].done
      <4>1. Idle.at = "idle" /\ poller[k].at = "selected"
        BY <1>4 DEF PollClaim, Idle
      <4>2. poller[k] # Idle
        BY <4>1
      <4> QED BY <1>1, <4>2 DEF ReloadFirst
    <3>8. "candidate" \in Steps \ {"none"}
      BY DEF Steps, PollerSteps
    <3> QED BY <3>3, <3>4, <3>6, <3>7, <3>8 DEF Kept, TaskOf
  <2> QED BY <2>2, <2>3
<1> QED BY <1>3, <1>4 DEF PollNext

\* Shutdown and crash end what an instance owes until it is up again, and has
\* then a reload before it.
LEMMA LifeKeepsOwned ==
  ASSUME OwnedInv, NEW k \in Instances, InstanceNext(k)
  PROVE  OwnedKept'
<1> SUFFICES ASSUME NEW i \in Instances, NEW j \in Jobs, used'.faults = 0, mode'[i] = "up", Owes(i, j)'
             PROVE  Kept(i, j)'
  BY DEF OwnedKept
<1> USE DEF OwnedInv
<1>1. UNCHANGED sandbox /\ used'.faults = used.faults
  BY DEF InstanceNext, ShutDown, Crash, Exit, Die, Restart, AsyncQueue, AsyncTake, AsyncEnd, TypeOK, Use
<1>2. \A o \in TaskIds : task[o].at \in Steps
  BY TypeOf DEF Task
<1>3. CASE ShutDown(k)
  <2>1. i # k /\ mode[i] = "up" /\ reload'[i] = reload[i]
    BY <1>3 DEF ShutDown, TypeOK
  <2>2. \A o \in TaskIds : Inst(o) = i => task'[o] = task[o]
    BY <1>3, <2>1 DEF ShutDown, TasksAt
  <2> QED BY <1>1, <1>2, <2>1, <2>2, KeptAcross
<1>4. CASE Crash(k) \/ Exit(k)
  <2>1. i # k /\ mode[i] = "up" /\ reload'[i] = reload[i]
    BY <1>4 DEF Crash, Exit, Die, TypeOK
  <2>2. \A o \in TaskIds : Inst(o) = i => task'[o] = task[o]
    BY <1>4, <2>1 DEF Crash, Exit, Die
  <2> QED BY <1>1, <1>2, <2>1, <2>2, KeptAcross
<1>5. CASE Restart(k)
  <2>1. UNCHANGED <<reload, task>> /\ (i # k => mode[i] = "up")
    BY <1>5 DEF Restart, TypeOK
  <2>2. CASE i # k
    BY <1>1, <1>2, <2>1, <2>2, KeptAcross
  <2>3. CASE i = k
    <3>1. reload'[i] = NotReloaded
      BY <1>5, <2>1, <2>3 DEF Restart, ReloadFirst
    <3>2. ~NotReloaded.done /\ NotReloaded.todo = {}
      BY DEF NotReloaded
    <3> QED BY <3>1, <3>2 DEF Kept
  <2> QED BY <2>2, <2>3
<1>6. CASE AsyncQueue(k) \/ AsyncTake(k) \/ AsyncEnd(k)
  <2>1. UNCHANGED <<mode, reload, task>>
    BY <1>6 DEF AsyncQueue, AsyncTake, AsyncEnd
  <2> QED BY <1>1, <1>2, <2>1, KeptAcross
<1> QED BY <1>3, <1>4, <1>5, <1>6 DEF InstanceNext

\* A new row has no owner; an administrator leaves a row without owner, or
\* cancelled.
LEMMA AdminKeepsOwned ==
  ASSUME OwnedInv, AdminNext \/ \E t \in Templates : Schedule(t)
  PROVE  OwnedKept'
<1> SUFFICES ASSUME NEW i \in Instances, NEW j \in Jobs, used'.faults = 0, mode'[i] = "up", Owes(i, j)'
             PROVE  Kept(i, j)'
  BY DEF OwnedKept
<1> USE DEF OwnedInv
<1>1. UNCHANGED <<mode, reload, task>> /\ used'.faults = used.faults
  BY DEF AdminNext, AdminRead, CancelStore, ResetStore, CancelRetriesStore, Schedule, TypeOK, Use
<1>2. \A o \in TaskIds : task[o].at \in Steps
  BY TypeOf DEF Task
<1>3. ASSUME NEW k, NEW row, Store(k, row), row.runBy = NoInstance \/ row.cancel
      PROVE  sandbox'[j] = sandbox[j]
  BY <1>3 DEF TypeOK, Store, Owes, Crashed, Done
<1>4. sandbox'[j] = sandbox[j]
  <2>1. ASSUME NEW t \in Templates, Schedule(t) PROVE sandbox'[j] = sandbox[j]
    <3>1. PICK k \in Jobs : Store(k, Scheduled(t))
      BY <2>1 DEF Schedule, Scheduled
    <3>2. Scheduled(t).runBy = NoInstance
      BY DEF Scheduled, AbsentRow
    <3> QED BY <1>3, <3>1, <3>2
  <2>2. CASE \E kind \in AdminKinds, k \in Jobs : AdminRead(kind, k)
    BY <2>2 DEF AdminRead
  <2>3. admin.kind # "none" => admin.val \in Row
    BY AdminCallType
  <2>4. CASE CancelStore
    <3>1. [admin.val EXCEPT !.status = "CANCELLED", !.cancel = TRUE].cancel
      BY <2>3, <2>4 DEF CancelStore, Row
    <3> QED BY <1>3, <2>4, <3>1 DEF CancelStore
  <2>5. CASE ResetStore
    <3>1. [admin.val EXCEPT !.status = "PENDING", !.start = FALSE, !.finish = FALSE,
                            !.cancel = FALSE, !.runBy = NoInstance].runBy = NoInstance
      BY <2>3, <2>5 DEF ResetStore, Row
    <3> QED BY <1>3, <2>5, <3>1 DEF ResetStore
  <2>6. CASE CancelRetriesStore
    <3>1. admin.val.cancel => [admin.val EXCEPT !.maxRetry = 0].cancel
      BY <2>3, <2>6 DEF CancelRetriesStore, Row
    <3> QED BY <1>3, <2>6, <3>1 DEF CancelRetriesStore
  <2> QED BY <2>1, <2>2, <2>4, <2>5, <2>6 DEF AdminNext
<1> QED BY <1>1, <1>2, <1>4, KeptAcross

LEMMA NextOwnedInv ==
  ASSUME OwnedInv, [Next]_vars
  PROVE  OwnedInv'
<1>1. TypeOK' /\ CopiesPursued' /\ CopiesFit' /\ ReloadFirst'
  BY NextTypes, NextPursued, NextCopiesFit, NextReloadFirst DEF OwnedInv
<1>2. OwnedKept'
  <2>1. ASSUME NEW o \in TaskIds, TaskNext(o) PROVE OwnedKept'
    BY <2>1, TaskKeepsOwned
  <2>2. ASSUME NEW i \in Instances, ReloadNext(i) \/ PollNext(i) \/ InstanceNext(i) PROVE OwnedKept'
    BY <2>2, ReloadKeepsOwned, PollKeepsOwned, LifeKeepsOwned
  <2>3. CASE AdminNext \/ \E t \in Templates : Schedule(t)
    BY <2>3, AdminKeepsOwned
  <2>4. CASE UNCHANGED vars
    BY <2>4 DEF OwnedInv, OwnedKept, vars, Owes, Crashed, Done, Kept, TaskOf
  <2> QED BY <2>1, <2>2, <2>3, <2>4 DEF Next
<1> QED BY <1>1, <1>2 DEF OwnedInv

LEMMA InitOwnedInv ==
  ASSUME Init
  PROVE  OwnedInv
<1>1. OwnedKept
  BY DEF Init, OwnedKept, Owes, Crashed, AbsentRow
<1> QED BY <1>1, InitTypes, InitPursued, InitCopiesFit, InitReloadFirst DEF OwnedInv

\* Without database errors an instance that is up and has reloaded its crashed
\* jobs has a Job object for every unfinished row that names it: the claim,
\* the refusals in queue() and init(), the way back through deQueue, the
\* shutdown and the reload leave no row waiting for the next restart.
THEOREM OwnedRowsHeld == Spec => []OwnedRowsAreHeld
<1>1. Init => OwnedInv
  BY InitOwnedInv
<1>2. OwnedInv /\ [Next]_vars => OwnedInv'
  BY NextOwnedInv
<1>3. OwnedInv => OwnedRowsAreHeld
  <2> SUFFICES ASSUME OwnedInv, NEW i \in Instances, NEW j \in Jobs, used.faults = 0, mode[i] = "up",
                      reload[i].done, Crashed(i, j), ~Done(j)
               PROVE  HoldsTask(i, j)
    BY DEF OwnedRowsAreHeld
  <2>1. PICK o \in TaskIds : Inst(o) = i /\ JobOf(o) = j /\ task[o].at # "none"
    BY DEF OwnedInv, OwnedKept, Owes, Kept, TaskOf
  <2>2. o = <<i, j, o[3]>> /\ o[3] \in Copies
    BY <2>1 DEF TaskIds, Inst, JobOf
  <2> QED BY <2>1, <2>2 DEF HoldsTask
<1> QED BY <1>1, <1>2, <1>3, PTL DEF Spec

=============================================================================
