---------------------------- MODULE JobScheduler ----------------------------
(***************************************************************************)
(* The persisted job scheduler of the service engine: the JobSandbox table *)
(* shared by several server instances, the JobPoller thread and the worker *)
(* pool of each instance, and the services that cancel and reset jobs.     *)
(*                                                                         *)
(* Sources (framework/service/src/com/hanlin/fadp/service):                *)
(*   job/JobManager.java, job/JobPoller.java, job/PersistedServiceJob.java,*)
(*   job/GenericServiceJob.java, job/AbstractJob.java, ServiceUtil.java,   *)
(*   engine/GenericAsyncEngine.java.                                       *)
(*                                                                         *)
(* One action is one database transaction (every GenericValue.store or     *)
(* create runs in a transaction of its own when its caller has none) or    *)
(* one hand-over inside a JVM.  A PersistedServiceJob keeps a copy of its  *)
(* row, read by refresh() and written back whole by a later store(), so    *)
(* refresh and store are separate actions and the copy may be stale.       *)
(*                                                                         *)
(* A row's runTime is abstracted to "may be due": a poll sees any set of   *)
(* the rows that satisfy the other conditions of its query.                *)
(***************************************************************************)
EXTENDS Integers, FiniteSets

CONSTANTS
  Instances,     \* the server instances (unique.instanceId)
  NoInstance,    \* runByInstanceId = null
  Jobs,          \* the primary keys available to JobSandbox rows
  NoJob,         \* previousJobId / parentJobId = null
  Copies,        \* how many Job objects of one row one instance can hold
  Templates,     \* the jobs that are scheduled: records of the set Template
  AdminKinds,    \* the administrative services that are called
  QueueSize,     \* capacity of the executor's queue (thread-pool "jobs")
  MaxThreads,    \* thread-pool "max-threads"
  MaxAsync,      \* bound: in-memory (not persisted) jobs of an instance
  MaxScheduled,  \* bound: calls of schedule
  MaxDeaths,     \* bound: processes that crash or are shut down
  MaxFaults,     \* bound: database operations that fail
  MaxAdminOps    \* bound: administrative calls

-----------------------------------------------------------------------------
(* Types *)

Null == -1       \* a null number

\* What schedule and runAsync persist about a job: whether it has a
\* recurrence, how many recurrences and retries it may have (-1: no limit),
\* and the retry counter, which runAsync leaves null.
Template == [recurs : BOOLEAN, maxRecur : Int, maxRetry : Int, retry : {0, Null}]

Statuses == {"PENDING", "QUEUED", "RUNNING", "FINISHED", "FAILED", "CANCELLED", "CRASHED"}

\* A JobSandbox row; the three date columns are kept as "is not null".
Row == [status : Statuses \cup {"ABSENT"}, start : BOOLEAN, finish : BOOLEAN, cancel : BOOLEAN,
        runBy : Instances \cup {NoInstance}, recurs : BOOLEAN, maxRecur : Int, curRecur : Int,
        maxRetry : Int, retry : Int, parent : Jobs \cup {NoJob}, prev : Jobs \cup {NoJob}]

AbsentRow ==
  [status |-> "ABSENT", start |-> FALSE, finish |-> FALSE, cancel |-> FALSE, runBy |-> NoInstance,
   recurs |-> FALSE, maxRecur |-> Null, curRecur |-> 0, maxRetry |-> Null, retry |-> Null,
   parent |-> NoJob, prev |-> NoJob]

\* What a Job object does next.  The states of AbstractJob are CREATED for
\* "candidate", QUEUED up to "inQueue", RUNNING from "init" on.
WorkerSteps == {"init", "storeRunning", "recur", "service", "storeFailed"}
PollerSteps == {"candidate", "storeQueued", "rejected", "storeDequeued"}
Steps == {"none", "inQueue", "drained"} \cup WorkerSteps \cup PollerSteps

\* A PersistedServiceJob: its step, its copy of the row (jobValue), the two
\* counters its constructor fixes, and whether nextRecurrence is set.
Task == [at : Steps, val : Row, maxRetry : Int, retry : Int, next : BOOLEAN]
NoTask == [at |-> "none", val |-> AbsentRow, maxRetry |-> Null, retry |-> 0, next |-> FALSE]

\* Job objects are named by the instance that holds them, their row, and a
\* number that tells two objects of the same row apart.
TaskIds == Instances \X Jobs \X Copies
Inst(o) == o[1]
JobOf(o) == o[2]

Kinds == {"cancel", "reset", "cancelRetries"}
Polling == [at : {"idle"}, due : {{}}, limit : {0}]
           \cup [at : {"selected"}, due : SUBSET Jobs, limit : 1..QueueSize]
Idle == [at |-> "idle", due |-> {}, limit |-> 0]
Reloading == [todo : SUBSET Jobs, half : Jobs \cup {NoJob}, vals : [Jobs -> Row], done : BOOLEAN]
NotReloaded == [todo |-> {}, half |-> NoJob, vals |-> [j \in Jobs |-> AbsentRow], done |-> FALSE]
Reloaded == [NotReloaded EXCEPT !.done = TRUE]
NoAsync == [queued |-> 0, running |-> 0]
NoCall == [kind |-> "none", job |-> NoJob, val |-> AbsentRow]

ASSUME InstancesAssumption == /\ IsFiniteSet(Instances) /\ Instances # {}
                              /\ NoInstance \notin Instances
ASSUME JobsAssumption == Jobs \subseteq Nat /\ IsFiniteSet(Jobs) /\ NoJob \notin Jobs
ASSUME CopiesAssumption == Copies \subseteq Nat /\ IsFiniteSet(Copies) /\ Copies # {}
ASSUME TemplatesAssumption == Templates \subseteq Template /\ AdminKinds \subseteq Kinds
ASSUME BoundsAssumption ==
  /\ QueueSize \in Nat \ {0} /\ MaxThreads \in Nat \ {0}
  /\ \A n \in {MaxAsync, MaxScheduled, MaxDeaths, MaxFaults, MaxAdminOps} : n \in Nat

VARIABLES
  sandbox,   \* the JobSandbox table
  mode,      \* per instance: "up", "stopping" (JobManager.isShutDown) or "down"
  poller,    \* per instance: the poll under way
  reload,    \* per instance: reloadCrashedJobs under way, and crashedJobsReloaded
  task,      \* the Job objects in memory
  async,     \* per instance: in-memory jobs in the executor's queue and in its threads
  admin,     \* the administrative service call under way
  used,      \* the calls of schedule, deaths, faults and administrative calls so far
  runs,      \* history: how often the service of a row has been started
  acked,     \* history: what a committed cancel of the row may promise
  recovered  \* history: the rows that reloadCrashedJobs has created, as copies of others

vars == <<sandbox, mode, poller, reload, task, async, admin, used, runs, acked, recovered>>
history == <<runs, acked, recovered>>

-----------------------------------------------------------------------------
(* State functions *)

Exists(j) == sandbox[j].status # "ABSENT"
Done(j) == sandbox[j].finish \/ sandbox[j].cancel

\* The conditions of the query in poll, without the run time and the pool.
Pollable(j) == /\ Exists(j)
               /\ ~sandbox[j].start
               /\ ~sandbox[j].cancel
               /\ sandbox[j].runBy = NoInstance

\* The query of reloadCrashedJobs.
Crashed_NotPending(i, j) == /\ sandbox[j].runBy = i
                            /\ sandbox[j].status \in {"QUEUED", "RUNNING"}
Crashed(i, j) == /\ sandbox[j].runBy = i
                 /\ sandbox[j].status \in {"PENDING", "QUEUED", "RUNNING"}

TasksAt(i, steps) == {o \in TaskIds : Inst(o) = i /\ task[o].at \in steps}
HoldsTask(i, j) == \E c \in Copies : task[<<i, j, c>>].at # "none"

QueueRoom_CountsOneTooMany(i) == QueueSize + 1 - async[i].queued - Cardinality(TasksAt(i, {"inQueue"}))
QueueRoom(i) == QueueSize - async[i].queued - Cardinality(TasksAt(i, {"inQueue"}))
FreeThread(i) == async[i].running + Cardinality(TasksAt(i, WorkerSteps)) < MaxThreads

\* A Job object of the row is past refresh() and its checks, and writes the
\* copy it has read back later; its service has not started yet.
StaleSteps == {"storeQueued", "storeDequeued", "storeRunning", "recur"}
StaleWriter(j) == \E o \in TaskIds : JobOf(o) = j /\ task[o].at \in StaleSteps

\* createSetNextSeqId takes the next free primary key.
NextFree(j) == ~Exists(j) /\ \A k \in Jobs : k < j => Exists(k)

\* The root of the chain of a row: parentJobId, or the row's own id.
RootOf(j, row) == IF row.parent = NoJob THEN j ELSE row.parent

\* getRetries: only for rows whose currentRetryCount is null.
Retries(j) ==
  IF sandbox[j].retry # Null THEN sandbox[j].retry
  ELSE IF sandbox[j].parent = NoJob THEN 0
  ELSE 1 + Cardinality({k \in Jobs : sandbox[k].parent = sandbox[j].parent /\ sandbox[k].status = "FAILED"})

\* canRetry
CanRetry_OneMore(t) == t.maxRetry = -1 \/ t.retry <= t.maxRetry
CanRetry(t) == t.maxRetry = -1 \/ t.retry < t.maxRetry

\* failed() makes a retry only if no next occurrence has been created.
RetryDue_Always(t) == CanRetry(t)
RetryDue(t) == ~t.next /\ CanRetry(t)

\* The checks of queue() and of init() on the refreshed row.
QueueRefuses(i, row) == row.runBy # i \/ row.cancel \/ row.start
InitRefuses_NotCancelled(i, row) == row.runBy # i
InitRefuses(i, row) == row.runBy # i \/ row.cancel

\* The row that deQueue stores.
Dequeued_KeepsOwner(row) == [row EXCEPT !.start = FALSE, !.status = "PENDING"]
Dequeued(row) == [row EXCEPT !.start = FALSE, !.runBy = NoInstance, !.status = "PENDING"]

\* The row that createRecurrence makes out of the copy "row" of job j.
Recurrence(j, row, retry) ==
  [row EXCEPT !.prev = j, !.parent = RootOf(j, row), !.status = "PENDING", !.start = FALSE,
              !.runBy = NoInstance, !.retry = retry]

\* The row that reloadCrashedJobs makes: the retry counter is kept.
CrashCopy_KeepsOwner(j, row) == [Recurrence(j, row, row.retry) EXCEPT !.runBy = row.runBy]
CrashCopy(j, row) == Recurrence(j, row, row.retry)

Goto(o, step) == task' = [task EXCEPT ![o].at = step]
Drop(o) == task' = [task EXCEPT ![o] = NoTask]
Store(j, row) == sandbox' = [sandbox EXCEPT ![j] = row]
Use(counter) == used' = [used EXCEPT ![counter] = @ + 1]

Init ==
  /\ sandbox = [j \in Jobs |-> AbsentRow]
  /\ mode = [i \in Instances |-> "up"]
  /\ poller = [i \in Instances |-> Idle]
  /\ reload = [i \in Instances |-> NotReloaded]
  /\ task = [o \in TaskIds |-> NoTask]
  /\ async = [i \in Instances |-> NoAsync]
  /\ admin = NoCall
  /\ used = [scheduled |-> 0, deaths |-> 0, faults |-> 0, calls |-> 0]
  /\ runs = [j \in Jobs |-> 0]
  /\ acked = [j \in Jobs |-> "no"]
  /\ recovered = {}

-----------------------------------------------------------------------------
(* Scheduling: JobManager.schedule and a persisted runAsync *)

Schedule(t) ==
  /\ used.scheduled < MaxScheduled
  /\ \E i \in Instances : mode[i] = "up"
  /\ \E j \in Jobs :
       /\ NextFree(j)
       /\ Store(j, [AbsentRow EXCEPT !.status = "PENDING", !.recurs = t.recurs,
                                     !.maxRecur = t.maxRecur, !.curRecur = 0,
                                     !.maxRetry = t.maxRetry, !.retry = t.retry])
  /\ Use("scheduled")
  /\ UNCHANGED <<mode, poller, reload, task, async, admin, history>>

\* A runAsync that is not persisted hands its job straight to the executor,
\* which queues it, or starts a thread for it.
AsyncQueue(i) ==
  /\ mode[i] = "up" /\ async[i].queued + async[i].running < MaxAsync
  /\ \/ QueueRoom(i) > 0 /\ async' = [async EXCEPT ![i].queued = @ + 1]
     \/ QueueRoom(i) <= 0 /\ FreeThread(i) /\ async' = [async EXCEPT ![i].running = @ + 1]
  /\ UNCHANGED <<sandbox, mode, poller, reload, task, admin, used, history>>

\* A worker takes such a job; what its service does is of no concern here.
AsyncTake(i) ==
  /\ async[i].queued > 0 /\ FreeThread(i)
  /\ async' = [async EXCEPT ![i] = [queued |-> @.queued - 1, running |-> @.running + 1]]
  /\ UNCHANGED <<sandbox, mode, poller, reload, task, admin, used, history>>

AsyncEnd(i) ==
  /\ async[i].running > 0
  /\ async' = [async EXCEPT ![i].running = @ - 1]
  /\ UNCHANGED <<sandbox, mode, poller, reload, task, admin, used, history>>

-----------------------------------------------------------------------------
(* The poller thread: JobManagerPoller.run, reloadCrashedJobs, poll *)

\* The poller is at the top of its loop.
PollerFree(i) == /\ mode[i] = "up"
                 /\ poller[i] = Idle
                 /\ TasksAt(i, PollerSteps) = {}

\* reloadCrashedJobs reads the rows to recover.  When the query fails it
\* goes on as if there were none, and sets crashedJobsReloaded all the same.
ReloadQuery(i) ==
  /\ PollerFree(i) /\ ~reload[i].done /\ reload[i].todo = {}
  /\ LET found == {j \in Jobs : Crashed(i, j)} IN
       \/ /\ reload' = [reload EXCEPT ![i] =
                          IF found = {} THEN Reloaded
                          ELSE [NotReloaded EXCEPT !.todo = found,
                                  !.vals = [j \in Jobs |-> IF j \in found THEN sandbox[j] ELSE AbsentRow]]]
          /\ UNCHANGED used
       \/ /\ found # {} /\ used.faults < MaxFaults
          /\ reload' = [reload EXCEPT ![i] = Reloaded]
          /\ Use("faults")
  /\ UNCHANGED <<sandbox, mode, poller, task, async, admin, history>>

\* The copy is created in one transaction ...
ReloadCreate(i, j) ==
  /\ mode[i] # "down" /\ j \in reload[i].todo /\ reload[i].half = NoJob
  /\ \E k \in Jobs : /\ NextFree(k) /\ Store(k, CrashCopy(j, reload[i].vals[j]))
                    /\ recovered' = recovered \cup {k}
  /\ reload' = [reload EXCEPT ![i].half = j]
  /\ UNCHANGED <<mode, poller, task, async, admin, used, runs, acked>>

\* What is left of the reload once job j has been dealt with.
AfterReloadOf(i, j) ==
  IF reload[i].todo = {j} THEN Reloaded
  ELSE [reload[i] EXCEPT !.todo = @ \ {j}, !.half = NoJob, !.vals[j] = AbsentRow]

\* ... and the old row is marked in another.
ReloadMark(i) ==
  /\ mode[i] # "down" /\ reload[i].half # NoJob
  /\ LET j == reload[i].half IN
       /\ Store(j, [reload[i].vals[j] EXCEPT !.status = "CRASHED", !.cancel = TRUE])
       /\ reload' = [reload EXCEPT ![i] = AfterReloadOf(i, j)]
  /\ UNCHANGED <<mode, poller, task, async, admin, used, history>>

\* Either transaction may fail; the row is then skipped.
ReloadFault(i, j) ==
  /\ used.faults < MaxFaults /\ mode[i] # "down"
  /\ j \in reload[i].todo /\ reload[i].half \in {NoJob, j}
  /\ reload' = [reload EXCEPT ![i] = AfterReloadOf(i, j)]
  /\ Use("faults")
  /\ UNCHANGED <<sandbox, mode, poller, task, async, admin, history>>

\* poll: the rows that are due are read, at most remainingCapacity of them
\* will be kept.  A poll that finds nothing leaves the poller where it was.
PollSelect(i) ==
  /\ PollerFree(i) /\ reload[i].done /\ QueueRoom(i) > 0
  /\ \E due \in SUBSET {j \in Jobs : Pollable(j)} :
       poller' = [poller EXCEPT ![i] =
                    IF due = {} THEN Idle
                    ELSE [at |-> "selected", due |-> due, limit |-> QueueRoom(i)]]
  /\ UNCHANGED <<sandbox, mode, reload, task, async, admin, used, history>>

\* The Job object gets the first of the names that are free.
NewTaskId(i, j, o) == /\ o \in TaskIds /\ Inst(o) = i /\ JobOf(o) = j
                      /\ task[o].at = "none"
                      /\ \A c \in Copies : c < o[3] => task[<<i, j, c>>].at # "none"

\* The condition of the storeByCondition that claims row j.
Claimable_Unchecked(i, j) == \E c \in Copies : task[<<i, j, c>>].at = "none"
Claimable(i, j) == /\ sandbox[j].runBy = NoInstance
                   /\ \E c \in Copies : task[<<i, j, c>>].at = "none"

\* Each row is claimed where runByInstanceId is still null, all claims of
\* one poll commit together.  A row that another instance has claimed
\* updates no row; an exception rolls every claim back (claimed = {}).
PollClaim(i, claimed) ==
  /\ mode[i] # "down" /\ poller[i].at = "selected"
  /\ claimed \subseteq {j \in poller[i].due : Claimable(i, j)}
  /\ Cardinality(claimed) <= poller[i].limit
  /\ sandbox' = [j \in Jobs |-> IF j \in claimed THEN [sandbox[j] EXCEPT !.runBy = i] ELSE sandbox[j]]
  /\ task' = [o \in TaskIds |->
                IF JobOf(o) \in claimed /\ NewTaskId(i, JobOf(o), o)
                THEN [NoTask EXCEPT !.at = "candidate", !.maxRetry = sandbox[JobOf(o)].maxRetry,
                                    !.retry = Retries(JobOf(o))]
                ELSE task[o]]
  /\ poller' = [poller EXCEPT ![i] = Idle]
  /\ UNCHANGED <<mode, reload, async, admin, used, history>>

\* PersistedServiceJob.queue, first half: refresh and check the row.  The
\* poller queues one candidate after the other.
QueueRefresh(o) ==
  LET row == sandbox[JobOf(o)] IN
  /\ task[o].at = "candidate"
  /\ TasksAt(Inst(o), {"storeQueued", "rejected"}) = {}
  /\ IF QueueRefuses(Inst(o), row)
     THEN Drop(o)
     ELSE task' = [task EXCEPT ![o].at = "storeQueued", ![o].val = [row EXCEPT !.status = "QUEUED"]]
  /\ UNCHANGED <<sandbox, mode, poller, reload, async, admin, used, history>>

\* Second half, and queueNow: the row is stored and the executor accepts
\* the job, starts a thread for it, or rejects it (AbortPolicy, or shut down).
QueueStore(o) ==
  LET i == Inst(o) IN
  /\ task[o].at = "storeQueued"
  /\ Store(JobOf(o), task[o].val)
  /\ Goto(o, IF mode[i] # "up" THEN "rejected"
             ELSE IF QueueRoom(i) > 0 THEN "inQueue"
             ELSE IF FreeThread(i) THEN "init"
             ELSE "rejected")
  /\ UNCHANGED <<mode, poller, reload, async, admin, used, history>>

\* PersistedServiceJob.deQueue, by queueNow or by JobPoller.stop.
DeQueueRefresh(o) ==
  /\ task[o].at \in {"rejected", "drained"}
  /\ task' = [task EXCEPT ![o].at = "storeDequeued", ![o].val = Dequeued(sandbox[JobOf(o)])]
  /\ UNCHANGED <<sandbox, mode, poller, reload, async, admin, used, history>>

DeQueueStore(o) ==
  /\ task[o].at = "storeDequeued"
  /\ Store(JobOf(o), task[o].val)
  /\ Drop(o)
  /\ UNCHANGED <<mode, poller, reload, async, admin, used, history>>

-----------------------------------------------------------------------------
(* The worker threads: GenericServiceJob.exec *)

Take(o) ==
  /\ task[o].at = "inQueue" /\ FreeThread(Inst(o))
  /\ Goto(o, "init")
  /\ UNCHANGED <<sandbox, mode, poller, reload, async, admin, used, history>>

\* PersistedServiceJob.init: refresh and check the row, ...
InitRefresh(o) ==
  LET row == sandbox[JobOf(o)] IN
  /\ task[o].at = "init"
  /\ IF InitRefuses(Inst(o), row)
     THEN Drop(o)
     ELSE task' = [task EXCEPT ![o].at = "storeRunning",
                               ![o].val = [row EXCEPT !.start = TRUE, !.status = "RUNNING"]]
  /\ UNCHANGED <<sandbox, mode, poller, reload, async, admin, used, history>>

\* The copy counts its recurrences, in memory only.
CountRecurrence_Forgets(row) == row
CountRecurrence(row) == IF row.maxRecur = -1 THEN row ELSE [row EXCEPT !.curRecur = @ + 1]
MayRecur(row) == row.recurs /\ (row.maxRecur = -1 \/ row.curRecur <= row.maxRecur)

\* ... store it, count the recurrence; the service follows when there is no
\* recurrence to create.
InitStore(o) ==
  LET j == JobOf(o)
      row == CountRecurrence(task[o].val) IN
  /\ task[o].at = "storeRunning"
  /\ Store(j, task[o].val)
  /\ task' = [task EXCEPT ![o].at = IF MayRecur(row) THEN "recur" ELSE "service", ![o].val = row]
  /\ runs' = IF MayRecur(row) THEN runs ELSE [runs EXCEPT ![j] = @ + 1]
  /\ UNCHANGED <<mode, poller, reload, async, admin, used, acked, recovered>>

\* The next occurrence is created before the service runs, unless the
\* recurrence has no further date.
Recur(o) ==
  LET j == JobOf(o) IN
  /\ task[o].at = "recur"
  /\ \/ /\ \E k \in Jobs : NextFree(k) /\ Store(k, Recurrence(j, task[o].val, 0))
        /\ task' = [task EXCEPT ![o].at = "service", ![o].next = TRUE]
     \/ /\ Goto(o, "service")
        /\ UNCHANGED sandbox
  /\ runs' = [runs EXCEPT ![j] = @ + 1]
  /\ UNCHANGED <<mode, poller, reload, async, admin, used, acked, recovered>>

\* runSync returned without an error: finish stores the copy.
Finish(o) ==
  /\ task[o].at = "service"
  /\ Store(JobOf(o), [task[o].val EXCEPT !.status = "FINISHED", !.finish = TRUE])
  /\ Drop(o)
  /\ UNCHANGED <<mode, poller, reload, async, admin, used, history>>

FailedRow(o) == [task[o].val EXCEPT !.status = "FAILED", !.finish = TRUE]

\* runSync failed: failed() creates the retry first, if there is one to make ...
FailAndRetry(o) ==
  LET j == JobOf(o) IN
  /\ task[o].at = "service" /\ RetryDue(task[o])
  /\ \E k \in Jobs : NextFree(k) /\ Store(k, Recurrence(j, task[o].val, task[o].retry + 1))
  /\ task' = [task EXCEPT ![o].at = "storeFailed", ![o].next = TRUE]
  /\ UNCHANGED <<mode, poller, reload, async, admin, used, history>>

\* ... and stores the copy of its own row.
StoreFailed(o) ==
  /\ \/ task[o].at = "storeFailed"
     \/ task[o].at = "service" /\ ~RetryDue(task[o])
  /\ Store(JobOf(o), FailedRow(o))
  /\ Drop(o)
  /\ UNCHANGED <<mode, poller, reload, async, admin, used, history>>

\* A database operation of a Job object fails.  In queue, init and deQueue
\* the InvalidJobException ends the object; finish and failed log it and
\* end; a retry that cannot be created is given up.
DbFault(o) ==
  /\ used.faults < MaxFaults
  /\ task[o].at \notin {"none", "inQueue"}
  /\ IF task[o].at = "service" /\ RetryDue(task[o])
     THEN Goto(o, "storeFailed") \/ Drop(o)
     ELSE Drop(o)
  /\ Use("faults")
  /\ UNCHANGED <<sandbox, mode, poller, reload, async, admin, history>>

-----------------------------------------------------------------------------
(* Life of an instance *)

\* JobManager.shutDown and JobPoller.stop: the queue is drained, its
\* persisted jobs are dequeued, the others are lost.
ShutDown(i) ==
  /\ mode[i] = "up" /\ used.deaths < MaxDeaths
  /\ mode' = [mode EXCEPT ![i] = "stopping"]
  /\ task' = [o \in TaskIds |-> IF o \in TasksAt(i, {"inQueue"}) THEN [task[o] EXCEPT !.at = "drained"]
                                ELSE task[o]]
  /\ async' = [async EXCEPT ![i].queued = 0]
  /\ Use("deaths")
  /\ UNCHANGED <<sandbox, poller, reload, admin, history>>

\* The process ends; what was in memory is gone.
Die(i) ==
  /\ mode' = [mode EXCEPT ![i] = "down"]
  /\ task' = [o \in TaskIds |-> IF Inst(o) = i THEN NoTask ELSE task[o]]
  /\ poller' = [poller EXCEPT ![i] = Idle]
  /\ reload' = [reload EXCEPT ![i] = NotReloaded]
  /\ async' = [async EXCEPT ![i] = NoAsync]
  /\ UNCHANGED <<sandbox, admin, history>>

Crash(i) == mode[i] = "up" /\ used.deaths < MaxDeaths /\ Use("deaths") /\ Die(i)

\* The exit at the end of a shutdown, which does not wait for the workers.
Exit(i) == mode[i] = "stopping" /\ UNCHANGED used /\ Die(i)

Restart(i) ==
  /\ mode[i] = "down"
  /\ mode' = [mode EXCEPT ![i] = "up"]
  /\ UNCHANGED <<sandbox, poller, reload, task, async, admin, used, history>>

-----------------------------------------------------------------------------
(* The administrative services cancelJob, resetJob and cancelJobRetries.   *)
(* Each reads the row, changes its copy and stores it whole.               *)

AdminRead(kind, j) ==
  /\ admin = NoCall /\ Exists(j) /\ used.calls < MaxAdminOps
  /\ admin' = [kind |-> kind, job |-> j, val |-> sandbox[j]]
  /\ Use("calls")
  /\ UNCHANGED <<sandbox, mode, poller, reload, task, async, history>>

CancelStore ==
  LET j == admin.job IN
  /\ admin.kind = "cancel"
  /\ Store(j, [admin.val EXCEPT !.status = "CANCELLED", !.cancel = TRUE])
  /\ acked' = IF runs[j] > 0 THEN acked
              ELSE [acked EXCEPT ![j] = IF StaleWriter(j) THEN "open" ELSE "firm"]
  /\ admin' = NoCall
  /\ UNCHANGED <<mode, poller, reload, task, async, used, runs, recovered>>

ResetStore ==
  LET j == admin.job IN
  /\ admin.kind = "reset"
  /\ Store(j, [admin.val EXCEPT !.status = "PENDING", !.start = FALSE, !.finish = FALSE,
                                !.cancel = FALSE, !.runBy = NoInstance])
  /\ acked' = [acked EXCEPT ![j] = "no"]
  /\ admin' = NoCall
  /\ UNCHANGED <<mode, poller, reload, task, async, used, runs, recovered>>

\* cancelJobRetries answers with an error unless the row is cancelled, and
\* an error makes runSync roll its transaction back.
CancelRetriesStore ==
  /\ admin.kind = "cancelRetries"
  /\ IF admin.val.cancel THEN Store(admin.job, [admin.val EXCEPT !.maxRetry = 0])
                         ELSE UNCHANGED sandbox
  /\ admin' = NoCall
  /\ UNCHANGED <<mode, poller, reload, task, async, used, history>>

-----------------------------------------------------------------------------

ReloadNext(i) == \/ ReloadQuery(i) \/ ReloadMark(i)
                 \/ \E j \in Jobs : ReloadCreate(i, j) \/ ReloadFault(i, j)

PollNext(i) == PollSelect(i) \/ \E claimed \in SUBSET poller[i].due : PollClaim(i, claimed)

TaskNext(o) == \/ QueueRefresh(o) \/ QueueStore(o) \/ DeQueueRefresh(o) \/ DeQueueStore(o)
               \/ Take(o) \/ InitRefresh(o) \/ InitStore(o) \/ Recur(o)
               \/ Finish(o) \/ FailAndRetry(o) \/ StoreFailed(o) \/ DbFault(o)

InstanceNext(i) == ShutDown(i) \/ Crash(i) \/ Exit(i) \/ Restart(i) \/ AsyncQueue(i) \/ AsyncTake(i) \/ AsyncEnd(i)

AdminNext == \/ \E kind \in AdminKinds, j \in Jobs : AdminRead(kind, j)
             \/ CancelStore \/ ResetStore \/ CancelRetriesStore

Next == \/ \E t \in Templates : Schedule(t)
        \/ \E i \in Instances : ReloadNext(i) \/ PollNext(i) \/ InstanceNext(i)
        \/ \E o \in TaskIds : TaskNext(o)
        \/ AdminNext

Spec == Init /\ [][Next]_vars

\* Fairness, per instance: the process that is down is started again, one
\* that is stopping exits, the poller thread and the pool of workers each go
\* on while they can (so a service that was started returns), and a poll that
\* keeps having due rows reads them all and claims one: the query has no
\* upper bound, the claims stop at the limit only.
PollerStep(i) ==
  \/ ReloadQuery(i) \/ ReloadMark(i) \/ \E j \in Jobs : ReloadCreate(i, j)
  \/ \E o \in TaskIds : Inst(o) = i /\ (QueueRefresh(o) \/ QueueStore(o) \/ DeQueueRefresh(o) \/ DeQueueStore(o))
WorkerStep(i) ==
  \/ AsyncTake(i) \/ AsyncEnd(i)
  \/ \E o \in TaskIds : Inst(o) = i /\ (\/ Take(o) \/ InitRefresh(o) \/ InitStore(o) \/ Recur(o)
                                      \/ Finish(o) \/ FailAndRetry(o) \/ StoreFailed(o))
SeesAll(i) == PollSelect(i) /\ poller'[i].due = {j \in Jobs : Pollable(j)}
ClaimsSome(i) == \E claimed \in SUBSET poller[i].due : claimed # {} /\ PollClaim(i, claimed)

Fairness ==
  \A i \in Instances :
    /\ WF_vars(Restart(i)) /\ WF_vars(Exit(i))
    /\ WF_vars(PollerStep(i)) /\ WF_vars(WorkerStep(i))
    /\ WF_vars(\E claimed \in SUBSET poller[i].due : PollClaim(i, claimed))
    /\ SF_vars(SeesAll(i)) /\ SF_vars(ClaimsSome(i))

FairSpec == Spec /\ Fairness

-----------------------------------------------------------------------------
(* Properties *)

\* Every variable keeps its type.
TypeOK ==
  /\ sandbox \in [Jobs -> Row]
  /\ mode \in [Instances -> {"up", "stopping", "down"}]
  /\ poller \in [Instances -> Polling]
  /\ reload \in [Instances -> Reloading]
  /\ task \in [TaskIds -> Task]
  /\ async \in [Instances -> [queued : Nat, running : Nat]]
  /\ admin \in [kind : Kinds, job : Jobs, val : Row] \cup {NoCall}
  /\ used \in [scheduled : Nat, deaths : Nat, faults : Nat, calls : Nat]
  /\ runs \in [Jobs -> Nat]
  /\ acked \in [Jobs -> {"no", "open", "firm"}]
  /\ recovered \subseteq Jobs

\* At most one Job object in the whole cluster is past the checks of queue()
\* for a row: the claim in poll and the way back in deQueue hand the row
\* over (without resetJob).  Two candidates are possible: a cancel that read
\* the row before the claim stores runByInstanceId = null again.
OneTaskPerRow ==
  \A o, p \in TaskIds :
    /\ JobOf(o) = JobOf(p)
    /\ task[o].at \notin {"none", "candidate"} /\ task[p].at \notin {"none", "candidate"}
    => o = p

\* No job gets lost: a row that is neither finished nor cancelled can be
\* polled, or is in the hands of the instance it names, or is one that
\* instance will recover when it reloads crashed jobs.
NoJobLost ==
  \A j \in Jobs : Exists(j) /\ ~Done(j) =>
    \/ Pollable(j)
    \/ \E i \in Instances : sandbox[j].runBy = i /\ (HoldsTask(i, j) \/ Crashed(i, j))

\* Without database errors, an instance that is up and has reloaded its
\* crashed jobs owns no unfinished row it has forgotten: nothing waits for
\* the next restart.
OwnedRowsAreHeld ==
  \A i \in Instances, j \in Jobs :
    /\ used.faults = 0 /\ mode[i] = "up" /\ reload[i].done /\ Crashed(i, j) /\ ~Done(j)
    => HoldsTask(i, j)

\* A cancel that commits while no Job object of the row is between the checks
\* of queue() or init(), or the refresh() of deQueue(), and its next store(),
\* nor creates the next occurrence, is final: the row stays cancelled and its
\* service never starts.
FirmCancelHolds ==
  \A j \in Jobs : acked[j] = "firm" => sandbox[j].cancel /\ runs[j] = 0

\* "jobs can be canceled after they are queued" (PersistedServiceJob.java):
\* a cancel that commits before the service has started keeps it from starting.
CancelKeepsServiceFromStarting ==
  \A j \in Jobs : acked[j] # "no" => runs[j] = 0

\* A job is followed by its next occurrence or by a retry and never by both,
\* whatever fails in between.  What else follows it are copies that
\* reloadCrashedJobs has made of it.
Followers(j) == {k \in Jobs : sandbox[k].prev = j} \ recovered
OneSuccessor == \A j \in Jobs : Cardinality(Followers(j)) <= 1

\* A job that does not recur has at most maxRetry rows beside its own, and as
\* many again for every copy that reloadCrashedJobs has made of one of them:
\* the copy of a row whose retry had been created before the crash has all
\* retries again.
Chain(j) == {k \in Jobs : k = j \/ sandbox[k].parent = j}
Copied(j) == Chain(j) \cap recovered
RetryBudget ==
  \A j \in Jobs :
    /\ Exists(j) /\ sandbox[j].parent = NoJob /\ ~sandbox[j].recurs /\ sandbox[j].maxRetry >= 0
    => Cardinality(Chain(j)) <= (1 + Cardinality(Copied(j))) * (1 + sandbox[j].maxRetry)

Retried(j) == {k \in Chain(j) \ {j} : sandbox[k].retry > sandbox[sandbox[k].prev].retry}

\* A job with a bounded recurrence occurs 1 + maxRecur times at most, and as
\* often again for every copy, although the count of a row is kept in memory
\* until the row is finished and its retries take the count along.
RecurrenceBudget ==
  \A j \in Jobs :
    /\ Exists(j) /\ sandbox[j].parent = NoJob /\ sandbox[j].maxRecur >= 0
    => Cardinality(Chain(j) \ Retried(j)) <= (1 + Cardinality(Copied(j))) * (1 + sandbox[j].maxRecur)

\* Every job that is scheduled and left alone is executed: one of the rows of
\* its chain ends in finish() or failed().  No claim, rejection, shutdown or
\* crash leaves the job waiting for ever.
EveryJobEnds ==
  \A j \in Jobs : Exists(j) /\ sandbox[j].parent = NoJob ~> \E k \in Chain(j) : sandbox[k].finish

\* The scheduler implements the execution of a row at most once: a row waits
\* until its service is started and runs where a Job object is in its service,
\* however pollers, workers, shutdowns, crashes, database errors and the
\* services that cancel a job interleave (unless resetJob is used).
RunsAt(j, i) == \E c \in Copies : task[<<i, j, c>>].at = "service"
PhaseOf(j) == IF ~Exists(j) THEN "none"
              ELSE IF runs[j] = 0 THEN "waiting"
              ELSE IF \E i \in Instances : RunsAt(j, i) THEN "running"
              ELSE "ended"
SiteOf(j) == IF \E i \in Instances : RunsAt(j, i) THEN CHOOSE i \in Instances : RunsAt(j, i)
             ELSE NoInstance
Execution == INSTANCE JobExecution WITH phase <- [j \in Jobs |-> PhaseOf(j)],
                                        site <- [j \in Jobs |-> SiteOf(j)]
ExecutesOnce == Execution!Spec
=============================================================================
