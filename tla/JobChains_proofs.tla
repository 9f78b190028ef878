-------------------------- MODULE JobChains_proofs --------------------------
(***************************************************************************)
(* Proofs about the chains of JobScheduler when nobody calls resetJob: a   *)
(* job has one successor at most, and occurs and is retried no more often  *)
(* than its limits and its copies allow.                                   *)
(*                                                                         *)
(* A row keeps what it was made with, and every copy of it has the same    *)
(* (Agree).  So each row has a head, the scheduled row or the copy of a    *)
(* crashed one that it descends from, and a level, its distance from it.   *)
(* A service creates one row, when it has not created one before; so rows  *)
(* with the same head and level are the same, and the rows of a chain can  *)
(* be counted by their heads and levels, which the limits bound.           *)
(***************************************************************************)
EXTENDS JobExecution_proofs

USE InstancesAssumption, JobsAssumption, CopiesAssumption, TemplatesAssumption, BoundsAssumption

-----------------------------------------------------------------------------
(* What a row keeps *)

\* Where the row comes from and how often it may occur; only cancelJobRetries
\* changes the number of retries.
SameJob(a, b) ==
  /\ a.prev = b.prev /\ a.parent = b.parent
  /\ a.recurs = b.recurs /\ a.maxRecur = b.maxRecur /\ a.retry = b.retry
  /\ "cancelRetries" \in AdminKinds \/ a.maxRetry = b.maxRetry

\* A bounded recurrence has been counted up to n at least; a retry counter
\* that is not null has.
CountsTo(row, n) == row.maxRecur >= 0 => row.curRecur >= n
RetriesTo(row, n) == ~row.recurs => IF row.retry = Null THEN n = 0 ELSE row.retry >= n

CopyOf(row, j, n) == SameJob(row, sandbox[j]) /\ CountsTo(row, n)

\* A Job object writes its copy of the row, or makes a new row of it.
CopySteps == {"storeQueued", "storeDequeued", "storeRunning"} \cup StartedSteps

\* Every copy of a row agrees with it; lev is the level of each row.
RowsAgree(lev) ==
  \A j \in Jobs : IF Exists(j) THEN CountsTo(sandbox[j], lev[j]) /\ RetriesTo(sandbox[j], lev[j])
                               ELSE sandbox[j] = AbsentRow
TaskAgrees(o, lev) ==
  LET j == JobOf(o) IN
  /\ task[o].at \in CopySteps => CopyOf(task[o].val, j, lev[j])
  /\ task[o].at \in StartedSteps => CountsTo(task[o].val, lev[j] + 1)
  /\ task[o].at = "recur" => MayRecur(task[o].val)
  /\ Held(o) => /\ task[o].retry >= sandbox[j].retry
                /\ ~sandbox[j].recurs => task[o].retry >= lev[j]
                /\ "cancelRetries" \in AdminKinds \/ task[o].maxRetry = sandbox[j].maxRetry
ReloadsAgree(lev) == \A i \in Instances : \A j \in reload[i].todo : CopyOf(reload[i].vals[j], j, lev[j])
AdminAgrees(lev) == /\ admin.kind # "none" => CopyOf(admin.val, admin.job, lev[admin.job])
                    /\ admin.kind = "cancelRetries" => "cancelRetries" \in AdminKinds
Agree(lev) == /\ lev \in [Jobs -> Nat]
              /\ RowsAgree(lev) /\ ReloadsAgree(lev) /\ AdminAgrees(lev)
              /\ \A o \in TaskIds : TaskAgrees(o, lev)

\* What the code makes of a copy of a row keeps it.
LEMMA RewritingsKeep ==
  ASSUME NEW old \in Row
  PROVE  /\ \A s : /\ SameJob([old EXCEPT !.status = s], old)
                   /\ [old EXCEPT !.status = s].curRecur = old.curRecur
         /\ \A s : /\ SameJob([old EXCEPT !.status = s, !.finish = TRUE], old)
                   /\ [old EXCEPT !.status = s, !.finish = TRUE].curRecur = old.curRecur
         /\ \A s : /\ SameJob([old EXCEPT !.status = s, !.cancel = TRUE], old)
                   /\ [old EXCEPT !.status = s, !.cancel = TRUE].curRecur = old.curRecur
         /\ \A s : /\ SameJob([old EXCEPT !.start = TRUE, !.status = s], old)
                   /\ [old EXCEPT !.start = TRUE, !.status = s].curRecur = old.curRecur
         /\ \A i : /\ SameJob([old EXCEPT !.runBy = i], old)
                   /\ [old EXCEPT !.runBy = i].curRecur = old.curRecur
         /\ SameJob(Dequeued(old), old) /\ Dequeued(old).curRecur = old.curRecur
         /\ SameJob(CountRecurrence(old), old)
         /\ \A n \in Nat : CountsTo(old, n) => CountsTo(CountRecurrence(old), n + 1)
         /\ "cancelRetries" \in AdminKinds => /\ SameJob([old EXCEPT !.maxRetry = 0], old)
                                              /\ [old EXCEPT !.maxRetry = 0].curRecur = old.curRecur
<1>1. ASSUME NEW s
      PROVE  /\ SameJob([old EXCEPT !.status = s], old)
             /\ [old EXCEPT !.status = s].curRecur = old.curRecur
             /\ SameJob([old EXCEPT !.status = s, !.finish = TRUE], old)
             /\ [old EXCEPT !.status = s, !.finish = TRUE].curRecur = old.curRecur
             /\ SameJob([old EXCEPT !.status = s, !.cancel = TRUE], old)
             /\ [old EXCEPT !.status = s, !.cancel = TRUE].curRecur = old.curRecur
             /\ SameJob([old EXCEPT !.start = TRUE, !.status = s], old)
             /\ [old EXCEPT !.start = TRUE, !.status = s].curRecur = old.curRecur
             /\ SameJob([old EXCEPT !.runBy = s], old)
             /\ [old EXCEPT !.runBy = s].curRecur = old.curRecur
  BY DEF SameJob, Row
<1>2. SameJob(Dequeued(old), old) /\ Dequeued(old).curRecur = old.curRecur
  BY DEF SameJob, Row, Dequeued
<1>3. SameJob(CountRecurrence(old), old)
  BY DEF SameJob, Row, CountRecurrence
<1>4. \A n \in Nat : CountsTo(old, n) => CountsTo(CountRecurrence(old), n + 1)
  BY DEF CountsTo, Row, CountRecurrence
<1>5. "cancelRetries" \in AdminKinds => /\ SameJob([old EXCEPT !.maxRetry = 0], old)
                                        /\ [old EXCEPT !.maxRetry = 0].curRecur = old.curRecur
  BY DEF SameJob, Row
<1> QED BY <1>1, <1>2, <1>3, <1>4, <1>5

\* So it is a copy of the row again, ...
LEMMA CopiesStay ==
  ASSUME NEW old \in Row, NEW j, NEW n, CopyOf(old, j, n)
  PROVE  /\ \A s : CopyOf([old EXCEPT !.status = s], j, n)
         /\ \A s : CopyOf([old EXCEPT !.status = s, !.finish = TRUE], j, n)
         /\ \A s : CopyOf([old EXCEPT !.status = s, !.cancel = TRUE], j, n)
         /\ \A s : CopyOf([old EXCEPT !.start = TRUE, !.status = s], j, n)
         /\ \A i : CopyOf([old EXCEPT !.runBy = i], j, n)
         /\ CopyOf(Dequeued(old), j, n)
         /\ "cancelRetries" \in AdminKinds => CopyOf([old EXCEPT !.maxRetry = 0], j, n)
<1>1. \A new : SameJob(new, old) /\ new.curRecur = old.curRecur => CopyOf(new, j, n)
  BY DEF CopyOf, SameJob, CountsTo
<1>2. ASSUME NEW s
      PROVE  /\ CopyOf([old EXCEPT !.status = s], j, n)
             /\ CopyOf([old EXCEPT !.status = s, !.finish = TRUE], j, n)
             /\ CopyOf([old EXCEPT !.status = s, !.cancel = TRUE], j, n)
             /\ CopyOf([old EXCEPT !.start = TRUE, !.status = s], j, n)
             /\ CopyOf([old EXCEPT !.runBy = s], j, n)
  BY <1>1, RewritingsKeep
<1>3. CopyOf(Dequeued(old), j, n)
  BY <1>1, RewritingsKeep
<1>4. "cancelRetries" \in AdminKinds => CopyOf([old EXCEPT !.maxRetry = 0], j, n)
  BY <1>1, RewritingsKeep
<1> QED BY <1>2, <1>3, <1>4

LEMMA CountedCopy ==
  ASSUME NEW old \in Row, NEW j, NEW n \in Nat, CopyOf(old, j, n)
  PROVE  CopyOf(CountRecurrence(old), j, n) /\ CountsTo(CountRecurrence(old), n + 1)
<1>1. CountsTo(CountRecurrence(old), n + 1) /\ SameJob(CountRecurrence(old), old)
  BY RewritingsKeep DEF CopyOf
<1>2. CountsTo(CountRecurrence(old), n)
  <2>1. CountRecurrence(old).curRecur \in Int
    BY CountedType DEF Row
  <2> QED BY <1>1, <2>1 DEF CountsTo
<1> QED BY <1>1, <1>2 DEF CopyOf, SameJob

\* ... and a copy of what the row becomes.
LEMMA CopyAcross ==
  ASSUME NEW row, NEW j, NEW n, CopyOf(row, j, n), SameJob(sandbox'[j], sandbox[j])
  PROVE  CopyOf(row, j, n)'
BY DEF CopyOf, SameJob, CountsTo

\* Every row agrees with itself.
LEMMA RowIsCopy ==
  ASSUME NEW lev, RowsAgree(lev), NEW j \in Jobs, Exists(j)
  PROVE  CopyOf(sandbox[j], j, lev[j])
BY DEF RowsAgree, CopyOf, SameJob

\* A row is stored from a copy of it.
LEMMA StoredAgrees ==
  ASSUME TypeOK, NEW lev, RowsAgree(lev), NEW k \in Jobs, NEW row, Store(k, row),
         Exists(k) => CopyOf(row, k, lev[k]), NEW j \in Jobs, Exists(j)
  PROVE  CopyOf(sandbox'[j], j, lev[j])
<1>1. sandbox'[j] = IF j = k THEN row ELSE sandbox[j]
  BY DEF TypeOK, Store
<1> QED BY <1>1, RowIsCopy

\* Every row that exists stays, and stays the same job.
LEMMA RowsStay ==
  ASSUME ExecutionInv, NEW lev, Agree(lev), [Next]_vars, NEW j \in Jobs, Exists(j)
  PROVE  Exists(j)' /\ CopyOf(sandbox'[j], j, lev[j])
<1>1. TypeOK /\ ReloadFirst /\ RowsAgree(lev) /\ CopyOf(sandbox[j], j, lev[j])
  BY RowIsCopy DEF ExecutionInv, BaseInv, Agree
<1>2. UNCHANGED sandbox => Exists(j)' /\ CopyOf(sandbox'[j], j, lev[j])
  BY <1>1 DEF Exists
<1>3. ASSUME NEW k \in Jobs, NEW row, NextFree(k), Store(k, row)
      PROVE  CopyOf(sandbox'[j], j, lev[j])
  BY <1>1, <1>3, StoredAgrees DEF NextFree
<1>4. ASSUME NEW o \in TaskIds, TaskNext(o) PROVE Exists(j)' /\ CopyOf(sandbox'[j], j, lev[j])
  <2>1. Exists(j)'
    BY <1>4, TaskRows
  <2>2. JobOf(o) \in Jobs /\ task[o].val \in Row /\ TaskAgrees(o, lev)
    BY <1>1, TaskIdParts, TypeOf DEF Agree
  <2>3. CASE QueueRefresh(o) \/ DeQueueRefresh(o) \/ Take(o) \/ InitRefresh(o) \/ DbFault(o)
    BY <1>2, <2>3 DEF QueueRefresh, DeQueueRefresh, Take, InitRefresh, DbFault
  <2>4. CASE QueueStore(o) \/ DeQueueStore(o) \/ InitStore(o)
    <3>1. task[o].at \in CopySteps /\ Store(JobOf(o), task[o].val)
      BY <2>4 DEF QueueStore, DeQueueStore, InitStore, CopySteps
    <3> QED BY <1>1, <2>1, <2>2, <3>1, StoredAgrees DEF TaskAgrees
  <2>5. CASE Recur(o) \/ FailAndRetry(o)
    BY <1>2, <1>3, <2>1, <2>5 DEF Recur, FailAndRetry
  <2>6. CASE Finish(o) \/ StoreFailed(o)
    <3>1. PICK s : Store(JobOf(o), [task[o].val EXCEPT !.status = s, !.finish = TRUE])
      BY <2>6 DEF Finish, StoreFailed, FailedRow
    <3>2. task[o].at \in CopySteps
      BY <2>6 DEF Finish, StoreFailed, CopySteps, StartedSteps
    <3>3. CopyOf([task[o].val EXCEPT !.status = s, !.finish = TRUE], JobOf(o), lev[JobOf(o)])
      BY <2>2, <3>2, CopiesStay DEF TaskAgrees
    <3> QED BY <1>1, <2>1, <2>2, <3>1, <3>3, StoredAgrees
  <2> QED BY <1>4, <2>3, <2>4, <2>5, <2>6 DEF TaskNext
<1>5. ASSUME NEW t \in Templates, Schedule(t) PROVE Exists(j)' /\ CopyOf(sandbox'[j], j, lev[j])
  BY <1>1, <1>3, <1>5, ScheduleIsQuiet, CrossedRows DEF Schedule, Quiet
<1>6. ASSUME NEW i \in Instances, ReloadNext(i) PROVE Exists(j)' /\ CopyOf(sandbox'[j], j, lev[j])
  <2>1. Exists(j)'
    BY <1>1, <1>6, ReloadIsQuiet, CrossedRows DEF Quiet
  <2>2. CASE ReloadQuery(i) \/ \E k \in Jobs : ReloadFault(i, k)
    BY <1>2, <2>2 DEF ReloadQuery, ReloadFault
  <2>3. CASE \E k \in Jobs : ReloadCreate(i, k)
    BY <1>3, <2>1, <2>3 DEF ReloadCreate
  <2>4. CASE ReloadMark(i)
    <3> DEFINE k == reload[i].half
    <3>1. k \in reload[i].todo /\ k \in Jobs /\ reload[i].vals[k] \in Row
          /\ Store(k, [reload[i].vals[k] EXCEPT !.status = "CRASHED", !.cancel = TRUE])
      BY <1>1, <2>4, TypeOf DEF ReloadMark, ReloadFirst
    <3> HIDE DEF k
    <3>2. CopyOf(reload[i].vals[k], k, lev[k])
      BY <3>1 DEF Agree, ReloadsAgree
    <3>3. CopyOf([reload[i].vals[k] EXCEPT !.status = "CRASHED", !.cancel = TRUE], k, lev[k])
      BY <3>1, <3>2, CopiesStay
    <3> QED BY <1>1, <2>1, <3>1, <3>3, StoredAgrees
  <2> QED BY <1>6, <2>2, <2>3, <2>4 DEF ReloadNext
<1>7. ASSUME NEW i \in Instances, PollNext(i) PROVE Exists(j)' /\ CopyOf(sandbox'[j], j, lev[j])
  <2>1. CASE PollSelect(i)
    BY <1>2, <2>1 DEF PollSelect
  <2>2. ASSUME NEW claimed \in SUBSET poller[i].due, PollClaim(i, claimed)
        PROVE  Exists(j)' /\ CopyOf(sandbox'[j], j, lev[j])
    <3>1. Exists(j)'
      BY <2>2, ClaimSteps
    <3>2. sandbox'[j] = sandbox[j] \/ sandbox'[j] = [sandbox[j] EXCEPT !.runBy = i]
      BY <2>2 DEF PollClaim
    <3>3. sandbox[j] \in Row
      BY <1>1, TypeOf
    <3>4. CopyOf([sandbox[j] EXCEPT !.runBy = i], j, lev[j])
      BY <1>1, <3>3, CopiesStay
    <3> QED BY <1>1, <3>1, <3>2, <3>4
  <2> QED BY <1>7, <2>1, <2>2 DEF PollNext
<1>8. ASSUME NEW i \in Instances, InstanceNext(i) PROVE Exists(j)' /\ CopyOf(sandbox'[j], j, lev[j])
  BY <1>1, <1>2, <1>8, LifeSteps
<1>9. CASE AdminNext
  <2>1. Exists(j)'
    BY <1>1, <1>9, AdminIsQuiet, CrossedRows DEF Quiet
  <2>2. admin.kind # "none" => /\ admin.job \in Jobs /\ admin.val \in Row
                               /\ CopyOf(admin.val, admin.job, lev[admin.job])
    BY <1>1, AdminCallType DEF Agree, AdminAgrees
  <2>3. admin.kind # "reset"
    BY DEF ExecutionInv, BaseInv, NoReset
  <2>4. CASE \E kind \in AdminKinds, k \in Jobs : AdminRead(kind, k)
    BY <1>2, <2>4 DEF AdminRead
  <2>5. CASE CancelStore
    <3>1. CopyOf([admin.val EXCEPT !.status = "CANCELLED", !.cancel = TRUE], admin.job, lev[admin.job])
      BY <2>2, <2>5, CopiesStay DEF CancelStore
    <3> QED BY <1>1, <2>1, <2>2, <2>5, <3>1, StoredAgrees DEF CancelStore
  <2>6. CASE CancelRetriesStore
    <3>1. admin.kind = "cancelRetries" /\ "cancelRetries" \in AdminKinds
      BY <2>6 DEF CancelRetriesStore, Agree, AdminAgrees
    <3>2. CopyOf([admin.val EXCEPT !.maxRetry = 0], admin.job, lev[admin.job])
      BY <2>2, <3>1, CopiesStay
    <3>3. UNCHANGED sandbox \/ Store(admin.job, [admin.val EXCEPT !.maxRetry = 0])
      BY <2>6 DEF CancelRetriesStore
    <3> QED BY <1>1, <1>2, <2>1, <2>2, <3>1, <3>2, <3>3, StoredAgrees
  <2> QED BY <1>9, <2>3, <2>4, <2>5, <2>6 DEF AdminNext, ResetStore
<1>10. CASE UNCHANGED vars
  BY <1>2, <1>10 DEF vars
<1> QED BY <1>4, <1>5, <1>6, <1>7, <1>8, <1>9, <1>10 DEF Next

\* A row that is not in the table after a step was not there before.
LEMMA AbsentStay ==
  ASSUME ExecutionInv, [Next]_vars, NEW j \in Jobs, ~Exists(j)'
  PROVE  sandbox'[j] = sandbox[j]
<1>1. TypeOK /\ CopiesFit
  BY DEF ExecutionInv, BaseInv
<1>2. ASSUME NEW k \in Jobs, NEW row, row.status # "ABSENT", Store(k, row) PROVE sandbox'[j] = sandbox[j]
  BY <1>1, <1>2 DEF TypeOK, Store, Exists
<1>3. UNCHANGED sandbox \/ Insertion => sandbox'[j] = sandbox[j]
  BY <1>2 DEF Insertion
<1>4. Crossed => sandbox'[j] = sandbox[j]
  BY <1>2, <1>3 DEF Crossed
<1>5. ASSUME NEW o \in TaskIds, TaskNext(o) PROVE sandbox'[j] = sandbox[j]
  <2>1. JobOf(o) \in Jobs
    BY TaskIdParts
  <2>2. UNCHANGED sandbox \/ Insertion \/ \E row : row.status # "ABSENT" /\ Store(JobOf(o), row)
    BY <1>1, <1>5, TaskEffects DEF Enters, Leaves, Moves, Stores, Returns, Starts, Fails, Ends
  <2> QED BY <1>2, <1>3, <2>1, <2>2
<1>6. ASSUME NEW t \in Templates, Schedule(t) PROVE sandbox'[j] = sandbox[j]
  BY <1>4, <1>6, ScheduleIsQuiet DEF Quiet
<1>7. ASSUME NEW i \in Instances, ReloadNext(i) PROVE sandbox'[j] = sandbox[j]
  BY <1>4, <1>7, ReloadIsQuiet DEF Quiet
<1>8. ASSUME NEW i \in Instances, PollNext(i) PROVE sandbox'[j] = sandbox[j]
  <2>1. ASSUME NEW claimed \in SUBSET poller[i].due, PollClaim(i, claimed) PROVE sandbox'[j] = sandbox[j]
    BY <2>1, ClaimSteps
  <2> QED BY <1>8, <2>1 DEF PollNext, PollSelect
<1>9. ASSUME NEW i \in Instances, InstanceNext(i) PROVE sandbox'[j] = sandbox[j]
  BY <1>1, <1>9, LifeSteps
<1>10. AdminNext => sandbox'[j] = sandbox[j]
  BY <1>4, AdminIsQuiet DEF Quiet
<1> QED BY <1>3, <1>5, <1>6, <1>7, <1>8, <1>9, <1>10 DEF Next, vars

\* A Job object agrees with its row after a step when its copy does.
LEMMA TaskCarried ==
  ASSUME NEW o \in TaskIds, NEW lev, NEW lev2, TaskAgrees(o, lev), Held(o),
         lev2[JobOf(o)] = lev[JobOf(o)], SameJob(sandbox'[JobOf(o)], sandbox[JobOf(o)]),
         task'[o].maxRetry = task[o].maxRetry, task'[o].retry = task[o].retry,
         task'[o].at \in CopySteps => CopyOf(task'[o].val, JobOf(o), lev[JobOf(o)]),
         task'[o].at \in StartedSteps => CountsTo(task'[o].val, lev[JobOf(o)] + 1),
         task'[o].at = "recur" => MayRecur(task'[o].val)
  PROVE  TaskAgrees(o, lev2)'
<1> DEFINE j == JobOf(o)
<1>1. task'[o].at \in CopySteps => CopyOf(task[o].val, j, lev2[j])'
  BY DEF CopyOf, SameJob, CountsTo
<1>2. /\ task'[o].retry >= sandbox'[j].retry
      /\ ~sandbox'[j].recurs => task'[o].retry >= lev2[j]
      /\ "cancelRetries" \in AdminKinds \/ task'[o].maxRetry = sandbox'[j].maxRetry
  BY DEF TaskAgrees, SameJob
<1>3. task'[o].at \in StartedSteps => CountsTo(task[o].val, lev2[j] + 1)'
  BY DEF CountsTo
<1> QED BY <1>1, <1>2, <1>3 DEF TaskAgrees

\* Its own steps keep it so.
LEMMA TaskKeepsAgree ==
  ASSUME ExecutionInv, NEW lev, NEW lev2, Agree(lev), NEW o \in TaskIds, TaskNext(o),
         lev2[JobOf(o)] = lev[JobOf(o)]
  PROVE  TaskAgrees(o, lev2)'
<1> DEFINE j == JobOf(o)
<1>1. /\ TypeOK /\ TaskAgrees(o, lev) /\ Held(o) /\ j \in Jobs /\ Exists(j) /\ lev[j] \in Nat
      /\ task[o].val \in Row /\ sandbox[j] \in Row
  BY TaskIdParts, TaskFrame, TypeOf DEF ExecutionInv, BaseInv, OnceInv, RowsExist, Held, Agree
<1>2. SameJob(sandbox'[j], sandbox[j])
  <2>1. Next
    BY DEF Next
  <2> QED BY <1>1, <2>1, RowsStay DEF CopyOf
<1>3. CopyOf(sandbox[j], j, lev[j])
  BY <1>1, RowIsCopy DEF Agree
<1>4. CopyOf([sandbox[j] EXCEPT !.status = "QUEUED"], j, lev[j])
      /\ CopyOf([sandbox[j] EXCEPT !.start = TRUE, !.status = "RUNNING"], j, lev[j])
      /\ CopyOf(Dequeued(sandbox[j]), j, lev[j])
  BY <1>1, <1>3, CopiesStay
<1>5. ASSUME task'[o].at = "none" PROVE TaskAgrees(o, lev2)'
  BY <1>5 DEF TaskAgrees, Held, CopySteps, StartedSteps
<1>6. ASSUME NEW step, NEW row, task' = [task EXCEPT ![o].at = step, ![o].val = row],
             step \in CopySteps \ StartedSteps, CopyOf(row, j, lev[j])
      PROVE  TaskAgrees(o, lev2)'
  <2>1. task'[o].at = step /\ task'[o].val = row
        /\ task'[o].maxRetry = task[o].maxRetry /\ task'[o].retry = task[o].retry
    BY <1>1, <1>6, NewCopyAfter, NewCopyKeeps
  <2>2. step # "recur"
    BY <1>6 DEF StartedSteps
  <2> QED BY <1>1, <1>2, <1>6, <2>1, <2>2, TaskCarried
<1>7. ASSUME NEW step, Goto(o, step) \/ task' = [task EXCEPT ![o].at = step, ![o].next = TRUE],
             \/ step \notin CopySteps
             \/ step \in {"service", "storeFailed"} /\ task[o].at \in StartedSteps
      PROVE  TaskAgrees(o, lev2)'
  <2>1. task'[o].at = step /\ task'[o].val = task[o].val
        /\ task'[o].maxRetry = task[o].maxRetry /\ task'[o].retry = task[o].retry
    BY <1>1, <1>7, CopyAfter
  <2>2. step # "recur" /\ (step \in StartedSteps => step \in CopySteps)
    BY <1>7 DEF CopySteps, StartedSteps
  <2>3. task[o].at \in StartedSteps => /\ CopyOf(task[o].val, j, lev[j])
                                       /\ CountsTo(task[o].val, lev[j] + 1)
    BY <1>1 DEF TaskAgrees, CopySteps
  <2> QED BY <1>1, <1>2, <1>7, <2>1, <2>2, <2>3, TaskCarried
<1>8. CASE QueueRefresh(o)
  <2>1. Drop(o) => TaskAgrees(o, lev2)'
    BY <1>1, <1>5, CopyAfter
  <2>2. "storeQueued" \in CopySteps \ StartedSteps
    BY DEF CopySteps, StartedSteps
  <2> QED BY <1>4, <1>6, <1>8, <2>1, <2>2 DEF QueueRefresh
<1>9. CASE QueueStore(o) \/ Take(o)
  <2>1. \E step \in {"rejected", "inQueue", "init"} : Goto(o, step)
    BY <1>9 DEF QueueStore, Take
  <2>2. \A step \in {"rejected", "inQueue", "init"} : step \notin CopySteps
    BY DEF CopySteps, StartedSteps
  <2> QED BY <1>7, <2>1, <2>2
<1>10. CASE DeQueueRefresh(o)
  <2>1. "storeDequeued" \in CopySteps \ StartedSteps
    BY DEF CopySteps, StartedSteps
  <2> QED BY <1>4, <1>6, <1>10, <2>1 DEF DeQueueRefresh
<1>11. CASE DeQueueStore(o) \/ Finish(o) \/ StoreFailed(o)
  <2>1. Drop(o)
    BY <1>11 DEF DeQueueStore, Finish, StoreFailed
  <2> QED BY <1>1, <1>5, <2>1, CopyAfter
<1>12. CASE InitRefresh(o)
  <2>1. Drop(o) => TaskAgrees(o, lev2)'
    BY <1>1, <1>5, CopyAfter
  <2>2. "storeRunning" \in CopySteps \ StartedSteps
    BY DEF CopySteps, StartedSteps
  <2> QED BY <1>4, <1>6, <1>12, <2>1, <2>2 DEF InitRefresh
<1>13. CASE InitStore(o)
  <2> DEFINE row == CountRecurrence(task[o].val)
             step == IF MayRecur(row) THEN "recur" ELSE "service"
  <2>1. task' = [task EXCEPT ![o].at = step, ![o].val = row] /\ task[o].at = "storeRunning"
    BY <1>13 DEF InitStore
  <2>2. CopyOf(task[o].val, j, lev[j])
    BY <1>1, <2>1 DEF TaskAgrees, CopySteps
  <2>3. CopyOf(row, j, lev[j]) /\ CountsTo(row, lev[j] + 1)
    BY <1>1, <2>2, CountedCopy
  <2>4. step = "recur" => MayRecur(row)
    OBVIOUS
  <2> HIDE DEF row, step
  <2>5. task'[o].at = step /\ task'[o].val = row
        /\ task'[o].maxRetry = task[o].maxRetry /\ task'[o].retry = task[o].retry
    BY <1>1, <2>1, NewCopyAfter, NewCopyKeeps
  <2> QED BY <1>1, <1>2, <2>3, <2>4, <2>5, TaskCarried
<1>14. CASE Recur(o)
  <2>1. task[o].at \in StartedSteps
        /\ (Goto(o, "service") \/ task' = [task EXCEPT ![o].at = "service", ![o].next = TRUE])
    BY <1>14 DEF Recur, StartedSteps
  <2> QED BY <1>7, <2>1
<1>15. CASE FailAndRetry(o)
  <2>1. task[o].at \in StartedSteps /\ task' = [task EXCEPT ![o].at = "storeFailed", ![o].next = TRUE]
    BY <1>15 DEF FailAndRetry, StartedSteps
  <2> QED BY <1>7, <2>1
<1>16. CASE DbFault(o)
  <2>1. Drop(o) => TaskAgrees(o, lev2)'
    BY <1>1, <1>5, CopyAfter
  <2>2. Drop(o) \/ (task[o].at \in StartedSteps /\ Goto(o, "storeFailed"))
    BY <1>16 DEF DbFault, StartedSteps
  <2> QED BY <1>7, <2>1, <2>2
<1> QED BY <1>8, <1>9, <1>10, <1>11, <1>12, <1>13, <1>14, <1>15, <1>16 DEF TaskNext

\* A Job object that a step leaves alone.
LEMMA TaskUntouched ==
  ASSUME ExecutionInv, NEW lev, NEW lev2, Agree(lev), [Next]_vars, NEW o \in TaskIds,
         task'[o] = task[o], \A j \in Jobs : Exists(j) => lev2[j] = lev[j]
  PROVE  TaskAgrees(o, lev2)'
<1>1. JobOf(o) \in Jobs /\ TaskAgrees(o, lev)
  BY TaskIdParts DEF Agree
<1>2. CASE Held(o)
  <2>1. Exists(JobOf(o)) /\ lev2[JobOf(o)] = lev[JobOf(o)]
    BY <1>1, <1>2 DEF ExecutionInv, OnceInv, RowsExist
  <2>2. SameJob(sandbox'[JobOf(o)], sandbox[JobOf(o)])
    BY <1>1, <2>1, RowsStay DEF CopyOf
  <2>3. /\ task[o].at \in CopySteps => CopyOf(task[o].val, JobOf(o), lev[JobOf(o)])
        /\ task[o].at \in StartedSteps => CountsTo(task[o].val, lev[JobOf(o)] + 1)
        /\ task[o].at = "recur" => MayRecur(task[o].val)
    BY <1>1 DEF TaskAgrees
  <2> QED BY <1>1, <1>2, <2>1, <2>2, <2>3, TaskCarried
<1>3. CASE ~Held(o)
  BY <1>3 DEF TaskAgrees, Held, CopySteps, StartedSteps
<1> QED BY <1>2, <1>3

\* A claim gives its candidates the counters of their rows.
LEMMA ClaimAgrees ==
  ASSUME ExecutionInv, NEW lev, NEW lev2, Agree(lev), \A j \in Jobs : Exists(j) => lev2[j] = lev[j],
         NEW i \in Instances, NEW claimed \in SUBSET poller[i].due, PollClaim(i, claimed), NEW o \in TaskIds
  PROVE  TaskAgrees(o, lev2)'
<1> DEFINE j == JobOf(o)
           new == [NoTask EXCEPT !.at = "candidate", !.maxRetry = sandbox[j].maxRetry, !.retry = Retries(j)]
<1>1. TypeOK /\ j \in Jobs /\ RowsAgree(lev) /\ lev \in [Jobs -> Nat] /\ Next
  BY TaskIdParts DEF ExecutionInv, BaseInv, Agree, Next, PollNext
<1>2. task'[o] = task[o] => TaskAgrees(o, lev2)'
  BY <1>1, TaskUntouched
<1>3. CASE j \in claimed /\ task'[o] = new
  <2>1. new.at = "candidate" /\ new.maxRetry = sandbox[j].maxRetry /\ new.retry = Retries(j)
    BY DEF NoTask
  <2>2. Exists(j)
    BY <1>1, <1>3, ClaimSteps
  <2>3. sandbox[j] \in Row /\ lev[j] \in Nat /\ RetriesTo(sandbox[j], lev[j]) /\ lev2[j] = lev[j]
    BY <1>1, <2>2, TypeOf DEF RowsAgree
  <2>4. Retries(j) >= sandbox[j].retry /\ (~sandbox[j].recurs => Retries(j) >= lev[j])
    <3> DEFINE failed == {k \in Jobs : sandbox[k].parent = sandbox[j].parent /\ sandbox[k].status = "FAILED"}
    <3>1. Cardinality(failed) \in Nat
      <4>1. failed \subseteq Jobs
        OBVIOUS
      <4> QED BY <4>1, FS_Subset, FS_CardinalityType
    <3>2. Retries(j) = IF sandbox[j].retry # Null THEN sandbox[j].retry
                       ELSE IF sandbox[j].parent = NoJob THEN 0 ELSE 1 + Cardinality(failed)
      BY DEF Retries
    <3> HIDE DEF failed
    <3>3. sandbox[j].retry \in Int
      BY <2>3 DEF Row
    <3> QED BY <2>3, <3>1, <3>2, <3>3 DEF RetriesTo, Null
  <2>5. SameJob(sandbox'[j], sandbox[j])
    BY <1>1, <2>2, RowsStay DEF CopyOf
  <2> HIDE DEF new
  <2>6. task'[o].at = "candidate"
    BY <1>3, <2>1
  <2>7. /\ task'[o].retry >= sandbox'[j].retry
        /\ ~sandbox'[j].recurs => task'[o].retry >= lev2[j]
        /\ "cancelRetries" \in AdminKinds \/ task'[o].maxRetry = sandbox'[j].maxRetry
    BY <1>3, <2>1, <2>3, <2>4, <2>5 DEF SameJob
  <2> HIDE DEF j
  <2> QED BY <2>6, <2>7 DEF TaskAgrees, CopySteps, StartedSteps, j
<1>4. task'[o] = task[o] \/ (j \in claimed /\ task'[o] = new)
  BY DEF PollClaim
<1> QED BY <1>2, <1>3, <1>4

\* Starting, stopping and losing an instance takes Job objects away, or out
\* of the queue.
LEMMA LifeAgrees ==
  ASSUME ExecutionInv, NEW lev, NEW lev2, Agree(lev), \A j \in Jobs : Exists(j) => lev2[j] = lev[j],
         NEW i \in Instances, InstanceNext(i), NEW o \in TaskIds
  PROVE  TaskAgrees(o, lev2)'
<1>1. TypeOK /\ JobOf(o) \in Jobs /\ Next /\ UNCHANGED sandbox /\ TaskAgrees(o, lev)
  BY TaskIdParts, LifeSteps DEF ExecutionInv, BaseInv, Next, Agree
<1>2. task'[o] = task[o] => TaskAgrees(o, lev2)'
  BY <1>1, TaskUntouched
<1>3. CASE task'[o].at = "none"
  BY <1>3 DEF TaskAgrees, Held, CopySteps, StartedSteps
<1>4. CASE task[o].at = "inQueue" /\ task'[o].at = "drained"
  <2>1. task'[o] = task[o] \/ task'[o] = [task[o] EXCEPT !.at = "drained"] \/ task'[o] = NoTask
    BY <1>1 DEF InstanceNext, ShutDown, Crash, Exit, Die, Restart, AsyncQueue, AsyncTake, AsyncEnd
  <2>2. task[o] \in Task /\ NoTask.at = "none"
    BY <1>1, TypeOf DEF NoTask
  <2>3. task'[o].maxRetry = task[o].maxRetry /\ task'[o].retry = task[o].retry
    BY <1>4, <2>1, <2>2 DEF Task
  <2>4. Held(o) /\ Exists(JobOf(o))
    BY <1>1, <1>4 DEF Held, ExecutionInv, OnceInv, RowsExist
  <2>5. SameJob(sandbox'[JobOf(o)], sandbox[JobOf(o)])
    BY <1>1 DEF SameJob
  <2>6. task'[o].at \notin CopySteps /\ task'[o].at \notin StartedSteps /\ task'[o].at # "recur"
    BY <1>4 DEF CopySteps, StartedSteps
  <2> QED BY <1>1, <2>3, <2>4, <2>5, <2>6, TaskCarried
<1> QED BY <1>1, <1>2, <1>3, <1>4, LifeSteps

\* What a reload works on it has just read, or worked on before.
LEMMA ReloadValues ==
  ASSUME TypeOK, ReloadFirst, NEW i \in Instances, ReloadNext(i), NEW j \in reload'[i].todo
  PROVE  \/ j \in reload[i].todo /\ reload'[i].vals[j] = reload[i].vals[j]
         \/ j \in Jobs /\ Exists(j) /\ reload'[i].vals[j] = sandbox[j]
<1>1. reload[i] \in Reloading /\ Reloaded.todo = {}
  BY TypeOf DEF Reloaded, NotReloaded
<1>2. CASE ReloadQuery(i)
  <2> DEFINE found == {k \in Jobs : Crashed(i, k)}
             vals == [k \in Jobs |-> IF k \in found THEN sandbox[k] ELSE AbsentRow]
             read == [NotReloaded EXCEPT !.todo = found, !.vals = vals]
  <2>1. reload'[i] = Reloaded \/ reload'[i] = read
    BY <1>2 DEF TypeOK, ReloadQuery
  <2>2. read.todo = found /\ read.vals = vals
    BY DEF NotReloaded
  <2>3. j \in found => j \in Jobs /\ Exists(j) /\ vals[j] = sandbox[j]
    BY DEF Crashed, Exists
  <2> HIDE DEF found, vals, read
  <2> QED BY <1>1, <2>1, <2>2, <2>3
<1>3. ASSUME NEW l \in Jobs, ReloadCreate(i, l)
      PROVE  j \in reload[i].todo /\ reload'[i].vals[j] = reload[i].vals[j]
  <2>1. reload'[i] = [reload[i] EXCEPT !.half = l]
    BY <1>3 DEF TypeOK, ReloadCreate
  <2> QED BY <1>1, <2>1 DEF Reloading
<1>4. ASSUME NEW l \in Jobs, reload'[i] = AfterReloadOf(i, l)
      PROVE  j \in reload[i].todo /\ reload'[i].vals[j] = reload[i].vals[j]
  <2> DEFINE rest == [reload[i] EXCEPT !.todo = @ \ {l}, !.half = NoJob, !.vals[l] = AbsentRow]
  <2>1. rest.todo = reload[i].todo \ {l} /\ \A k \in Jobs \ {l} : rest.vals[k] = reload[i].vals[k]
    BY <1>1 DEF Reloading
  <2>2. reload'[i] = Reloaded \/ reload'[i] = rest
    BY <1>4 DEF AfterReloadOf
  <2>3. reload[i].todo \subseteq Jobs
    BY TypeOf
  <2> HIDE DEF rest
  <2> QED BY <1>1, <2>1, <2>2, <2>3
<1>5. CASE ReloadMark(i)
  <2>1. reload[i].half \in Jobs /\ reload'[i] = AfterReloadOf(i, reload[i].half)
    BY <1>5, TypeOf DEF TypeOK, ReloadMark
  <2> QED BY <1>4, <2>1
<1>6. ASSUME NEW l \in Jobs, ReloadFault(i, l)
      PROVE  j \in reload[i].todo /\ reload'[i].vals[j] = reload[i].vals[j]
  <2>1. reload'[i] = AfterReloadOf(i, l)
    BY <1>6 DEF TypeOK, ReloadFault
  <2> QED BY <1>4, <2>1
<1> QED BY <1>2, <1>3, <1>5, <1>6 DEF ReloadNext

\* Where the copies of reloads and administrative calls come from.
LEMMA OtherCopies ==
  ASSUME ExecutionInv, [Next]_vars
  PROVE  /\ \A i \in Instances : \A j \in reload'[i].todo :
              \/ j \in reload[i].todo /\ reload'[i].vals[j] = reload[i].vals[j]
              \/ j \in Jobs /\ Exists(j) /\ reload'[i].vals[j] = sandbox[j]
         /\ \/ UNCHANGED admin \/ admin' = NoCall
            \/ /\ admin'.kind \in AdminKinds /\ admin'.job \in Jobs
               /\ Exists(admin'.job) /\ admin'.val = sandbox[admin'.job]
<1> DEFINE Reloads == \A i \in Instances : \A j \in reload'[i].todo :
                        \/ j \in reload[i].todo /\ reload'[i].vals[j] = reload[i].vals[j]
                        \/ j \in Jobs /\ Exists(j) /\ reload'[i].vals[j] = sandbox[j]
           Calls == \/ UNCHANGED admin \/ admin' = NoCall
                    \/ /\ admin'.kind \in AdminKinds /\ admin'.job \in Jobs
                       /\ Exists(admin'.job) /\ admin'.val = sandbox[admin'.job]
<1>1. TypeOK /\ ReloadFirst
  BY DEF ExecutionInv, BaseInv
<1>2. UNCHANGED <<reload, admin>> => Reloads /\ Calls
  OBVIOUS
<1>3. ASSUME NEW i \in Instances, ReloadNext(i) PROVE Reloads /\ Calls
  <2>1. UNCHANGED admin /\ \A k \in Instances \ {i} : reload'[k] = reload[k]
    BY <1>1, <1>3, ReloadSteps
  <2>2. \A j \in reload'[i].todo : \/ j \in reload[i].todo /\ reload'[i].vals[j] = reload[i].vals[j]
                                   \/ j \in Jobs /\ Exists(j) /\ reload'[i].vals[j] = sandbox[j]
    BY <1>1, <1>3, ReloadValues
  <2>3. Reloads
    BY <2>1, <2>2
  <2> QED BY <2>1, <2>3
<1>4. ASSUME NEW i \in Instances, InstanceNext(i) PROVE Reloads /\ Calls
  <2>1. \A k \in Instances : reload'[k] = reload[k] \/ reload'[k] = NotReloaded
    BY <1>1, <1>4 DEF TypeOK, InstanceNext, ShutDown, Crash, Exit, Die, Restart, AsyncQueue, AsyncTake, AsyncEnd
  <2>2. NotReloaded.todo = {}
    BY DEF NotReloaded
  <2>3. UNCHANGED admin
    BY <1>1, <1>4, LifeSteps
  <2> QED BY <2>1, <2>2, <2>3
<1>5. CASE AdminNext
  <2>1. UNCHANGED reload
    BY <1>5, AdminIsQuiet
  <2>2. ASSUME NEW kind \in AdminKinds, NEW j \in Jobs, AdminRead(kind, j) PROVE Calls
    BY <2>2 DEF AdminRead
  <2>3. CancelStore \/ ResetStore \/ CancelRetriesStore => Calls
    BY DEF CancelStore, ResetStore, CancelRetriesStore
  <2>4. Calls
    BY <1>5, <2>2, <2>3 DEF AdminNext
  <2> QED BY <2>1, <2>4
<1>6. ASSUME NEW t \in Templates, Schedule(t) PROVE Reloads /\ Calls
  BY <1>2, <1>6, ScheduleIsQuiet
<1>7. ASSUME NEW i \in Instances, PollNext(i) PROVE Reloads /\ Calls
  BY <1>2, <1>7 DEF PollNext, PollSelect, PollClaim
<1>8. ASSUME NEW o \in TaskIds, TaskNext(o) PROVE Reloads /\ Calls
  BY <1>2, <1>8, TaskFrame
<1>9. UNCHANGED vars => Reloads /\ Calls
  BY <1>2 DEF vars
<1> QED BY <1>3, <1>4, <1>5, <1>6, <1>7, <1>8, <1>9 DEF Next

\* The copies agree after a step, with the levels of new rows added, if the
\* new rows have counted up to their levels.
LEMMA NextAgree ==
  ASSUME ExecutionInv, [Next]_vars, NEW lev, NEW lev2 \in [Jobs -> Nat], Agree(lev),
         \A j \in Jobs : Exists(j) => lev2[j] = lev[j],
         \A j \in Jobs : Exists(j)' /\ ~Exists(j) =>
                           CountsTo(sandbox'[j], lev2[j]) /\ RetriesTo(sandbox'[j], lev2[j])
  PROVE  Agree(lev2)'
<1>1. TypeOK /\ RowsAgree(lev) /\ ReloadsAgree(lev) /\ AdminAgrees(lev)
  BY DEF ExecutionInv, BaseInv, Agree
<1>2. \A j \in Jobs : Exists(j) => Exists(j)' /\ CopyOf(sandbox'[j], j, lev[j])
  BY RowsStay
<1>3. RowsAgree(lev2)'
  <2> SUFFICES ASSUME NEW j \in Jobs
               PROVE  IF Exists(j)' THEN CountsTo(sandbox'[j], lev2[j]) /\ RetriesTo(sandbox'[j], lev2[j])
                                    ELSE sandbox'[j] = AbsentRow
    BY DEF RowsAgree, CountsTo, RetriesTo
  <2>1. CASE Exists(j)
    <3>1. RetriesTo(sandbox[j], lev[j]) /\ lev2[j] = lev[j]
      BY <1>1, <2>1 DEF RowsAgree
    <3> QED BY <1>2, <2>1, <3>1 DEF CopyOf, SameJob, RetriesTo
  <2>2. CASE ~Exists(j) /\ ~Exists(j)'
    BY <1>1, <2>2, AbsentStay DEF RowsAgree
  <2> QED BY <2>1, <2>2
<1>4. ReloadsAgree(lev2)'
  <2> SUFFICES ASSUME NEW i \in Instances, NEW j \in reload'[i].todo
               PROVE  CopyOf(reload[i].vals[j], j, lev2[j])'
    BY DEF ReloadsAgree
  <2>1. \/ j \in reload[i].todo /\ reload'[i].vals[j] = reload[i].vals[j]
        \/ j \in Jobs /\ Exists(j) /\ reload'[i].vals[j] = sandbox[j]
    BY OtherCopies
  <2>2. j \in Jobs /\ Exists(j)
    BY <1>1, <2>1, TypeOf DEF ExecutionInv, OnceInv, RowsExist
  <2>3. CopyOf(reload'[i].vals[j], j, lev[j])
    BY <1>1, <2>1, RowIsCopy DEF ReloadsAgree
  <2>4. SameJob(sandbox'[j], sandbox[j]) /\ lev2[j] = lev[j]
    BY <1>2, <2>2 DEF CopyOf
  <2> QED BY <2>3, <2>4 DEF CopyOf, SameJob, CountsTo
<1>5. AdminAgrees(lev2)'
  <2> SUFFICES ASSUME admin'.kind # "none"
               PROVE  /\ CopyOf(admin.val, admin.job, lev2[admin.job])'
                      /\ admin'.kind = "cancelRetries" => "cancelRetries" \in AdminKinds
    BY DEF AdminAgrees, Kinds
  <2>1. NoCall.kind = "none"
    BY DEF NoCall
  <2>2. \/ UNCHANGED admin
        \/ admin'.kind \in AdminKinds /\ admin'.job \in Jobs
           /\ Exists(admin'.job) /\ admin'.val = sandbox[admin'.job]
    BY <2>1, OtherCopies
  <2>3. admin'.job \in Jobs /\ Exists(admin'.job)
    BY <1>1, <2>2, AdminCallType DEF ExecutionInv, OnceInv, RowsExist
  <2>4. CopyOf(admin'.val, admin'.job, lev[admin'.job])
    BY <1>1, <2>2, RowIsCopy DEF AdminAgrees
  <2>5. SameJob(sandbox'[admin'.job], sandbox[admin'.job]) /\ lev2[admin'.job] = lev[admin'.job]
    BY <1>2, <2>3 DEF CopyOf
  <2>6. CopyOf(admin.val, admin.job, lev2[admin.job])'
    BY <2>4, <2>5 DEF CopyOf, SameJob, CountsTo
  <2> QED BY <1>1, <2>2, <2>6 DEF AdminAgrees
<1>6. \A o \in TaskIds : TaskAgrees(o, lev2)'
  <2> SUFFICES ASSUME NEW o \in TaskIds PROVE TaskAgrees(o, lev2)'
    OBVIOUS
  <2>1. task'[o] = task[o] => TaskAgrees(o, lev2)'
    BY TaskUntouched
  <2>2. ASSUME NEW p \in TaskIds, TaskNext(p) PROVE TaskAgrees(o, lev2)'
    <3>1. o # p => task'[o] = task[o]
      BY <1>1, <2>2, OtherTasksAfter
    <3>2. JobOf(p) \in Jobs /\ Exists(JobOf(p))
      BY <2>2, TaskIdParts, TaskFrame DEF ExecutionInv, OnceInv, RowsExist, Held
    <3>3. lev2[JobOf(p)] = lev[JobOf(p)]
      BY <3>2
    <3> QED BY <2>1, <2>2, <3>1, <3>3, TaskKeepsAgree
  <2>3. ASSUME NEW i \in Instances, PollNext(i) PROVE TaskAgrees(o, lev2)'
    BY <2>1, <2>3, ClaimAgrees DEF PollNext, PollSelect
  <2>4. ASSUME NEW i \in Instances, InstanceNext(i) PROVE TaskAgrees(o, lev2)'
    BY <2>4, LifeAgrees
  <2>5. ASSUME NEW i \in Instances, ReloadNext(i) PROVE UNCHANGED task
    BY <2>5, ReloadIsQuiet DEF Quiet
  <2>6. ASSUME NEW t \in Templates, Schedule(t) PROVE UNCHANGED task
    BY <2>6, ScheduleIsQuiet DEF Quiet
  <2>7. AdminNext => UNCHANGED task
    BY AdminIsQuiet DEF Quiet
  <2> QED BY <2>1, <2>2, <2>3, <2>4, <2>5, <2>6, <2>7 DEF Next, vars
<1> QED BY <1>3, <1>4, <1>5, <1>6 DEF Agree

-----------------------------------------------------------------------------
(* How the table grows *)

\* A row is scheduled, ...
Fresh(k) == /\ NextFree(k) /\ \E t \in Templates : Store(k, Scheduled(t))
            /\ UNCHANGED <<recovered, runs, task>>
\* ... copied from a crashed one, ...
Recovers(k, j) == /\ NextFree(k)
                  /\ \E i \in Instances : j \in reload[i].todo /\ Store(k, CrashCopy(j, reload[i].vals[j]))
                  /\ recovered' = recovered \cup {k}
                  /\ UNCHANGED <<runs, task>>
\* ... or the successor of one, its next occurrence or its retry.
Succeeds(k, o) == /\ NextFree(k)
                  /\ \/ /\ task[o].at = "recur" /\ Store(k, Recurrence(JobOf(o), task[o].val, 0))
                        /\ runs' = [runs EXCEPT ![JobOf(o)] = @ + 1]
                     \/ /\ task[o].at = "service" /\ RetryDue(task[o]) /\ UNCHANGED runs
                        /\ Store(k, Recurrence(JobOf(o), task[o].val, task[o].retry + 1))
                  /\ task'[o].next /\ task'[o].at \in InService
                  /\ UNCHANGED recovered
Steady == UNCHANGED recovered /\ \A j \in Jobs : Exists(j)' => Exists(j)

\* Every step is one of these.
LEMMA Growth ==
  ASSUME ExecutionInv, [Next]_vars
  PROVE  \/ Steady
         \/ \E k \in Jobs : \/ Fresh(k)
                            \/ \E j \in Jobs : Recovers(k, j)
                            \/ \E o \in TaskIds : Succeeds(k, o) /\ TaskNext(o)
<1>1. TypeOK /\ RowsExist
  BY DEF ExecutionInv, BaseInv, OnceInv
<1>2. UNCHANGED <<sandbox, recovered>> => Steady
  BY DEF Steady, Exists
<1>3. ASSUME NEW j \in Jobs, NEW row, Exists(j), Store(j, row), UNCHANGED recovered PROVE Steady
  <2>1. \A k \in Jobs : k # j => sandbox'[k] = sandbox[k]
    BY <1>1, <1>3 DEF TypeOK, Store
  <2> QED BY <1>3, <2>1 DEF Steady, Exists
<1>4. ASSUME NEW o \in TaskIds, TaskNext(o) PROVE Steady \/ \E k \in Jobs : Succeeds(k, o)
  <2>1. JobOf(o) \in Jobs /\ Exists(JobOf(o))
    BY <1>1, <1>4, TaskIdParts, TaskFrame DEF RowsExist, Held
  <2>2. UNCHANGED recovered
    BY <1>4, TaskFrame
  <2>3. CASE QueueRefresh(o) \/ DeQueueRefresh(o) \/ Take(o) \/ InitRefresh(o) \/ DbFault(o)
    BY <1>2, <2>2, <2>3 DEF QueueRefresh, DeQueueRefresh, Take, InitRefresh, DbFault
  <2>4. CASE QueueStore(o) \/ DeQueueStore(o) \/ InitStore(o) \/ Finish(o) \/ StoreFailed(o)
    BY <1>3, <2>1, <2>2, <2>4 DEF QueueStore, DeQueueStore, InitStore, Finish, StoreFailed
  <2>5. CASE Recur(o)
    <3>1. CASE UNCHANGED sandbox
      BY <1>2, <2>2, <3>1
    <3>2. CASE task' = [task EXCEPT ![o].at = "service", ![o].next = TRUE]
      <4>1. task'[o].next /\ task'[o].at \in InService
        BY <1>1, <3>2, CopyAfter DEF InService
      <4> QED BY <1>2, <2>2, <2>5, <4>1 DEF Recur, Succeeds
    <3> QED BY <2>5, <3>1, <3>2 DEF Recur
  <2>6. CASE FailAndRetry(o)
    <3>1. task'[o].next /\ task'[o].at \in InService
      BY <1>1, <2>6, CopyAfter DEF FailAndRetry, InService
    <3> QED BY <2>2, <2>6, <3>1 DEF FailAndRetry, Succeeds, history
  <2> QED BY <1>4, <2>3, <2>4, <2>5, <2>6 DEF TaskNext
<1>5. ASSUME NEW t \in Templates, Schedule(t) PROVE \E k \in Jobs : Fresh(k)
  BY <1>5 DEF Schedule, Scheduled, Fresh, history
<1>6. ASSUME NEW i \in Instances, ReloadNext(i) PROVE Steady \/ \E k, j \in Jobs : Recovers(k, j)
  <2>1. CASE ReloadQuery(i) \/ \E j \in Jobs : ReloadFault(i, j)
    BY <1>2, <2>1 DEF ReloadQuery, ReloadFault, history
  <2>2. ASSUME NEW j \in Jobs, ReloadCreate(i, j) PROVE \E k \in Jobs : Recovers(k, j)
    BY <2>2 DEF ReloadCreate, Recovers
  <2>3. CASE ReloadMark(i)
    <3>1. reload[i].half \in Jobs /\ Exists(reload[i].half)
      BY <1>1, <2>3, TypeOf DEF ReloadMark, ReloadFirst, RowsExist, ExecutionInv, BaseInv
    <3> QED BY <1>3, <2>3, <3>1 DEF ReloadMark, history
  <2> QED BY <1>6, <2>1, <2>2, <2>3 DEF ReloadNext
<1>7. ASSUME NEW i \in Instances, PollNext(i) PROVE Steady
  <2>1. CASE PollSelect(i)
    BY <1>2, <2>1 DEF PollSelect, history
  <2>2. ASSUME NEW claimed \in SUBSET poller[i].due, PollClaim(i, claimed) PROVE Steady
    BY <2>2, ClaimSteps DEF Steady, PollClaim, history
  <2> QED BY <1>7, <2>1, <2>2 DEF PollNext
<1>8. ASSUME NEW i \in Instances, InstanceNext(i) PROVE Steady
  <2>1. UNCHANGED recovered
    BY <1>8 DEF InstanceNext, ShutDown, Crash, Exit, Die, Restart, AsyncQueue, AsyncTake, AsyncEnd, history
  <2> QED BY <1>1, <1>2, <1>8, <2>1, LifeSteps
<1>9. AdminNext => Steady
  <2>1. admin.kind # "none" => admin.job \in Jobs /\ Exists(admin.job)
    BY <1>1, AdminCallType DEF RowsExist
  <2>2. AdminNext => UNCHANGED recovered
    BY DEF AdminNext, AdminRead, CancelStore, ResetStore, CancelRetriesStore, history
  <2>3. AdminNext => UNCHANGED sandbox \/ (admin.kind # "none" /\ \E row : Store(admin.job, row))
    BY DEF AdminNext, AdminRead, CancelStore, ResetStore, CancelRetriesStore
  <2> QED BY <1>2, <1>3, <2>1, <2>2, <2>3
<1>10. UNCHANGED vars => Steady
  BY <1>2 DEF vars
<1> QED BY <1>4, <1>5, <1>6, <1>7, <1>8, <1>9, <1>10 DEF Next

-----------------------------------------------------------------------------
(* The place of a row in its chain *)

SameLimits(a, b) == /\ a.recurs = b.recurs /\ a.maxRecur = b.maxRecur
                    /\ "cancelRetries" \in AdminKinds \/ a.maxRetry = b.maxRetry
Root(k) == RootOf(k, sandbox[k])

\* The chain of a row goes back to a root with the same limits; its head is
\* the root or a copy in the chain, the level counts the successors since.
Rooted(k) ==
  LET row == sandbox[k] IN
  /\ row.prev = NoJob <=> row.parent = NoJob
  /\ row.prev # NoJob => /\ Exists(row.prev) /\ Exists(row.parent)
                         /\ sandbox[row.parent].parent = NoJob
                         /\ SameLimits(row, sandbox[row.parent])
Headed(k, head, lev) ==
  /\ IF k \in recovered \/ sandbox[k].prev = NoJob
     THEN head[k] = k /\ lev[k] = 0
     ELSE head[k] = head[sandbox[k].prev] /\ lev[k] = lev[sandbox[k].prev] + 1
  /\ Exists(head[k]) /\ Root(head[k]) = Root(k)
  /\ head[k] \in recovered \/ head[k] = Root(k)

\* The limits bound the level: of a retry by the number of retries, of any
\* other row by the number of recurrences.
Limited(k, lev) ==
  LET row == sandbox[k] IN
  /\ row.maxRecur >= 0 => \/ lev[k] <= row.maxRecur
                          \/ row.prev # NoJob /\ row.retry > sandbox[row.prev].retry
  /\ ~row.recurs /\ row.maxRetry >= 0 => "cancelRetries" \in AdminKinds \/ lev[k] <= row.maxRetry
Placed(k, head, lev) == Rooted(k) /\ Headed(k, head, lev) /\ Limited(k, lev)

\* No two rows have the same place, ...
Distinct(head, lev) == \A k, l \in Jobs :
  Exists(k) /\ Exists(l) /\ head[k] = head[l] /\ lev[k] = lev[l] => k = l
\* ... because a row has no successor before its service starts, and while
\* the service runs only one that its Job object knows of.
Childless == \A j \in Jobs : Followers(j) # {} =>
  /\ runs[j] # 0
  /\ \A o \in TaskIds : JobOf(o) = j /\ task[o].at = "service" => task[o].next

RecoveredExist == \A k \in recovered : Exists(k)
PlacesFit(head, lev) == Agree(lev) /\ Distinct(head, lev) /\ \A k \in Jobs : Exists(k) => Placed(k, head, lev)
ChainInv == /\ ExecutionInv /\ RecoveredExist /\ Childless
            /\ \E head \in [Jobs -> Jobs], lev \in [Jobs -> Nat] : PlacesFit(head, lev)

\* What a new row has.
LEMMA ScheduledFields ==
  ASSUME NEW t \in Templates
  PROVE  /\ Scheduled(t).prev = NoJob /\ Scheduled(t).parent = NoJob
         /\ Scheduled(t).curRecur = 0 /\ Scheduled(t).retry \in {0, Null}
<1>1. t.retry \in {0, Null}
  BY DEF Template
<1> QED BY <1>1 DEF Scheduled, AbsentRow

LEMMA RecurrenceFields ==
  ASSUME NEW j \in Jobs, NEW row \in Row, NEW n \in Int, NEW new, new = Recurrence(j, row, n)
  PROVE  /\ new.prev = j /\ new.parent = RootOf(j, row) /\ new.retry = n
         /\ new.recurs = row.recurs /\ new.maxRecur = row.maxRecur /\ new.maxRetry = row.maxRetry
         /\ new.curRecur = row.curRecur
BY DEF Recurrence, Row

\* The rows that exist keep their places: head2 and lev2 extend head and lev.
Extends(head2, lev2, head, lev) ==
  \A j \in Jobs : Exists(j) => head2[j] = head[j] /\ lev2[j] = lev[j] /\ (j \in recovered' <=> j \in recovered)

\* A step inserts row k at most, and gives it a place that is free.
NoOther(k) == \A j \in Jobs : Exists(j)' /\ ~Exists(j) => j = k
FreePlace(k, head2, lev2, head, lev) ==
  ~Exists(k) /\ Exists(k)' => /\ CountsTo(sandbox'[k], lev2[k]) /\ RetriesTo(sandbox'[k], lev2[k])
                              /\ Placed(k, head2, lev2)'
                              /\ \A l \in Jobs : Exists(l) => ~(head2[k] = head[l] /\ lev2[k] = lev[l])

LEMMA PlacedStay ==
  ASSUME ExecutionInv, [Next]_vars, NEW head \in [Jobs -> Jobs], NEW lev, Agree(lev),
         NEW head2, NEW lev2, Extends(head2, lev2, head, lev),
         NEW k \in Jobs, Exists(k), Placed(k, head, lev)
  PROVE  Placed(k, head2, lev2)'
<1>1. \A j \in Jobs : Exists(j) => Exists(j)' /\ SameJob(sandbox'[j], sandbox[j])
  BY RowsStay DEF CopyOf
<1>2. sandbox[k].prev \in Jobs \cup {NoJob} /\ sandbox[k].parent \in Jobs \cup {NoJob} /\ head[k] \in Jobs
  <2>1. sandbox[k] \in Row
    BY TypeOf DEF ExecutionInv, BaseInv
  <2> QED BY <2>1 DEF Row
<1>3. \A j \in Jobs : Exists(j) => Root(j)' = Root(j)
  BY <1>1 DEF Root, RootOf, SameJob
<1>4. Rooted(k)'
  <2>1. Rooted(k)
    BY DEF Placed
  <2> QED BY <1>1, <1>2, <2>1 DEF Rooted, SameJob, SameLimits
<1>5. Headed(k, head2, lev2)'
  <2>1. Headed(k, head, lev) /\ (sandbox[k].prev # NoJob => Exists(sandbox[k].prev)) /\ Exists(head[k])
    BY DEF Placed, Rooted, Headed
  <2>2. sandbox'[k].prev = sandbox[k].prev /\ head2[k] = head[k] /\ lev2[k] = lev[k]
        /\ (k \in recovered' <=> k \in recovered)
    BY <1>1 DEF SameJob, Extends
  <2>3. /\ sandbox[k].prev # NoJob => /\ head2[sandbox[k].prev] = head[sandbox[k].prev]
                                      /\ lev2[sandbox[k].prev] = lev[sandbox[k].prev]
        /\ head[k] \in recovered' <=> head[k] \in recovered
    BY <1>2, <2>1 DEF Extends
  <2>4. Exists(head[k])' /\ Root(head[k])' = Root(k)'
    BY <1>1, <1>2, <1>3, <2>1 DEF Headed
  <2>5. head2[k] \in recovered' \/ head2[k] = Root(k)'
    BY <1>2, <1>3, <2>1, <2>2, <2>3 DEF Headed
  <2>6. Exists(head2[k])' /\ Root(head2[k])' = Root(k)'
    BY <2>2, <2>4
  <2> QED BY <2>1, <2>2, <2>3, <2>5, <2>6 DEF Headed
<1>6. Limited(k, lev2)'
  <2>1. Limited(k, lev) /\ (sandbox[k].prev # NoJob => Exists(sandbox[k].prev)) /\ lev2[k] = lev[k]
    BY DEF Placed, Rooted, Extends
  <2> QED BY <1>1, <1>2, <2>1 DEF Limited, SameJob
<1> QED BY <1>4, <1>5, <1>6 DEF Placed

\* A step leaves every place as it should be if it does so for a new row.
LEMMA NextPlaces ==
  ASSUME ExecutionInv, [Next]_vars, NEW head \in [Jobs -> Jobs], NEW lev, PlacesFit(head, lev),
         NEW head2, NEW lev2 \in [Jobs -> Nat], Extends(head2, lev2, head, lev),
         NEW k \in Jobs, NoOther(k), FreePlace(k, head2, lev2, head, lev)
  PROVE  PlacesFit(head2, lev2)'
<1> USE DEF NoOther, FreePlace
<1>1. Agree(lev) /\ Distinct(head, lev) /\ \A j \in Jobs : Exists(j) => Placed(j, head, lev)
  BY DEF PlacesFit
<1>2. Agree(lev2)'
  <2>1. \A j \in Jobs : Exists(j) => lev2[j] = lev[j]
    BY DEF Extends
  <2>2. \A j \in Jobs : Exists(j)' /\ ~Exists(j) =>
                          CountsTo(sandbox'[j], lev2[j]) /\ RetriesTo(sandbox'[j], lev2[j])
    OBVIOUS
  <2> QED BY <1>1, <2>1, <2>2, NextAgree
<1>3. Distinct(head2, lev2)'
  <2> SUFFICES ASSUME NEW j \in Jobs, NEW l \in Jobs, Exists(j)', Exists(l)', head2[j] = head2[l], lev2[j] = lev2[l]
               PROVE  j = l
    BY DEF Distinct
  <2>1. CASE Exists(j) /\ Exists(l)
    BY <1>1, <2>1 DEF Distinct, Extends
  <2>2. CASE ~Exists(j) /\ Exists(l)
    BY <2>2 DEF Extends
  <2>3. CASE Exists(j) /\ ~Exists(l)
    BY <2>3 DEF Extends
  <2>4. CASE ~Exists(j) /\ ~Exists(l)
    BY <2>4
  <2> QED BY <2>1, <2>2, <2>3, <2>4
<1>4. ASSUME NEW j \in Jobs, Exists(j)' PROVE Placed(j, head2, lev2)'
  <2>1. CASE Exists(j)
    BY <1>1, <2>1, PlacedStay
  <2>2. CASE ~Exists(j)
    BY <1>4, <2>2
  <2> QED BY <2>1, <2>2
<1> QED BY <1>2, <1>3, <1>4 DEF PlacesFit

\* A row that follows another is placed where it says, if the limits allow.
LEMMA FollowerPlaced ==
  ASSUME ExecutionInv, [Next]_vars, NEW head \in [Jobs -> Jobs], NEW lev, Agree(lev),
         NEW head2, NEW lev2, Extends(head2, lev2, head, lev),
         NEW j \in Jobs, Exists(j), Placed(j, head, lev),
         NEW k \in Jobs, Exists(k)', sandbox'[k].prev = j, sandbox'[k].parent = Root(j),
         SameLimits(sandbox'[k], sandbox[j]), Limited(k, lev2)',
         \/ k \in recovered' /\ head2[k] = k /\ lev2[k] = 0
         \/ k \notin recovered' /\ head2[k] = head[j] /\ lev2[k] = lev[j] + 1
  PROVE  Placed(k, head2, lev2)'
<1>1. \A l \in Jobs : Exists(l) => Exists(l)' /\ SameJob(sandbox'[l], sandbox[l])
  BY RowsStay DEF CopyOf
<1>2. sandbox[j].prev \in Jobs \cup {NoJob} /\ sandbox[j].parent \in Jobs \cup {NoJob} /\ head[j] \in Jobs
  <2>1. sandbox[j] \in Row
    BY TypeOf DEF ExecutionInv, BaseInv
  <2> QED BY <2>1 DEF Row
<1>3. Root(j) \in Jobs /\ Exists(Root(j)) /\ sandbox[Root(j)].parent = NoJob
      /\ SameLimits(sandbox[j], sandbox[Root(j)])
  BY <1>2 DEF Placed, Rooted, Root, RootOf, SameLimits
<1>4. Rooted(k)'
  <2>1. PICK r \in Jobs : r = Root(j)
    BY <1>3
  <2>2. Exists(j)' /\ Exists(r)' /\ sandbox'[r].parent = NoJob
        /\ SameLimits(sandbox'[k], sandbox'[r])
    BY <1>1, <1>3, <2>1 DEF SameJob, SameLimits
  <2> QED BY <2>1, <2>2 DEF Rooted
<1>5. Headed(k, head2, lev2)'
  <2>1. Root(k)' = Root(j)
    BY <1>3 DEF Root, RootOf
  <2>2. CASE k \in recovered'
    BY <2>2 DEF Headed
  <2>3. CASE k \notin recovered'
    <3>1. head2[k] = head2[j] /\ lev2[k] = lev2[j] + 1 /\ head2[k] = head[j]
      BY <2>3 DEF Extends
    <3>2. Exists(head[j]) /\ Root(head[j]) = Root(j) /\ (head[j] \in recovered \/ head[j] = Root(j))
      BY DEF Placed, Headed
    <3>3. Exists(head[j])' /\ Root(head[j])' = Root(k)'
      BY <1>1, <1>2, <2>1, <3>2 DEF Root, RootOf, SameJob
    <3>4. head[j] \in recovered' \/ head[j] = Root(k)'
      BY <1>2, <2>1, <3>2 DEF Extends
    <3>5. Exists(head2[k])' /\ Root(head2[k])' = Root(k)' /\ (head2[k] \in recovered' \/ head2[k] = Root(k)')
      BY <3>1, <3>3, <3>4
    <3>6. sandbox'[k].prev # NoJob
      OBVIOUS
    <3> QED BY <2>3, <3>1, <3>5, <3>6 DEF Headed
  <2> QED BY <2>2, <2>3
<1> QED BY <1>4, <1>5 DEF Placed

\* A row that is inserted under a free key.
LEMMA InsertedRow ==
  ASSUME TypeOK, NEW k \in Jobs, NEW row, NextFree(k), Store(k, row)
  PROVE  /\ ~Exists(k) /\ sandbox'[k] = row
         /\ NoOther(k)
BY DEF TypeOK, NextFree, Store, Exists, NoOther

\* Places can be given to a new row.
Given(head2, lev2, head, lev, k, top, n) ==
  /\ head2 \in [Jobs -> Jobs] /\ lev2 \in [Jobs -> Nat] /\ head2[k] = top /\ lev2[k] = n
  /\ \A j \in Jobs : Exists(j) => head2[j] = head[j] /\ lev2[j] = lev[j]

LEMMA Extension ==
  ASSUME NEW head \in [Jobs -> Jobs], NEW lev \in [Jobs -> Nat], NEW k \in Jobs, ~Exists(k),
         NEW top \in Jobs, NEW n \in Nat
  PROVE  \E head2, lev2 : Given(head2, lev2, head, lev, k, top, n)
<1> DEFINE head2 == [head EXCEPT ![k] = top]
           lev2 == [lev EXCEPT ![k] = n]
<1>1. Given(head2, lev2, head, lev, k, top, n)
  BY DEF Given
<1> QED BY <1>1

\* A scheduled row is the root of a chain of its own.
LEMMA FreshPlaces ==
  ASSUME ExecutionInv, [Next]_vars, NEW head \in [Jobs -> Jobs], NEW lev \in [Jobs -> Nat], PlacesFit(head, lev),
         NEW k \in Jobs, Fresh(k)
  PROVE  \E head2 \in [Jobs -> Jobs], lev2 \in [Jobs -> Nat] : PlacesFit(head2, lev2)'
<1>1. PICK t \in Templates : Store(k, Scheduled(t))
  BY DEF Fresh
<1>2. ~Exists(k) /\ sandbox'[k] = Scheduled(t) /\ NoOther(k)
  BY <1>1, InsertedRow DEF Fresh, ExecutionInv, BaseInv
<1>3. sandbox'[k].prev = NoJob /\ sandbox'[k].parent = NoJob
      /\ sandbox'[k].curRecur = 0 /\ sandbox'[k].retry \in {0, Null}
  BY <1>2, ScheduledFields
<1>4. PICK head2, lev2 : Given(head2, lev2, head, lev, k, k, 0)
  <2>1. ~Exists(k) /\ 0 \in Nat
    BY <1>2
  <2> QED BY <2>1, Extension
<1> USE DEF Given
<1>5. Extends(head2, lev2, head, lev)
  BY <1>4 DEF Extends, Fresh
<1>6. CountsTo(sandbox'[k], lev2[k]) /\ RetriesTo(sandbox'[k], lev2[k])
  BY <1>3, <1>4 DEF CountsTo, RetriesTo, Null
<1>7. ASSUME Exists(k)' PROVE Placed(k, head2, lev2)'
  <2>1. Rooted(k)'
    BY <1>3 DEF Rooted
  <2>2. Root(k)' = k
    BY <1>3 DEF Root, RootOf
  <2>3. Headed(k, head2, lev2)'
    <3>1. (k \in recovered \/ sandbox[k].prev = NoJob)' /\ Exists(head2[k])' /\ Root(head2[k])' = Root(k)'
      BY <1>3, <1>4, <1>7
    <3> QED BY <1>4, <2>2, <3>1 DEF Headed
  <2>4. Limited(k, lev2)'
    <3>1. sandbox'[k].maxRecur >= 0 => lev2[k] <= sandbox'[k].maxRecur
      BY <1>4
    <3>2. sandbox'[k].maxRetry >= 0 => lev2[k] <= sandbox'[k].maxRetry
      BY <1>4
    <3> QED BY <3>1, <3>2 DEF Limited
  <2> QED BY <2>1, <2>3, <2>4 DEF Placed
<1>8. \A l \in Jobs : Exists(l) => ~(head2[k] = head[l] /\ lev2[k] = lev[l])
  BY <1>2, <1>4 DEF PlacesFit, Placed, Headed
<1>9. PlacesFit(head2, lev2)'
  <2>1. FreePlace(k, head2, lev2, head, lev)
    BY <1>6, <1>7, <1>8 DEF FreePlace
  <2>2. NoOther(k) /\ lev2 \in [Jobs -> Nat]
    BY <1>2, <1>4
  <2> QED BY <1>5, <2>1, <2>2, NextPlaces
<1> QED BY <1>4, <1>9

\* So is the copy of a crashed row within its chain.
LEMMA RecoverPlaces ==
  ASSUME ExecutionInv, [Next]_vars, NEW head \in [Jobs -> Jobs], NEW lev \in [Jobs -> Nat], PlacesFit(head, lev),
         NEW k \in Jobs, NEW j \in Jobs, Recovers(k, j)
  PROVE  \E head2 \in [Jobs -> Jobs], lev2 \in [Jobs -> Nat] : PlacesFit(head2, lev2)'
<1>1. PICK i \in Instances : j \in reload[i].todo /\ Store(k, CrashCopy(j, reload[i].vals[j]))
  BY DEF Recovers
<1> DEFINE row == reload[i].vals[j]
<1>2. row \in Row /\ row.retry \in Int /\ Exists(j) /\ CopyOf(row, j, lev[j]) /\ Placed(j, head, lev)
      /\ RetriesTo(sandbox[j], lev[j]) /\ lev[j] \in Nat
  <2>1. row \in Row
    BY TypeOf DEF ExecutionInv, BaseInv
  <2>2. Exists(j)
    BY <1>1 DEF ExecutionInv, OnceInv, RowsExist
  <2>3. CopyOf(row, j, lev[j]) /\ Placed(j, head, lev) /\ RetriesTo(sandbox[j], lev[j])
    BY <1>1, <2>2 DEF PlacesFit, Agree, ReloadsAgree, RowsAgree
  <2> QED BY <2>1, <2>2, <2>3 DEF Row
<1> HIDE DEF row
<1>3. ~Exists(k) /\ sandbox'[k] = Recurrence(j, row, row.retry) /\ NoOther(k)
  <2>1. CrashCopy(j, row) = Recurrence(j, row, row.retry)
    BY DEF CrashCopy
  <2>2. Store(k, CrashCopy(j, row))
    BY <1>1 DEF row
  <2> QED BY <2>1, <2>2, InsertedRow DEF Recovers, ExecutionInv, BaseInv
<1>4. /\ sandbox'[k].prev = j /\ sandbox'[k].parent = RootOf(j, row) /\ sandbox'[k].retry = row.retry
      /\ sandbox'[k].recurs = row.recurs /\ sandbox'[k].maxRecur = row.maxRecur
      /\ sandbox'[k].maxRetry = row.maxRetry /\ sandbox'[k].curRecur = row.curRecur
  BY <1>2, <1>3, RecurrenceFields
<1>5. sandbox'[k].parent = Root(j) /\ SameLimits(sandbox'[k], sandbox[j])
  BY <1>2, <1>4 DEF Root, RootOf, CopyOf, SameJob, SameLimits
<1>6. PICK head2, lev2 : Given(head2, lev2, head, lev, k, k, 0)
  <2>1. ~Exists(k) /\ 0 \in Nat
    BY <1>3
  <2> QED BY <2>1, Extension
<1> USE DEF Given
<1>7. Extends(head2, lev2, head, lev) /\ k \in recovered'
  BY <1>3, <1>6 DEF Extends, Recovers
<1>8. CountsTo(sandbox'[k], lev2[k]) /\ RetriesTo(sandbox'[k], lev2[k])
  <2>1. row.maxRecur >= 0 => row.curRecur >= 0
    <3>1. row.curRecur \in Int
      BY <1>2 DEF Row
    <3> QED BY <1>2, <3>1 DEF CopyOf, CountsTo
  <2>2. ~row.recurs /\ row.retry # Null => row.retry >= 0
    BY <1>2 DEF CopyOf, SameJob, RetriesTo
  <2> QED BY <1>4, <1>6, <2>1, <2>2 DEF CountsTo, RetriesTo
<1>9. Limited(k, lev2)'
  <2>1. sandbox'[k].maxRecur >= 0 => lev2[k] <= sandbox'[k].maxRecur
    BY <1>6
  <2>2. sandbox'[k].maxRetry >= 0 => lev2[k] <= sandbox'[k].maxRetry
    BY <1>6
  <2> QED BY <2>1, <2>2 DEF Limited
<1>10. Exists(k)' => Placed(k, head2, lev2)'
  BY <1>2, <1>4, <1>5, <1>6, <1>7, <1>9, FollowerPlaced DEF PlacesFit
<1>11. \A l \in Jobs : Exists(l) => ~(head2[k] = head[l] /\ lev2[k] = lev[l])
  BY <1>3, <1>6 DEF PlacesFit, Placed, Headed
<1>12. PlacesFit(head2, lev2)'
  <2>1. FreePlace(k, head2, lev2, head, lev)
    BY <1>8, <1>10, <1>11 DEF FreePlace
  <2>2. NoOther(k) /\ lev2 \in [Jobs -> Nat]
    BY <1>3, <1>6
  <2> QED BY <1>7, <2>1, <2>2, NextPlaces
<1> QED BY <1>6, <1>12

\* The place after a row that has no successor is free.
LEMMA NoTwin ==
  ASSUME TypeOK, NEW head \in [Jobs -> Jobs], NEW lev \in [Jobs -> Nat], PlacesFit(head, lev),
         NEW j \in Jobs, Exists(j), Followers(j) = {}, NEW l \in Jobs, Exists(l)
  PROVE  ~(head[l] = head[j] /\ lev[l] = lev[j] + 1)
<1> SUFFICES ASSUME head[l] = head[j], lev[l] = lev[j] + 1 PROVE FALSE
  OBVIOUS
<1> DEFINE p == sandbox[l].prev
<1>1. Rooted(l) /\ Headed(l, head, lev)
  BY DEF PlacesFit, Placed
<1>2. p \in Jobs \cup {NoJob}
  <2>1. sandbox[l] \in Row
    BY TypeOf
  <2> QED BY <2>1 DEF Row
<1>3. l \notin recovered /\ p # NoJob
  BY <1>1 DEF Headed
<1>4. p \in Jobs /\ Exists(p) /\ head[l] = head[p] /\ lev[l] = lev[p] + 1
  BY <1>1, <1>2, <1>3 DEF Headed, Rooted
<1>5. head[p] = head[j] /\ lev[p] = lev[j]
  <2>1. lev[p] \in Nat /\ lev[j] \in Nat
    BY <1>4
  <2> QED BY <1>4, <2>1
<1>6. p = j
  BY <1>4, <1>5 DEF PlacesFit, Distinct
<1> QED BY <1>3, <1>6 DEF Followers

\* A service that creates a successor has created none before.
LEMMA SuccessorIsFirst ==
  ASSUME ExecutionInv, Childless, NEW o \in TaskIds, NEW k \in Jobs, Succeeds(k, o)
  PROVE  Followers(JobOf(o)) = {}
<1>1. JobOf(o) \in Jobs
  BY TaskIdParts
<1>2. CASE task[o].at = "recur"
  <2>1. runs[JobOf(o)] = 0
    BY <1>2 DEF ExecutionInv, OnceInv, RunsFit, BeforeService
  <2> QED BY <1>1, <2>1 DEF Childless
<1>3. CASE task[o].at = "service" /\ RetryDue(task[o])
  <2>1. ~task[o].next
    BY <1>3 DEF RetryDue
  <2> QED BY <1>1, <1>3, <2>1 DEF Childless
<1> QED BY <1>2, <1>3 DEF Succeeds

\* A successor has the next place.
LEMMA SucceedPlaces ==
  ASSUME ExecutionInv, RecoveredExist, Childless,
         NEW head \in [Jobs -> Jobs], NEW lev \in [Jobs -> Nat], PlacesFit(head, lev),
         NEW k \in Jobs, NEW o \in TaskIds, TaskNext(o), Succeeds(k, o)
  PROVE  \E head2 \in [Jobs -> Jobs], lev2 \in [Jobs -> Nat] : PlacesFit(head2, lev2)'
<1> DEFINE j == JobOf(o)
           row == task[o].val
<1>1. /\ j \in Jobs /\ Exists(j) /\ row \in Row /\ lev[j] \in Nat /\ head[j] \in Jobs
      /\ task[o].retry \in Int /\ task[o].maxRetry \in Int
  BY TaskIdParts, TaskFrame, TypeOf
     DEF ExecutionInv, BaseInv, OnceInv, RowsExist, Held, Task
<1>0. TypeOK /\ [Next]_vars
  BY DEF ExecutionInv, BaseInv, Next
<1>2. TaskAgrees(o, lev) /\ Agree(lev) /\ Placed(j, head, lev)
  BY <1>1 DEF PlacesFit, Agree
<1>3. task[o].at \in StartedSteps
  BY DEF Succeeds, StartedSteps
<1>4. /\ CopyOf(row, j, lev[j]) /\ CountsTo(row, lev[j] + 1)
      /\ task[o].retry >= sandbox[j].retry
      /\ ~sandbox[j].recurs => task[o].retry >= lev[j]
      /\ "cancelRetries" \in AdminKinds \/ task[o].maxRetry = sandbox[j].maxRetry
  BY <1>2, <1>3 DEF TaskAgrees, CopySteps, Held, StartedSteps
<1>5. PICK n \in Int : /\ Store(k, Recurrence(j, row, n))
                       /\ \/ MayRecur(row)
                          \/ n = task[o].retry + 1 /\ CanRetry(task[o])
  <2>1. task[o].at = "recur" => MayRecur(row)
    BY <1>2 DEF TaskAgrees
  <2>2. 0 \in Int /\ task[o].retry + 1 \in Int
    BY <1>1
  <2> QED BY <2>1, <2>2 DEF Succeeds, RetryDue
<1> HIDE DEF row
<1>6. ~Exists(k) /\ sandbox'[k] = Recurrence(j, row, n) /\ NoOther(k)
  BY <1>0, <1>5, InsertedRow DEF Succeeds
<1>7. /\ sandbox'[k].prev = j /\ sandbox'[k].parent = RootOf(j, row) /\ sandbox'[k].retry = n
      /\ sandbox'[k].recurs = row.recurs /\ sandbox'[k].maxRecur = row.maxRecur
      /\ sandbox'[k].maxRetry = row.maxRetry /\ sandbox'[k].curRecur = row.curRecur
  BY <1>1, <1>6, RecurrenceFields
<1>8. sandbox'[k].parent = Root(j) /\ SameLimits(sandbox'[k], sandbox[j])
  BY <1>4, <1>7 DEF Root, RootOf, CopyOf, SameJob, SameLimits
<1>9. head[j] \in Jobs /\ lev[j] + 1 \in Nat
  BY <1>1
<1>10. PICK head2, lev2 : Given(head2, lev2, head, lev, k, head[j], lev[j] + 1)
  BY <1>6, <1>9, Extension
<1>11. /\ head2 \in [Jobs -> Jobs] /\ lev2 \in [Jobs -> Nat] /\ head2[k] = head[j] /\ lev2[k] = lev[j] + 1
       /\ \A l \in Jobs : Exists(l) => head2[l] = head[l] /\ lev2[l] = lev[l]
  BY <1>10 DEF Given
<1>12. Extends(head2, lev2, head, lev)
  BY <1>11 DEF Extends, Succeeds
<1>13. k \notin recovered'
  BY <1>6 DEF Succeeds, RecoveredExist
<1>14. CountsTo(sandbox'[k], lev2[k])
  BY <1>4, <1>7, <1>11 DEF CountsTo
<1>15. RetriesTo(sandbox'[k], lev2[k])
  <2>1. row.recurs = sandbox[j].recurs
    BY <1>4 DEF CopyOf, SameJob
  <2>2. CASE MayRecur(row)
    BY <1>7, <2>2 DEF RetriesTo, MayRecur
  <2>3. CASE n = task[o].retry + 1
    BY <1>1, <1>4, <1>7, <1>11, <2>1, <2>3 DEF RetriesTo, Null
  <2> QED BY <1>5, <2>2, <2>3
<1>16. Limited(k, lev2)'
  <2>1. sandbox'[j].retry = sandbox[j].retry
    BY <1>0, <1>1, <1>2, RowsStay DEF CopyOf, SameJob
  <2>2. row.recurs = sandbox[j].recurs /\ row.retry = sandbox[j].retry
        /\ ("cancelRetries" \in AdminKinds \/ row.maxRetry = sandbox[j].maxRetry)
        /\ row.maxRecur \in Int /\ row.curRecur \in Int /\ row.maxRetry \in Int /\ row.retry \in Int
    BY <1>1, <1>4 DEF CopyOf, SameJob, Row
  <2>3. row.maxRecur >= 0 => \/ lev2[k] <= row.maxRecur
                             \/ n > sandbox[j].retry
    <3>1. CASE MayRecur(row)
      BY <1>1, <1>4, <1>11, <2>2, <3>1 DEF MayRecur, CountsTo
    <3>2. CASE n = task[o].retry + 1
      BY <1>1, <1>4, <2>2, <3>2
    <3> QED BY <1>5, <3>1, <3>2
  <2>4. ~row.recurs /\ row.maxRetry >= 0 => "cancelRetries" \in AdminKinds \/ lev2[k] <= row.maxRetry
    <3>1. CASE MayRecur(row)
      BY <3>1 DEF MayRecur
    <3>2. CASE CanRetry(task[o])
      BY <1>1, <1>4, <1>11, <2>2, <3>2 DEF CanRetry
    <3> QED BY <1>5, <3>1, <3>2
  <2> QED BY <1>1, <1>7, <2>1, <2>3, <2>4 DEF Limited
<1>17. ASSUME Exists(k)' PROVE Placed(k, head2, lev2)'
  <2>1. sandbox'[k].prev = j /\ head2[k] = head[j] /\ lev2[k] = lev[j] + 1
    BY <1>7, <1>11
  <2>2. j \in Jobs /\ Exists(j) /\ Agree(lev) /\ Placed(j, head, lev)
    BY <1>1, <1>2
  <2> HIDE DEF j
  <2> QED BY <1>0, <1>8, <1>12, <1>13, <1>16, <1>17, <2>1, <2>2, FollowerPlaced
<1>18. ASSUME NEW l \in Jobs, Exists(l) PROVE ~(head2[k] = head[l] /\ lev2[k] = lev[l])
  <2>1. Followers(j) = {}
    BY SuccessorIsFirst
  <2>2. ~(head[l] = head[j] /\ lev[l] = lev[j] + 1)
    BY <1>0, <1>1, <1>18, <2>1, NoTwin
  <2> QED BY <1>11, <2>2
<1>19. FreePlace(k, head2, lev2, head, lev)
  BY <1>14, <1>15, <1>17, <1>18 DEF FreePlace
<1>20. PlacesFit(head2, lev2)'
  BY <1>0, <1>6, <1>11, <1>12, <1>19, NextPlaces
<1> QED BY <1>11, <1>20

\* A row gets a follower only when its Job object creates one.
LEMMA FollowersAfter ==
  ASSUME ExecutionInv, NEW lev, Agree(lev), RecoveredExist, [Next]_vars, NEW j \in Jobs, NEW l \in Followers(j)'
  PROVE  \/ l \in Followers(j)
         \/ \E o \in TaskIds : JobOf(o) = j /\ TaskNext(o) /\ Succeeds(l, o)
<1>1. /\ TypeOK /\ RowsAgree(lev) /\ l \in Jobs /\ sandbox'[l].prev = j /\ l \notin recovered' /\ j # NoJob
      /\ AbsentRow.prev = NoJob
  BY DEF ExecutionInv, BaseInv, Agree, Followers, AbsentRow
<1>2. CASE Exists(l)
  <2>1. sandbox'[l].prev = sandbox[l].prev
    BY <1>1, <1>2, RowsStay DEF CopyOf, SameJob
  <2>2. recovered \subseteq recovered'
    BY Growth DEF Steady, Fresh, Recovers, Succeeds
  <2> QED BY <1>1, <2>1, <2>2 DEF Followers
<1>3. CASE ~Exists(l)
  <2>1. Exists(l)'
    <3>1. sandbox[l] = AbsentRow
      BY <1>1, <1>3 DEF RowsAgree
    <3>2. ~Exists(l)' => sandbox'[l] = sandbox[l]
      BY <1>1, AbsentStay
    <3> QED BY <1>1, <3>1, <3>2
  <2>2. PICK k \in Jobs : \/ Fresh(k)
                          \/ \E m \in Jobs : Recovers(k, m)
                          \/ \E o \in TaskIds : Succeeds(k, o) /\ TaskNext(o)
    BY <1>1, <1>3, <2>1, Growth DEF Steady
  <2>3. k = l
    BY <1>1, <1>3, <2>1, <2>2, InsertedRow DEF Fresh, Recovers, Succeeds, NoOther
  <2>4. CASE Fresh(l)
    <3>1. PICK t \in Templates : Store(l, Scheduled(t)) /\ NextFree(l)
      BY <2>4 DEF Fresh
    <3>2. sandbox'[l] = Scheduled(t)
      BY <1>1, <3>1, InsertedRow
    <3> QED BY <1>1, <3>2, ScheduledFields
  <2>5. \A m \in Jobs : ~Recovers(l, m)
    BY <1>1 DEF Recovers
  <2>6. ASSUME NEW o \in TaskIds, Succeeds(l, o), TaskNext(o) PROVE JobOf(o) = j
    <3>1. JobOf(o) \in Jobs /\ task[o].val \in Row /\ task[o].retry \in Int
      BY <1>1, TaskIdParts, TypeOf DEF Task
    <3>2. PICK n \in Int : NextFree(l) /\ Store(l, Recurrence(JobOf(o), task[o].val, n))
      <4>1. 0 \in Int /\ task[o].retry + 1 \in Int
        BY <3>1
      <4> QED BY <2>6, <4>1 DEF Succeeds
    <3>3. sandbox'[l] = Recurrence(JobOf(o), task[o].val, n)
      BY <1>1, <3>2, InsertedRow
    <3>4. \A m \in Jobs, row \in Row : Recurrence(m, row, n).prev = m
      BY RecurrenceFields
    <3> QED BY <1>1, <3>1, <3>3, <3>4
  <2> QED BY <2>2, <2>3, <2>4, <2>5, <2>6
<1> QED BY <1>2, <1>3

\* A count of services does not fall, and a Job object comes to its service
\* when there has been none.
LEMMA ServicesAfter ==
  ASSUME ExecutionInv, [Next]_vars
  PROVE  /\ \A j \in Jobs : runs[j] # 0 => runs'[j] # 0
         /\ \A o \in TaskIds : task'[o].at = "service" => \/ task'[o] = task[o]
                                                          \/ runs[JobOf(o)] = 0
<1> DEFINE Counts == \A j \in Jobs : runs[j] # 0 => runs'[j] # 0
           Serve == \A o \in TaskIds : task'[o].at = "service" => task'[o] = task[o] \/ runs[JobOf(o)] = 0
<1>1. TypeOK /\ CopiesFit /\ \A j \in Jobs : runs[j] \in Nat
  BY DEF ExecutionInv, BaseInv, TypeOK
<1>2. UNCHANGED <<runs, task>> => Counts /\ Serve
  OBVIOUS
<1>3. ASSUME NEW o \in TaskIds, TaskNext(o) PROVE Counts /\ Serve
  <2>1. JobOf(o) \in Jobs
    BY TaskIdParts
  <2>2. UNCHANGED runs \/ runs' = [runs EXCEPT ![JobOf(o)] = @ + 1]
    BY <1>1, <1>3, TaskEffects DEF Enters, Leaves, Moves, Stores, Returns, Starts, Fails, Ends
  <2>3. Counts
    BY <1>1, <2>1, <2>2 DEF TypeOK
  <2>4. \A p \in TaskIds \ {o} : task'[p] = task[p]
    BY <1>1, <1>3, OtherTasksAfter
  <2>5. task'[o].at = "service" => task[o].at \in BeforeService
    BY <1>1, <1>3, TaskEffects
       DEF Enters, Leaves, Moves, Stores, Returns, Starts, Fails, Ends, BeforeService
  <2>6. task'[o].at = "service" => runs[JobOf(o)] = 0
    BY <2>5 DEF ExecutionInv, OnceInv, RunsFit
  <2> QED BY <2>3, <2>4, <2>6
<1>4. ASSUME NEW t \in Templates, Schedule(t) PROVE Counts /\ Serve
  BY <1>2, <1>4, ScheduleIsQuiet DEF Quiet
<1>5. ASSUME NEW i \in Instances, ReloadNext(i) PROVE Counts /\ Serve
  BY <1>2, <1>5, ReloadIsQuiet DEF Quiet
<1>6. ASSUME NEW i \in Instances, PollNext(i) PROVE Counts /\ Serve
  <2>1. PollSelect(i) => UNCHANGED <<runs, task>>
    BY DEF PollSelect, history
  <2>2. ASSUME NEW claimed \in SUBSET poller[i].due, PollClaim(i, claimed) PROVE Counts /\ Serve
    <3>1. UNCHANGED runs
      BY <2>2 DEF PollClaim, history
    <3> QED BY <2>2, <3>1, ClaimSteps
  <2> QED BY <1>2, <1>6, <2>1, <2>2 DEF PollNext
<1>7. ASSUME NEW i \in Instances, InstanceNext(i) PROVE Counts /\ Serve
  BY <1>1, <1>7, LifeSteps
<1>8. AdminNext => Counts /\ Serve
  BY <1>2, AdminIsQuiet DEF Quiet
<1> QED BY <1>2, <1>3, <1>4, <1>5, <1>6, <1>7, <1>8 DEF Next, vars

LEMMA NextChildless ==
  ASSUME ExecutionInv, ExecutionInv', NEW lev, Agree(lev), RecoveredExist, Childless, [Next]_vars
  PROVE  Childless'
<1> SUFFICES ASSUME NEW j \in Jobs, NEW l \in Followers(j)'
             PROVE  /\ runs'[j] # 0
                    /\ \A o \in TaskIds : JobOf(o) = j /\ task'[o].at = "service" => task'[o].next
  BY DEF Childless
<1>1. CASE l \in Followers(j)
  <2>1. runs[j] # 0 /\ \A o \in TaskIds : JobOf(o) = j /\ task[o].at = "service" => task[o].next
    BY <1>1 DEF Childless
  <2> QED BY <2>1, ServicesAfter
<1>2. ASSUME NEW p \in TaskIds, JobOf(p) = j, TaskNext(p), Succeeds(l, p)
      PROVE  /\ runs'[j] # 0
             /\ \A o \in TaskIds : JobOf(o) = j /\ task'[o].at = "service" => task'[o].next
  <2>1. task'[p].next /\ task[p].at \in {"recur", "service"}
    BY <1>2 DEF Succeeds
  <2>2. TypeOK /\ CopiesFit /\ runs[j] \in Nat /\ RunsFit
    BY DEF ExecutionInv, BaseInv, OnceInv, TypeOK
  <2>3. runs'[j] # 0
    <3>1. task[p].at = "recur" => runs' = [runs EXCEPT ![j] = @ + 1]
      BY <1>2 DEF Succeeds
    <3>2. task[p].at = "service" => runs[j] = 1 /\ UNCHANGED runs
      BY <1>2, <2>2 DEF Succeeds, RunsFit, InService
    <3> QED BY <2>1, <2>2, <3>1, <3>2 DEF TypeOK
  <2>4. Active(p)' /\ ActiveAlone'
    BY <1>2 DEF Succeeds, Active, ExecutionInv, OnceInv
  <2>5. ASSUME NEW o \in TaskIds, JobOf(o) = j, task'[o].at = "service" PROVE o = p
    <3>1. Active(o)'
      BY <2>5 DEF Active, InService
    <3> QED BY <1>2, <2>4, <2>5, <3>1 DEF ActiveAlone
  <2> QED BY <2>1, <2>3, <2>5
<1> QED BY <1>1, <1>2, FollowersAfter

\* The invariant is inductive ...
LEMMA NextChainInv ==
  ASSUME ChainInv, ExecutionInv', [Next]_vars
  PROVE  ChainInv'
<1>1. PICK head \in [Jobs -> Jobs], lev \in [Jobs -> Nat] : PlacesFit(head, lev)
  BY DEF ChainInv
<1>2. ExecutionInv /\ RecoveredExist /\ Childless /\ Agree(lev)
  BY <1>1 DEF ChainInv, PlacesFit
<1>3. Childless'
  BY <1>2, NextChildless
<1>4. CASE Steady
  <2>1. RecoveredExist'
    <3>1. recovered \subseteq Jobs
      BY <1>2 DEF ExecutionInv, BaseInv, TypeOK
    <3> QED BY <1>2, <1>4, <3>1, RowsStay DEF Steady, RecoveredExist
  <2>2. Extends(head, lev, head, lev)
    BY <1>4 DEF Extends, Steady
  <2>3. ASSUME NEW k \in Jobs PROVE PlacesFit(head, lev)'
    <3>1. NoOther(k) /\ FreePlace(k, head, lev, head, lev)
      BY <1>4 DEF Steady, NoOther, FreePlace
    <3> QED BY <1>1, <1>2, <2>2, <3>1, NextPlaces
  <2>4. CASE Jobs = {}
    <3>1. Agree(lev)'
      BY <1>2, <2>4, NextAgree
    <3> QED BY <1>1, <1>3, <2>1, <2>4, <3>1 DEF ChainInv, PlacesFit, Distinct
  <2>5. CASE Jobs # {}
    <3>1. PlacesFit(head, lev)'
      BY <2>3, <2>5
    <3> QED BY <1>1, <1>3, <2>1, <3>1 DEF ChainInv
  <2> QED BY <2>4, <2>5
<1>5. ASSUME NEW k \in Jobs, \/ Fresh(k) \/ \E j \in Jobs : Recovers(k, j)
                             \/ \E o \in TaskIds : Succeeds(k, o) /\ TaskNext(o)
      PROVE  ChainInv'
  <2>1. \E head2 \in [Jobs -> Jobs], lev2 \in [Jobs -> Nat] : PlacesFit(head2, lev2)'
    BY <1>1, <1>2, <1>5, FreshPlaces, RecoverPlaces, SucceedPlaces
  <2>2. recovered' \subseteq recovered \cup {k} /\ (k \in recovered' => Exists(k)')
    <3>1. CASE UNCHANGED recovered
      <4>1. k \in recovered => Exists(k)'
        BY <1>2, RowsStay DEF RecoveredExist
      <4> QED BY <3>1, <4>1
    <3>2. ASSUME NEW j \in Jobs, Recovers(k, j) PROVE recovered' \subseteq recovered \cup {k} /\ Exists(k)'
      <4>1. PICK i \in Instances : NextFree(k) /\ Store(k, CrashCopy(j, reload[i].vals[j]))
        BY <3>2 DEF Recovers
      <4>2. reload[i].vals[j] \in Row /\ TypeOK
        BY <1>2, TypeOf DEF ExecutionInv, BaseInv
      <4>3. CrashCopy(j, reload[i].vals[j]).status = "PENDING"
        BY <4>2 DEF CrashCopy, Recurrence, Row
      <4>4. sandbox'[k] = CrashCopy(j, reload[i].vals[j])
        BY <4>1, <4>2, InsertedRow
      <4> QED BY <3>2, <4>3, <4>4 DEF Recovers, Exists
    <3> QED BY <1>5, <3>1, <3>2 DEF Fresh, Succeeds
  <2>3. RecoveredExist'
    <3>1. recovered \subseteq Jobs
      BY <1>2 DEF ExecutionInv, BaseInv, TypeOK
    <3>2. \A l \in recovered : Exists(l)'
      BY <1>2, <3>1, RowsStay DEF RecoveredExist
    <3> QED BY <2>2, <3>2 DEF RecoveredExist
  <2> QED BY <1>3, <2>1, <2>3 DEF ChainInv
<1> QED BY <1>2, <1>4, <1>5, Growth

\* ... and holds of the empty table.
LEMMA InitChainInv ==
  ASSUME Init, ExecutionInv
  PROVE  ChainInv
<1> DEFINE head == [j \in Jobs |-> j]
           lev == [j \in Jobs |-> 0]
<1>1. \A j \in Jobs : ~Exists(j) /\ sandbox[j] = AbsentRow
  BY DEF Init, Exists, AbsentRow
<1>2. RecoveredExist
  BY DEF Init, RecoveredExist
<1>3. Childless
  <2>1. AbsentRow.prev = NoJob
    BY DEF AbsentRow
  <2>2. \A j \in Jobs : Followers(j) = {}
    BY <1>1, <2>1 DEF Followers
  <2> QED BY <2>2 DEF Childless
<1>4. head \in [Jobs -> Jobs] /\ lev \in [Jobs -> Nat]
  OBVIOUS
<1> HIDE DEF head, lev
<1>5. Agree(lev)
  <2>1. RowsAgree(lev)
    BY <1>1 DEF RowsAgree
  <2>2. ReloadsAgree(lev)
    <3>1. \A i \in Instances : reload[i].todo = {}
      BY DEF Init, NotReloaded
    <3> QED BY <3>1 DEF ReloadsAgree
  <2>3. AdminAgrees(lev)
    BY DEF Init, NoCall, AdminAgrees
  <2>4. ASSUME NEW o \in TaskIds PROVE TaskAgrees(o, lev)
    <3>1. task[o].at = "none"
      BY DEF Init, NoTask
    <3> QED BY <3>1 DEF TaskAgrees, CopySteps, StartedSteps, Held
  <2> QED BY <1>4, <2>1, <2>2, <2>3, <2>4 DEF Agree
<1>6. PlacesFit(head, lev)
  BY <1>1, <1>5 DEF PlacesFit, Distinct
<1> QED BY <1>2, <1>3, <1>4, <1>6 DEF ChainInv

LEMMA InvariantlyPlaced ==
  ASSUME "reset" \notin AdminKinds
  PROVE  Spec => []ChainInv
<1>1. Init => ExecutionInv
  BY InitExecutionInv
<1>2. Init /\ ExecutionInv => ChainInv
  BY InitChainInv
<1>3. ChainInv /\ ExecutionInv' /\ [Next]_vars => ChainInv'
  BY NextChainInv
<1>4. Spec => []ExecutionInv
  BY InvariantlyOnce
<1> QED BY <1>1, <1>2, <1>3, <1>4, PTL DEF Spec

-----------------------------------------------------------------------------
(* What the places show *)

\* A service that fails after it has created the next occurrence makes no
\* retry, and one that crashes makes neither: a job is followed by its next
\* occurrence or by a retry and never by both, when nobody calls resetJob.
THEOREM SuccessorIsOne ==
  ASSUME "reset" \notin AdminKinds
  PROVE  Spec => []OneSuccessor
<1>1. ASSUME ChainInv, NEW j \in Jobs PROVE Cardinality(Followers(j)) <= 1
  <2>1. PICK head \in [Jobs -> Jobs], lev \in [Jobs -> Nat] : PlacesFit(head, lev)
    BY <1>1 DEF ChainInv
  <2>2. j # NoJob /\ AbsentRow.prev = NoJob
    BY DEF AbsentRow
  <2>3. ASSUME NEW k \in Followers(j) PROVE k \in Jobs /\ Exists(k) /\ head[k] = head[j] /\ lev[k] = lev[j] + 1
    <3>1. k \in Jobs /\ sandbox[k].prev = j /\ k \notin recovered
      BY DEF Followers
    <3>2. Exists(k)
      BY <2>1, <2>2, <3>1 DEF PlacesFit, Agree, RowsAgree
    <3>3. Headed(k, head, lev)
      BY <2>1, <3>1, <3>2 DEF PlacesFit, Placed
    <3> QED BY <2>2, <3>1, <3>2, <3>3 DEF Headed
  <2>4. \A k, l \in Followers(j) : k = l
    BY <2>1, <2>3 DEF PlacesFit, Distinct
  <2>5. CASE Followers(j) = {}
    BY <2>5, FS_EmptySet
  <2>6. CASE Followers(j) # {}
    <3>1. PICK k \in Followers(j) : TRUE
      BY <2>6
    <3>2. Followers(j) = {k}
      BY <2>4
    <3>3. Cardinality({k}) = 1
      BY FS_Singleton
    <3> QED BY <3>2, <3>3
  <2> QED BY <2>5, <2>6
<1>2. ChainInv => OneSuccessor
  BY <1>1 DEF OneSuccessor
<1> QED BY <1>2, InvariantlyPlaced, PTL

\* The rows of a chain have the root's limits, and the root or a copy in the
\* chain as their heads.
LEMMA ChainRows ==
  ASSUME TypeOK, NEW head \in [Jobs -> Jobs], NEW lev \in [Jobs -> Nat], PlacesFit(head, lev),
         NEW j \in Jobs, Exists(j), sandbox[j].parent = NoJob, NEW k \in Chain(j)
  PROVE  /\ k \in Jobs /\ Exists(k) /\ SameLimits(sandbox[k], sandbox[j])
         /\ head[k] \in {j} \cup Copied(j)
<1>1. k \in Jobs /\ (k = j \/ sandbox[k].parent = j) /\ j # NoJob /\ AbsentRow.parent = NoJob
  BY DEF Chain, AbsentRow
<1>2. Exists(k)
  BY <1>1 DEF PlacesFit, Agree, RowsAgree
<1>3. Rooted(k) /\ Headed(k, head, lev)
  BY <1>1, <1>2 DEF PlacesFit, Placed
<1>4. SameLimits(sandbox[k], sandbox[j])
  BY <1>1, <1>3 DEF Rooted, SameLimits
<1>5. Root(k) = j
  BY <1>1 DEF Root, RootOf
<1>6. head[k] \in Jobs /\ Root(head[k]) = j /\ (head[k] \in recovered \/ head[k] = j)
  BY <1>1, <1>3, <1>5 DEF Headed
<1>7. head[k] = j \/ sandbox[head[k]].parent = j
  BY <1>6 DEF Root, RootOf
<1> QED BY <1>1, <1>2, <1>4, <1>6, <1>7 DEF Copied, Chain

\* So there are no more rows in a chain than heads and levels for them.
LEMMA CountPlaces ==
  ASSUME TypeOK, NEW head \in [Jobs -> Jobs], NEW lev \in [Jobs -> Nat], PlacesFit(head, lev),
         NEW j \in Jobs, Exists(j), sandbox[j].parent = NoJob,
         NEW S \in SUBSET Chain(j), NEW n \in Nat, \A k \in S : lev[k] <= n
  PROVE  Cardinality(S) <= (1 + Cardinality(Copied(j))) * (1 + n)
<1> DEFINE heads == Copied(j) \cup {j}
           places == heads \X (0 .. n)
           place == [k \in S |-> <<head[k], lev[k]>>]
<1>1. /\ Chain(j) \subseteq Jobs /\ S \subseteq Jobs /\ Copied(j) \subseteq Jobs
      /\ IsFiniteSet(S) /\ IsFiniteSet(Copied(j))
  <2>1. Chain(j) \subseteq Jobs /\ Copied(j) \subseteq Jobs
    BY DEF Chain, Copied
  <2>2. S \subseteq Jobs
    BY <2>1
  <2> QED BY <2>1, <2>2, FS_Subset
<1>2. IsFiniteSet(heads) /\ Cardinality(heads) \in Nat /\ Cardinality(Copied(j)) \in Nat
      /\ Cardinality(heads) <= 1 + Cardinality(Copied(j))
  <2>1. Cardinality(Copied(j)) \in Nat
    BY <1>1, FS_CardinalityType
  <2>2. /\ IsFiniteSet(heads)
        /\ Cardinality(heads) = IF j \in Copied(j) THEN Cardinality(Copied(j)) ELSE Cardinality(Copied(j)) + 1
    BY <1>1, FS_AddElement
  <2> HIDE DEF heads
  <2> QED BY <2>1, <2>2
<1>3. IsFiniteSet(0 .. n) /\ Cardinality(0 .. n) = 1 + n
  <2>1. 0 \in Int /\ n \in Int /\ ~(0 > n)
    OBVIOUS
  <2>2. IsFiniteSet(0 .. n) /\ Cardinality(0 .. n) = IF 0 > n THEN 0 ELSE n - 0 + 1
    BY <2>1, FS_Interval
  <2> QED BY <2>1, <2>2
<1>4. IsFiniteSet(places) /\ Cardinality(places) = Cardinality(heads) * (1 + n)
  <2> HIDE DEF heads
  <2> QED BY <1>2, <1>3, FS_Product
<1>5. place \in [S -> places]
  <2> SUFFICES ASSUME NEW k \in S PROVE head[k] \in heads /\ lev[k] \in 0 .. n
    OBVIOUS
  <2>1. lev[k] \in Nat /\ lev[k] <= n
    BY <1>1
  <2>2. head[k] \in heads
    BY ChainRows
  <2> QED BY <2>1, <2>2
<1>6. ASSUME NEW x \in S, NEW y \in S, place[x] = place[y] PROVE x = y
  <2>1. head[x] = head[y] /\ lev[x] = lev[y]
    BY <1>6
  <2>2. x \in Jobs /\ y \in Jobs /\ Exists(x) /\ Exists(y)
    BY ChainRows
  <2> QED BY <2>1, <2>2 DEF PlacesFit, Distinct
<1>7. Cardinality(S) \in Nat /\ Cardinality(S) <= Cardinality(heads) * (1 + n)
  <2>1. ~(Cardinality(places) < Cardinality(S))
    <3> HIDE DEF places, place
    <3> QED BY <1>1, <1>4, <1>5, <1>6, FS_PigeonHole
  <2>2. Cardinality(S) \in Nat /\ Cardinality(places) \in Nat
    BY <1>1, <1>4, FS_CardinalityType
  <2> HIDE DEF places
  <2> QED BY <1>4, <2>1, <2>2
<1>8. \A a, b, m \in Nat : a <= b => a * m <= b * m
  OBVIOUS
<1>9. Cardinality(heads) * (1 + n) <= (1 + Cardinality(Copied(j))) * (1 + n)
  <2> HIDE DEF heads
  <2>1. 1 + n \in Nat /\ 1 + Cardinality(Copied(j)) \in Nat
    BY <1>2
  <2> QED BY <1>2, <1>8, <2>1
<1> HIDE DEF heads
<1>10. Cardinality(heads) * (1 + n) \in Nat /\ (1 + Cardinality(Copied(j))) * (1 + n) \in Nat
  BY <1>2
<1> QED BY <1>7, <1>9, <1>10

\* However often processes crash between the creation of an occurrence and
\* the end of the service, and however its retries go, a job with a bounded
\* recurrence occurs 1 + maxRecur times at most for itself and for every copy
\* of a crashed row, when nobody calls resetJob.
THEOREM RecurrencesBounded ==
  ASSUME "reset" \notin AdminKinds
  PROVE  Spec => []RecurrenceBudget
<1>1. ASSUME ChainInv, NEW j \in Jobs, Exists(j), sandbox[j].parent = NoJob, sandbox[j].maxRecur >= 0
      PROVE  Cardinality(Chain(j) \ Retried(j)) <= (1 + Cardinality(Copied(j))) * (1 + sandbox[j].maxRecur)
  <2>1. PICK head \in [Jobs -> Jobs], lev \in [Jobs -> Nat] : PlacesFit(head, lev)
    BY <1>1 DEF ChainInv
  <2>2. TypeOK /\ sandbox[j].maxRecur \in Nat
    <3>1. TypeOK
      BY <1>1 DEF ChainInv, ExecutionInv, BaseInv
    <3>2. sandbox[j].maxRecur \in Int
      BY <3>1, TypeOf DEF Row
    <3> QED BY <1>1, <3>1, <3>2
  <2>3. ASSUME NEW k \in Chain(j) \ Retried(j) PROVE lev[k] <= sandbox[j].maxRecur
    <3>1. k \in Jobs /\ Exists(k) /\ sandbox[k].maxRecur = sandbox[j].maxRecur
      BY <1>1, <2>1, <2>2, <2>3, ChainRows DEF SameLimits
    <3>2. Limited(k, lev) /\ Rooted(k) /\ Headed(k, head, lev)
      BY <2>1, <3>1 DEF PlacesFit, Placed
    <3>3. CASE k = j
      <4>1. lev[k] = 0
        BY <1>1, <3>2, <3>3 DEF Rooted, Headed
      <4> QED BY <2>2, <4>1
    <3>4. CASE k # j
      <4>1. ~(sandbox[k].retry > sandbox[sandbox[k].prev].retry)
        BY <2>3, <3>4 DEF Retried
      <4> QED BY <1>1, <3>1, <3>2, <4>1 DEF Limited
    <3> QED BY <3>3, <3>4
  <2>4. Chain(j) \ Retried(j) \in SUBSET Chain(j)
    OBVIOUS
  <2> QED BY <1>1, <2>1, <2>2, <2>3, <2>4, CountPlaces
<1>2. ChainInv => RecurrenceBudget
  BY <1>1 DEF RecurrenceBudget
<1> QED BY <1>2, InvariantlyPlaced, PTL

\* A job that does not recur and keeps failing is retried maxRetry times at
\* most, for itself and for every copy of a crashed row, when nobody calls
\* resetJob, or cancelJobRetries, which changes the limit of one row only.
THEOREM RetriesBounded ==
  ASSUME AdminKinds \cap {"reset", "cancelRetries"} = {}
  PROVE  Spec => []RetryBudget
<1>1. ASSUME ChainInv, NEW j \in Jobs, Exists(j), sandbox[j].parent = NoJob,
             ~sandbox[j].recurs, sandbox[j].maxRetry >= 0
      PROVE  Cardinality(Chain(j)) <= (1 + Cardinality(Copied(j))) * (1 + sandbox[j].maxRetry)
  <2>1. PICK head \in [Jobs -> Jobs], lev \in [Jobs -> Nat] : PlacesFit(head, lev)
    BY <1>1 DEF ChainInv
  <2>2. TypeOK /\ sandbox[j].maxRetry \in Nat
    <3>1. TypeOK
      BY <1>1 DEF ChainInv, ExecutionInv, BaseInv
    <3>2. sandbox[j].maxRetry \in Int
      BY <3>1, TypeOf DEF Row
    <3> QED BY <1>1, <3>1, <3>2
  <2>3. ASSUME NEW k \in Chain(j) PROVE lev[k] <= sandbox[j].maxRetry
    <3>1. /\ k \in Jobs /\ Exists(k) /\ sandbox[k].maxRetry = sandbox[j].maxRetry
          /\ sandbox[k].recurs = sandbox[j].recurs
      BY <1>1, <2>1, <2>2, <2>3, ChainRows DEF SameLimits
    <3>2. Limited(k, lev)
      BY <2>1, <3>1 DEF PlacesFit, Placed
    <3> QED BY <1>1, <3>1, <3>2 DEF Limited
  <2>4. Chain(j) \in SUBSET Chain(j)
    OBVIOUS
  <2> QED BY <1>1, <2>1, <2>2, <2>3, <2>4, CountPlaces
<1>2. ChainInv => RetryBudget
  BY <1>1 DEF RetryBudget
<1>3. "reset" \notin AdminKinds
  OBVIOUS
<1> QED BY <1>2, <1>3, InvariantlyPlaced, PTL
=============================================================================
