------------------------ MODULE JobExecution_proofs ------------------------
(***************************************************************************)
(* Proofs about JobScheduler when nobody calls resetJob: at most one Job   *)
(* object is past the checks of queue() for a row, and the scheduler       *)
(* implements JobExecution, the execution of a row at most once.           *)
(*                                                                         *)
(* The invariant ties the Job objects to the row.  One that is past its    *)
(* checks has the row in its own name, or the row is started or cancelled; *)
(* so no second one passes them, because one instance has one Job object   *)
(* of a row.  What a step does to the row, to the Job object and to the    *)
(* count of services is summarised in one of eight effects, and every part *)
(* of the invariant, and the refinement, goes by these effects.            *)
(***************************************************************************)
EXTENDS JobScheduler_proofs

USE InstancesAssumption, JobsAssumption, CopiesAssumption, TemplatesAssumption, BoundsAssumption

-----------------------------------------------------------------------------
(* The invariant *)

\* Past the checks of queue(), and not yet in the service.
BeforeService == {"storeQueued", "rejected", "storeDequeued", "inQueue", "drained", "init",
                  "storeRunning", "recur"}
InService == {"service", "storeFailed"}
Active(o) == task[o].at \in BeforeService \cup InService
Held(o) == task[o].at # "none"

\* Whatever works on a row finds it in the table.
RowsExist ==
  /\ \A o \in TaskIds : Held(o) => Exists(JobOf(o))
  /\ \A i \in Instances : \A j \in reload[i].todo : Exists(j)
  /\ admin.kind # "none" => Exists(admin.job) /\ admin.val.status # "ABSENT"

\* An instance polls no row that it holds already, and has one Job object of
\* a row at most.
DueAreFree ==
  \A i \in Instances : \A j \in poller[i].due :
    Exists(j) /\ \A o \in TaskIds : Inst(o) = i /\ JobOf(o) = j => ~Held(o)
OnePerInstance ==
  \A o, p \in TaskIds : Inst(o) = Inst(p) /\ JobOf(o) = JobOf(p) /\ Held(o) /\ Held(p) => o = p

\* The row of an active Job object: in its name, or out of everyone's reach.
ActiveOwns ==
  \A o \in TaskIds :
    /\ Active(o) => \/ sandbox[JobOf(o)].cancel \/ sandbox[JobOf(o)].start
                    \/ sandbox[JobOf(o)].runBy = Inst(o)
    /\ task[o].at \in StartedSteps => sandbox[JobOf(o)].cancel \/ sandbox[JobOf(o)].start
ActiveAlone == \A o, p \in TaskIds : JobOf(o) = JobOf(p) /\ Active(o) /\ Active(p) => o = p

\* The service of a row has run once at most, and only an active Job object's
\* service has.
RunsOnce ==
  \A j \in Jobs : runs[j] # 0 => /\ runs[j] = 1 /\ Exists(j)
                                 /\ sandbox[j].start \/ sandbox[j].cancel
RunsFit ==
  \A o \in TaskIds : /\ task[o].at \in BeforeService => runs[JobOf(o)] = 0
                     /\ task[o].at \in InService => runs[JobOf(o)] = 1

NoReset == "reset" \notin AdminKinds /\ admin.kind # "reset"

BaseInv == TypeOK /\ CopiesFit /\ ReloadFirst /\ NoReset
OnceInv == RowsExist /\ DueAreFree /\ OnePerInstance /\ ActiveOwns /\ ActiveAlone /\ RunsOnce /\ RunsFit
ExecutionInv == BaseInv /\ OnceInv

-----------------------------------------------------------------------------
(* The effects of a step *)

Insertion == \E k \in Jobs : NextFree(k) /\ \E row \in Row : row.status # "ABSENT" /\ Store(k, row)

\* A candidate passes the checks of queue() ...
Enters(o) == /\ task[o].at = "candidate" /\ task'[o].at \in BeforeService
             /\ sandbox[JobOf(o)].runBy = Inst(o)
             /\ ~sandbox[JobOf(o)].start /\ ~sandbox[JobOf(o)].cancel
             /\ task'[o].at \notin StartedSteps
             /\ UNCHANGED <<sandbox, runs>>
\* ... or a Job object is given up.
Leaves(o) == task'[o].at = "none" /\ UNCHANGED <<sandbox, runs>>
Moves(o) == /\ task[o].at \in BeforeService /\ task'[o].at \in BeforeService \ StartedSteps
            /\ UNCHANGED <<sandbox, runs>>
\* It stores the row in its name, or gives it back.
Stores(o) == /\ task[o].at \in BeforeService /\ task'[o].at \in BeforeService
             /\ \E row \in Row : /\ row.status # "ABSENT" /\ row.runBy = Inst(o)
                                 /\ task'[o].at \in StartedSteps => row.start
                                 /\ Store(JobOf(o), row)
             /\ UNCHANGED runs
Returns(o) == /\ task[o].at \in BeforeService /\ task'[o].at = "none"
              /\ \E row \in Row : row.status # "ABSENT" /\ Store(JobOf(o), row)
              /\ UNCHANGED runs
\* The service starts, fails with a retry, and is over.
Starts(o) == /\ task[o].at \in BeforeService /\ task'[o].at = "service"
             /\ runs' = [runs EXCEPT ![JobOf(o)] = @ + 1]
             /\ \/ \E row \in Row : row.status # "ABSENT" /\ row.start /\ Store(JobOf(o), row)
                \/ task[o].at = "recur" /\ (UNCHANGED sandbox \/ Insertion)
Fails(o) == /\ task[o].at = "service" /\ task'[o].at = "storeFailed"
            /\ UNCHANGED sandbox \/ Insertion
            /\ UNCHANGED runs
Ends(o) == /\ task[o].at \in InService /\ task'[o].at = "none"
           /\ \E row \in Row : row.status # "ABSENT" /\ row.start /\ Store(JobOf(o), row)
           /\ UNCHANGED runs

\* Every action of a Job object has one of these effects.
LEMMA TaskEffects ==
  ASSUME TypeOK, CopiesFit, NEW o \in TaskIds, TaskNext(o)
  PROVE  \/ Enters(o) \/ Leaves(o) \/ Moves(o) \/ Stores(o) \/ Returns(o)
         \/ Starts(o) \/ Fails(o) \/ Ends(o)
<1>1. /\ JobOf(o) \in Jobs /\ task[o].val \in Row /\ sandbox[JobOf(o)] \in Row
      /\ CopyFits(o) /\ task[o].retry \in Int
  BY TaskIdParts, TypeOf DEF CopiesFit, Task
<1>2. Drop(o) => task'[o].at = "none"
  BY CopyAfter
<1>3. ASSUME NEW n \in Int, NEW k \in Jobs, NextFree(k), Store(k, Recurrence(JobOf(o), task[o].val, n))
      PROVE  Insertion
  <2>1. Recurrence(JobOf(o), task[o].val, n) \in Row
    BY <1>1, RecurrenceType
  <2>2. Recurrence(JobOf(o), task[o].val, n).status = "PENDING"
    BY <1>1 DEF Recurrence, Row
  <2> QED BY <1>3, <2>1, <2>2 DEF Insertion
<1>4. CASE QueueRefresh(o)
  <2>1. UNCHANGED <<sandbox, runs>> /\ task[o].at = "candidate"
    BY <1>4 DEF QueueRefresh, history
  <2>2. CASE QueueRefuses(Inst(o), sandbox[JobOf(o)])
    BY <1>2, <1>4, <2>1, <2>2 DEF QueueRefresh, Leaves
  <2>3. CASE ~QueueRefuses(Inst(o), sandbox[JobOf(o)])
    <3>1. task' = [task EXCEPT ![o].at = "storeQueued",
                               ![o].val = [sandbox[JobOf(o)] EXCEPT !.status = "QUEUED"]]
      BY <1>4, <2>3 DEF QueueRefresh
    <3>2. task'[o].at = "storeQueued"
      BY <3>1, NewCopyAfter
    <3> QED BY <2>1, <2>3, <3>2 DEF QueueRefuses, Enters, BeforeService, StartedSteps
  <2> QED BY <2>2, <2>3
<1>5. CASE QueueStore(o)
  <2>1. PICK step \in {"rejected", "inQueue", "init"} : Goto(o, step)
    BY <1>5 DEF QueueStore
  <2>2. task'[o].at = step
    BY <2>1, CopyAfter
  <2>3. /\ task[o].at = "storeQueued" /\ UNCHANGED runs /\ Store(JobOf(o), task[o].val)
        /\ task[o].val.status = "QUEUED" /\ task[o].val.runBy = Inst(o)
    BY <1>1, <1>5 DEF QueueStore, CopyFits, history
  <2>4. Stores(o)
    BY <1>1, <2>2, <2>3 DEF Stores, BeforeService, StartedSteps
  <2> QED BY <2>4
<1>6. CASE DeQueueRefresh(o)
  <2>1. task' = [task EXCEPT ![o].at = "storeDequeued", ![o].val = Dequeued(sandbox[JobOf(o)])]
    BY <1>6 DEF DeQueueRefresh
  <2>2. task'[o].at = "storeDequeued"
    BY <2>1, NewCopyAfter
  <2> QED BY <1>6, <2>2 DEF DeQueueRefresh, history, Moves, BeforeService, StartedSteps
<1>7. CASE DeQueueStore(o)
  <2>1. task[o].at = "storeDequeued" /\ task'[o].at = "none" /\ Store(JobOf(o), task[o].val) /\ UNCHANGED runs
    BY <1>2, <1>7 DEF DeQueueStore, history
  <2>2. task[o].val.status = "PENDING"
    BY <1>1, <2>1 DEF CopyFits
  <2> QED BY <1>1, <2>1, <2>2 DEF Returns, BeforeService
<1>8. CASE Take(o)
  <2>1. task'[o].at = "init" /\ task[o].at = "inQueue" /\ UNCHANGED <<sandbox, runs>>
    BY <1>8, CopyAfter DEF Take, history
  <2> QED BY <2>1 DEF Moves, BeforeService, StartedSteps
<1>9. CASE InitRefresh(o)
  <2>1. UNCHANGED <<sandbox, runs>> /\ task[o].at = "init"
    BY <1>9 DEF InitRefresh, history
  <2>2. CASE InitRefuses(Inst(o), sandbox[JobOf(o)])
    BY <1>2, <1>9, <2>1, <2>2 DEF InitRefresh, Leaves
  <2>3. CASE ~InitRefuses(Inst(o), sandbox[JobOf(o)])
    <3>1. task' = [task EXCEPT ![o].at = "storeRunning",
                     ![o].val = [sandbox[JobOf(o)] EXCEPT !.start = TRUE, !.status = "RUNNING"]]
      BY <1>9, <2>3 DEF InitRefresh
    <3>2. task'[o].at = "storeRunning"
      BY <3>1, NewCopyAfter
    <3> QED BY <2>1, <3>2 DEF Moves, BeforeService, StartedSteps
  <2> QED BY <2>2, <2>3
<1>10. CASE InitStore(o)
  <2>1. /\ task[o].at = "storeRunning" /\ Store(JobOf(o), task[o].val)
        /\ task[o].val.status = "RUNNING" /\ task[o].val.runBy = Inst(o) /\ task[o].val.start
    BY <1>1, <1>10 DEF InitStore, CopyFits
  <2>2. CASE MayRecur(CountRecurrence(task[o].val))
    <3>1. /\ task' = [task EXCEPT ![o].at = "recur", ![o].val = CountRecurrence(task[o].val)]
          /\ UNCHANGED runs
      BY <1>10, <2>2 DEF InitStore
    <3>2. task'[o].at = "recur"
      BY <3>1, NewCopyAfter
    <3> QED BY <1>1, <2>1, <3>1, <3>2 DEF Stores, BeforeService
  <2>3. CASE ~MayRecur(CountRecurrence(task[o].val))
    <3>1. /\ task' = [task EXCEPT ![o].at = "service", ![o].val = CountRecurrence(task[o].val)]
          /\ runs' = [runs EXCEPT ![JobOf(o)] = @ + 1]
      BY <1>10, <2>3 DEF InitStore
    <3>2. task'[o].at = "service"
      BY <3>1, NewCopyAfter
    <3> QED BY <1>1, <2>1, <3>1, <3>2 DEF Starts, BeforeService
  <2> QED BY <2>2, <2>3
<1>11. CASE Recur(o)
  <2>1. task[o].at = "recur" /\ runs' = [runs EXCEPT ![JobOf(o)] = @ + 1]
    BY <1>11 DEF Recur
  <2>2. task'[o].at = "service"
    BY <1>11, CopyAfter DEF Recur
  <2>3. 0 \in Int
    OBVIOUS
  <2>4. UNCHANGED sandbox \/ Insertion
    BY <1>3, <1>11, <2>3 DEF Recur
  <2> QED BY <2>1, <2>2, <2>4 DEF Starts, BeforeService
<1>12. CASE Finish(o) \/ StoreFailed(o)
  <2>1. PICK s \in {"FINISHED", "FAILED"} : Store(JobOf(o), [task[o].val EXCEPT !.status = s, !.finish = TRUE])
    BY <1>12 DEF Finish, StoreFailed, FailedRow
  <2> DEFINE row == [task[o].val EXCEPT !.status = s, !.finish = TRUE]
  <2>2. task[o].at \in InService /\ task'[o].at = "none" /\ UNCHANGED runs
    BY <1>2, <1>12 DEF Finish, StoreFailed, InService, history
  <2>3. row \in Row /\ row.status = s /\ row.start = task[o].val.start
    BY <1>1 DEF Row, Statuses
  <2>4. task[o].val.start
    BY <1>1, <2>2 DEF CopyFits, InService
  <2> HIDE DEF row
  <2>5. row.start /\ row.status # "ABSENT"
    BY <2>3, <2>4
  <2>6. Store(JobOf(o), row)
    BY <2>1 DEF row
  <2> QED BY <2>2, <2>3, <2>5, <2>6 DEF Ends
<1>13. CASE FailAndRetry(o)
  <2>1. task[o].at = "service" /\ task'[o].at = "storeFailed" /\ UNCHANGED runs
    BY <1>13, CopyAfter DEF FailAndRetry, history
  <2>2. task[o].retry + 1 \in Int
    BY <1>1
  <2>3. Insertion
    BY <1>3, <1>13, <2>2 DEF FailAndRetry
  <2> QED BY <2>1, <2>3 DEF Fails
<1>14. CASE DbFault(o)
  <2>1. UNCHANGED <<sandbox, runs>>
    BY <1>14 DEF DbFault, history
  <2>2. CASE Drop(o)
    BY <1>2, <2>1, <2>2 DEF Leaves
  <2>3. CASE task[o].at = "service" /\ Goto(o, "storeFailed")
    <3>1. task'[o].at = "storeFailed"
      BY <2>3, CopyAfter
    <3> QED BY <2>1, <2>3, <3>1 DEF Fails
  <2> QED BY <1>14, <2>2, <2>3 DEF DbFault
<1> QED BY <1>4, <1>5, <1>6, <1>7, <1>8, <1>9, <1>10, <1>11, <1>12, <1>13, <1>14 DEF TaskNext

-----------------------------------------------------------------------------
(* What the steps do to the rows *)

\* Every Job object but a candidate is past the checks of queue().
LEMMA HeldIsActive ==
  ASSUME TypeOK, NEW o \in TaskIds
  PROVE  Held(o) <=> Active(o) \/ task[o].at = "candidate"
<1>1. task[o].at \in Steps
  BY TypeOf DEF Task
<1> QED BY <1>1 DEF Held, Active, Steps, WorkerSteps, PollerSteps, BeforeService, InService

\* A row that is inserted is none of those that exist.
LEMMA InsertionRows ==
  ASSUME TypeOK, Insertion, NEW j \in Jobs, Exists(j)
  PROVE  sandbox'[j] = sandbox[j]
<1>1. PICK k \in Jobs : NextFree(k) /\ \E row \in Row : Store(k, row)
  BY DEF Insertion
<1>2. k # j
  BY <1>1 DEF NextFree
<1> QED BY <1>1, <1>2 DEF TypeOK, Store

\* A step of a Job object changes one row that exists, its own, ...
LEMMA TaskRows ==
  ASSUME ExecutionInv, NEW o \in TaskIds, TaskNext(o), NEW j \in Jobs, Exists(j)
  PROVE  /\ Exists(j)'
         /\ j # JobOf(o) => sandbox'[j] = sandbox[j] /\ runs'[j] = runs[j]
<1>1. TypeOK /\ CopiesFit /\ JobOf(o) \in Jobs
  BY TaskIdParts DEF ExecutionInv, BaseInv
<1>2. UNCHANGED sandbox \/ Insertion => sandbox'[j] = sandbox[j]
  BY <1>1, InsertionRows
<1>3. ASSUME NEW row \in Row, row.status # "ABSENT", Store(JobOf(o), row)
      PROVE  Exists(j)' /\ (j # JobOf(o) => sandbox'[j] = sandbox[j])
  BY <1>1, <1>3 DEF TypeOK, Store, Exists
<1>4. Exists(j)' /\ (j # JobOf(o) => sandbox'[j] = sandbox[j])
  BY <1>1, <1>2, <1>3, TaskEffects
     DEF Exists, Enters, Leaves, Moves, Stores, Returns, Starts, Fails, Ends
<1>5. UNCHANGED runs \/ runs' = [runs EXCEPT ![JobOf(o)] = @ + 1]
  BY <1>1, TaskEffects DEF Enters, Leaves, Moves, Stores, Returns, Starts, Fails, Ends
<1>6. j # JobOf(o) => runs'[j] = runs[j]
  BY <1>1, <1>5 DEF TypeOK
<1> QED BY <1>4, <1>6

\* ... and what the invariant says of that row and of the Job object holds
\* after the step.
LEMMA OwnAfter ==
  ASSUME ExecutionInv, NEW o \in TaskIds, TaskNext(o)
  PROVE  /\ Active(o)' => \/ sandbox'[JobOf(o)].cancel \/ sandbox'[JobOf(o)].start
                          \/ sandbox'[JobOf(o)].runBy = Inst(o)
         /\ task'[o].at \in StartedSteps => sandbox'[JobOf(o)].cancel \/ sandbox'[JobOf(o)].start
         /\ Active(o)' => \A p \in TaskIds : JobOf(p) = JobOf(o) /\ Active(p) => p = o
         /\ runs'[JobOf(o)] # 0 => /\ runs'[JobOf(o)] = 1
                                   /\ sandbox'[JobOf(o)].start \/ sandbox'[JobOf(o)].cancel
         /\ task'[o].at \in BeforeService => runs'[JobOf(o)] = 0
         /\ task'[o].at \in InService => runs'[JobOf(o)] = 1
<1> DEFINE j == JobOf(o)
           Owned == /\ Active(o)' => \/ sandbox'[j].cancel \/ sandbox'[j].start
                                     \/ sandbox'[j].runBy = Inst(o)
                    /\ task'[o].at \in StartedSteps => sandbox'[j].cancel \/ sandbox'[j].start
           Alone == Active(o)' => \A p \in TaskIds : JobOf(p) = j /\ Active(p) => p = o
           Once == runs'[j] # 0 => runs'[j] = 1 /\ (sandbox'[j].start \/ sandbox'[j].cancel)
           Fit == /\ task'[o].at \in BeforeService => runs'[j] = 0
                  /\ task'[o].at \in InService => runs'[j] = 1
<1>1. TypeOK /\ CopiesFit /\ j \in Jobs /\ Held(o) /\ Exists(j)
  BY TaskIdParts, TaskFrame DEF ExecutionInv, BaseInv, OnceInv, RowsExist, Held
<1>2. sandbox[j] \in Row /\ runs[j] \in Nat
  BY <1>1, TypeOf DEF TypeOK
<1>3. /\ Active(o) => \/ sandbox[j].cancel \/ sandbox[j].start
                      \/ sandbox[j].runBy = Inst(o)
      /\ task[o].at \in StartedSteps => sandbox[j].cancel \/ sandbox[j].start
      /\ Active(o) => \A p \in TaskIds : JobOf(p) = j /\ Active(p) => p = o
  BY DEF ExecutionInv, OnceInv, ActiveOwns, ActiveAlone
<1>4. /\ runs[j] # 0 => runs[j] = 1 /\ (sandbox[j].start \/ sandbox[j].cancel)
      /\ task[o].at \in BeforeService => runs[j] = 0
      /\ task[o].at \in InService => runs[j] = 1
  BY <1>1 DEF ExecutionInv, OnceInv, RunsOnce, RunsFit
<1>5. ASSUME NEW row, Store(j, row) PROVE sandbox'[j] = row
  BY <1>1, <1>5 DEF TypeOK, Store
<1>6. UNCHANGED sandbox \/ Insertion => sandbox'[j] = sandbox[j]
  BY <1>1, InsertionRows
<1>7. /\ BeforeService \cap InService = {} /\ StartedSteps \cap BeforeService = {"recur"}
      /\ "none" \notin BeforeService \cup InService \cup StartedSteps
      /\ InService \subseteq StartedSteps
  BY DEF BeforeService, InService, StartedSteps
<1>8. Active(o) <=> task[o].at \in BeforeService \cup InService
  BY DEF Active
<1>9. Active(o)' <=> task'[o].at \in BeforeService \cup InService
  BY DEF Active
<1> HIDE DEF j
<1>10. CASE Enters(o)
  <2>1. Owned
    BY <1>7, <1>9, <1>10 DEF Enters, j
  <2>2. Alone
    <3>1. ASSUME NEW p \in TaskIds, JobOf(p) = j, Active(p) PROVE p = o
      <4>1. sandbox[j].runBy = Inst(p)
        BY <1>10, <3>1 DEF Enters, ExecutionInv, OnceInv, ActiveOwns, j
      <4>2. Inst(p) = Inst(o) /\ Held(p)
        BY <1>1, <1>10, <3>1, <4>1, HeldIsActive DEF Enters, j
      <4> QED BY <1>1, <3>1, <4>2 DEF ExecutionInv, OnceInv, OnePerInstance, j
    <3> QED BY <3>1
  <2>3. Once /\ Fit
    BY <1>4, <1>7, <1>10 DEF Enters, j
  <2> QED BY <2>1, <2>2, <2>3 DEF j
<1>11. CASE Leaves(o)
  BY <1>4, <1>7, <1>9, <1>11 DEF Leaves, j
<1>12. CASE Moves(o)
  BY <1>3, <1>4, <1>7, <1>8, <1>9, <1>12 DEF Moves, j
<1>13. CASE Stores(o)
  <2>1. PICK row \in Row : /\ row.runBy = Inst(o) /\ Store(j, row)
                           /\ task'[o].at \in StartedSteps => row.start
    BY <1>13 DEF Stores, j
  <2>2. sandbox'[j] = row /\ task[o].at \in BeforeService /\ task'[o].at \in BeforeService /\ UNCHANGED runs
    BY <1>5, <1>13, <2>1 DEF Stores
  <2> QED BY <1>3, <1>4, <1>7, <1>8, <1>9, <2>1, <2>2 DEF j
<1>14. CASE Returns(o)
  BY <1>4, <1>7, <1>9, <1>14 DEF Returns, j
<1>15. CASE Starts(o)
  <2>1. task[o].at \in BeforeService /\ task'[o].at = "service" /\ runs'[j] = 1
    BY <1>1, <1>4, <1>15 DEF Starts, TypeOK, j
  <2>2. sandbox'[j].cancel \/ sandbox'[j].start
    <3>1. ASSUME NEW row \in Row, row.start, Store(j, row) PROVE sandbox'[j].start
      BY <1>5, <3>1
    <3>2. CASE task[o].at = "recur" /\ (UNCHANGED sandbox \/ Insertion)
      BY <1>3, <1>6, <3>2 DEF StartedSteps
    <3> QED BY <1>15, <3>1, <3>2 DEF Starts, j
  <2>3. "service" \in InService
    BY DEF InService
  <2> QED BY <1>3, <1>7, <1>8, <1>9, <2>1, <2>2, <2>3 DEF j
<1>16. CASE Fails(o)
  <2>1. /\ task[o].at \in InService /\ task'[o].at \in InService /\ UNCHANGED runs
        /\ sandbox'[j] = sandbox[j]
    BY <1>6, <1>16 DEF Fails, InService
  <2> QED BY <1>3, <1>4, <1>7, <1>8, <1>9, <2>1 DEF j
<1>17. CASE Ends(o)
  <2>1. PICK row \in Row : row.start /\ Store(j, row)
    BY <1>17 DEF Ends, j
  <2>2. task[o].at \in InService /\ task'[o].at = "none" /\ UNCHANGED runs /\ sandbox'[j].start
    BY <1>5, <1>17, <2>1 DEF Ends
  <2> QED BY <1>4, <1>7, <1>9, <2>2 DEF j
<1> QED BY <1>1, <1>10, <1>11, <1>12, <1>13, <1>14, <1>15, <1>16, <1>17, TaskEffects

\* A step of a Job object keeps the invariant: the others on its row are
\* candidates, and are not concerned.
LEMMA TaskKeepsOnce ==
  ASSUME ExecutionInv, NEW o \in TaskIds, TaskNext(o)
  PROVE  OnceInv'
<1>1. /\ TypeOK /\ JobOf(o) \in Jobs /\ Held(o)
      /\ UNCHANGED <<poller, reload, admin>>
  BY TaskIdParts, TaskFrame DEF ExecutionInv, BaseInv, Held
<1>2. \A p \in TaskIds : p = o \/ task'[p] = task[p]
  BY <1>1, OtherTasksAfter
<1>3. \A j \in Jobs : Exists(j) => /\ Exists(j)'
                                   /\ j # JobOf(o) => sandbox'[j] = sandbox[j] /\ runs'[j] = runs[j]
  BY TaskRows
<1>4. \A p \in TaskIds : JobOf(p) \in Jobs /\ (Held(p) => Exists(JobOf(p)))
  BY TaskIdParts DEF ExecutionInv, OnceInv, RowsExist
<1>5. \A p \in TaskIds : Active(p) => Held(p)
  BY <1>1, HeldIsActive
<1>6. \A p \in TaskIds : p = o \/ ((Active(p)' <=> Active(p)) /\ (Held(p)' <=> Held(p)))
  <2> SUFFICES ASSUME NEW p \in TaskIds, task'[p] = task[p]
               PROVE  (Active(p)' <=> Active(p)) /\ (Held(p)' <=> Held(p))
    BY <1>2
  <2> QED BY DEF Active, Held
<1>7. \A p \in TaskIds : Held(p)' => Held(p)
  BY <1>1, <1>6
<1>8. RowsExist'
  <2>1. \A p \in TaskIds : Held(p)' => Exists(JobOf(p))'
    BY <1>3, <1>4, <1>7
  <2>2. \A i \in Instances : \A j \in reload'[i].todo : Exists(j)'
    BY <1>1, <1>3, TypeOf DEF ExecutionInv, OnceInv, RowsExist
  <2>3. admin'.kind # "none" => Exists(admin.job)' /\ admin'.val.status # "ABSENT"
    BY <1>1, <1>3, AdminCallType DEF ExecutionInv, OnceInv, RowsExist
  <2> QED BY <1>1, <2>1, <2>2, <2>3 DEF RowsExist
<1>9. DueAreFree'
  <2> SUFFICES ASSUME NEW i \in Instances, NEW j \in poller'[i].due
               PROVE  Exists(j)' /\ \A p \in TaskIds : Inst(p) = i /\ JobOf(p) = j => ~Held(p)'
    BY DEF DueAreFree
  <2>1. j \in poller[i].due
    BY <1>1
  <2>2. j \in Jobs
    <3>1. poller[i] \in Polling
      BY <1>1, TypeOf
    <3> QED BY <2>1, <3>1 DEF Polling
  <2> QED BY <1>3, <1>7, <2>1, <2>2 DEF ExecutionInv, OnceInv, DueAreFree
<1>10. OnePerInstance'
  BY <1>7 DEF ExecutionInv, OnceInv, OnePerInstance
<1>11. /\ Active(o)' => \/ sandbox'[JobOf(o)].cancel \/ sandbox'[JobOf(o)].start
                        \/ sandbox'[JobOf(o)].runBy = Inst(o)
       /\ task'[o].at \in StartedSteps => sandbox'[JobOf(o)].cancel \/ sandbox'[JobOf(o)].start
       /\ Active(o)' => \A p \in TaskIds : JobOf(p) = JobOf(o) /\ Active(p) => p = o
       /\ runs'[JobOf(o)] # 0 => /\ runs'[JobOf(o)] = 1
                                 /\ sandbox'[JobOf(o)].start \/ sandbox'[JobOf(o)].cancel
       /\ task'[o].at \in BeforeService => runs'[JobOf(o)] = 0
       /\ task'[o].at \in InService => runs'[JobOf(o)] = 1
  BY OwnAfter
<1>12. ActiveAlone'
  BY <1>6, <1>11 DEF ExecutionInv, OnceInv, ActiveAlone
<1>13. \A p \in TaskIds : /\ task[p].at \in StartedSteps => Active(p)
                          /\ task[p].at \in BeforeService \cup InService => Active(p)
  BY DEF Active, StartedSteps, BeforeService, InService
<1>14. ASSUME NEW p \in TaskIds, p # o, Active(p), JobOf(p) = JobOf(o)
       PROVE  task[o].at = "candidate" /\ ~Active(o)' /\ sandbox'[JobOf(o)] = sandbox[JobOf(o)]
              /\ runs'[JobOf(o)] = runs[JobOf(o)]
  <2>1. ~Active(o) /\ ~Active(o)'
    BY <1>11, <1>14 DEF ExecutionInv, OnceInv, ActiveAlone
  <2>2. task[o].at = "candidate"
    BY <1>1, <2>1, HeldIsActive
  <2>3. UNCHANGED <<sandbox, runs>>
    BY <1>1, <2>2, TaskEffects DEF ExecutionInv, BaseInv, BeforeService, InService,
         Enters, Leaves, Moves, Stores, Returns, Starts, Fails, Ends
  <2> QED BY <2>1, <2>2, <2>3
<1>15. ActiveOwns'
  <2> SUFFICES ASSUME NEW p \in TaskIds
               PROVE  /\ Active(p)' => \/ sandbox'[JobOf(p)].cancel \/ sandbox'[JobOf(p)].start
                                       \/ sandbox'[JobOf(p)].runBy = Inst(p)
                      /\ task'[p].at \in StartedSteps => sandbox'[JobOf(p)].cancel \/ sandbox'[JobOf(p)].start
    BY DEF ActiveOwns
  <2>1. CASE p = o
    BY <1>11, <2>1
  <2>2. CASE p # o
    <3>1. task'[p] = task[p] /\ (Active(p)' <=> Active(p))
      BY <1>2, <1>6, <2>2
    <3>2. Active(p) => sandbox'[JobOf(p)] = sandbox[JobOf(p)]
      BY <1>3, <1>4, <1>5, <1>14, <2>2
    <3> QED BY <1>13, <3>1, <3>2 DEF ExecutionInv, OnceInv, ActiveOwns
  <2> QED BY <2>1, <2>2
<1>16. RunsOnce'
  <2> SUFFICES ASSUME NEW j \in Jobs, runs'[j] # 0
               PROVE  runs'[j] = 1 /\ Exists(j)' /\ (sandbox'[j].start \/ sandbox'[j].cancel)
    BY DEF RunsOnce
  <2>1. CASE j = JobOf(o)
    BY <1>1, <1>3, <1>4, <1>11, <2>1
  <2>2. CASE j # JobOf(o)
    <3>1. runs'[j] = runs[j]
      <4>1. UNCHANGED runs \/ runs' = [runs EXCEPT ![JobOf(o)] = @ + 1]
        BY <1>1, TaskEffects DEF ExecutionInv, BaseInv,
             Enters, Leaves, Moves, Stores, Returns, Starts, Fails, Ends
      <4> QED BY <1>1, <2>2, <4>1 DEF TypeOK
    <3> QED BY <1>3, <2>2, <3>1 DEF ExecutionInv, OnceInv, RunsOnce
  <2> QED BY <2>1, <2>2
<1>17. RunsFit'
  <2> SUFFICES ASSUME NEW p \in TaskIds
               PROVE  /\ task'[p].at \in BeforeService => runs'[JobOf(p)] = 0
                      /\ task'[p].at \in InService => runs'[JobOf(p)] = 1
    BY DEF RunsFit
  <2>1. CASE p = o
    BY <1>11, <2>1
  <2>2. CASE p # o
    <3>1. task'[p] = task[p]
      BY <1>2, <2>2
    <3>2. Active(p) => runs'[JobOf(p)] = runs[JobOf(p)]
      BY <1>3, <1>4, <1>5, <1>14, <2>2
    <3> QED BY <1>13, <3>1, <3>2 DEF ExecutionInv, OnceInv, RunsFit
  <2> QED BY <2>1, <2>2
<1> QED BY <1>8, <1>9, <1>10, <1>12, <1>15, <1>16, <1>17 DEF OnceInv

\* What everybody else does to the rows: one is inserted, or one that exists
\* is stored cancelled.
Crossed == \/ UNCHANGED sandbox \/ Insertion
           \/ \E j \in Jobs, row \in Row : /\ Exists(j) /\ row.status # "ABSENT" /\ row.cancel
                                           /\ Store(j, row)
Quiet == Crossed /\ UNCHANGED <<task, runs, poller>>

LEMMA CrossedRows ==
  ASSUME TypeOK, Crossed, NEW j \in Jobs, Exists(j)
  PROVE  Exists(j)' /\ (sandbox'[j] = sandbox[j] \/ sandbox'[j].cancel)
<1>1. UNCHANGED sandbox \/ Insertion => sandbox'[j] = sandbox[j]
  BY InsertionRows
<1>2. ASSUME NEW k \in Jobs, NEW row \in Row, row.status # "ABSENT", row.cancel, Store(k, row)
      PROVE  Exists(j)' /\ (sandbox'[j] = sandbox[j] \/ sandbox'[j].cancel)
  BY <1>2 DEF TypeOK, Store, Exists
<1> QED BY <1>1, <1>2 DEF Crossed, Exists

\* Such a step keeps what the invariant says of Job objects and rows.
LEMMA QuietKeepsOnce ==
  ASSUME ExecutionInv, Quiet, RowsExist'
  PROVE  OnceInv'
<1>1. TypeOK /\ UNCHANGED <<task, runs, poller>>
  BY DEF ExecutionInv, BaseInv, Quiet
<1>2. \A j \in Jobs : Exists(j) => Exists(j)' /\ (sandbox'[j] = sandbox[j] \/ sandbox'[j].cancel)
  BY <1>1, CrossedRows DEF Quiet
<1>3. \A p \in TaskIds : JobOf(p) \in Jobs /\ (Active(p) => Exists(JobOf(p)))
  BY <1>1, TaskIdParts, HeldIsActive DEF ExecutionInv, OnceInv, RowsExist
<1>4. ASSUME NEW p \in TaskIds
      PROVE  /\ Active(p)' <=> Active(p)
             /\ Held(p)' <=> Held(p)
  BY <1>1 DEF Active, Held
<1>5. DueAreFree'
  <2> SUFFICES ASSUME NEW i \in Instances, NEW j \in poller[i].due
               PROVE  Exists(j)' /\ \A p \in TaskIds : Inst(p) = i /\ JobOf(p) = j => ~Held(p)'
    BY <1>1 DEF DueAreFree
  <2>1. j \in Jobs
    <3>1. poller[i] \in Polling
      BY <1>1, TypeOf
    <3> QED BY <3>1 DEF Polling
  <2> QED BY <1>2, <1>4, <2>1 DEF ExecutionInv, OnceInv, DueAreFree
<1>6. OnePerInstance' /\ ActiveAlone'
  BY <1>4 DEF ExecutionInv, OnceInv, OnePerInstance, ActiveAlone
<1>7. ActiveOwns'
  <2> SUFFICES ASSUME NEW p \in TaskIds
               PROVE  /\ Active(p)' => \/ sandbox'[JobOf(p)].cancel \/ sandbox'[JobOf(p)].start
                                       \/ sandbox'[JobOf(p)].runBy = Inst(p)
                      /\ task'[p].at \in StartedSteps => sandbox'[JobOf(p)].cancel \/ sandbox'[JobOf(p)].start
    BY DEF ActiveOwns
  <2>1. task[p].at \in StartedSteps => Active(p)
    BY DEF Active, StartedSteps, BeforeService, InService
  <2> QED BY <1>1, <1>2, <1>3, <1>4, <2>1 DEF ExecutionInv, OnceInv, ActiveOwns
<1>8. RunsOnce' /\ RunsFit'
  BY <1>1, <1>2 DEF ExecutionInv, OnceInv, RunsOnce, RunsFit
<1> QED BY <1>5, <1>6, <1>7, <1>8 DEF OnceInv

\* The steps that do no more than that: scheduling, ...
LEMMA ScheduleIsQuiet ==
  ASSUME ExecutionInv, NEW t \in Templates, Schedule(t)
  PROVE  Quiet /\ UNCHANGED <<reload, admin>> /\ Insertion
<1>1. PICK k \in Jobs : NextFree(k) /\ Store(k, Scheduled(t))
  BY DEF Schedule, Scheduled
<1>2. Scheduled(t) \in Row /\ Scheduled(t).status = "PENDING"
  <2>1. t.recurs \in BOOLEAN /\ t.maxRecur \in Int /\ t.maxRetry \in Int /\ t.retry \in Int
    BY DEF Template, Null
  <2>2. AbsentRow \in Row /\ "PENDING" \in Statuses /\ 0 \in Int
    BY TypeConstants DEF Statuses
  <2>3. Scheduled(t) \in Row
    BY <2>1, <2>2 DEF Scheduled, Row
  <2>4. Scheduled(t).status = "PENDING"
    BY <2>2 DEF Scheduled, Row
  <2> QED BY <2>3, <2>4
<1> QED BY <1>1, <1>2 DEF Schedule, Quiet, Crossed, Insertion, history

\* ... the reload of crashed jobs ...
LEMMA ReloadIsQuiet ==
  ASSUME ExecutionInv, NEW i \in Instances, ReloadNext(i)
  PROVE  /\ Quiet /\ UNCHANGED admin
         /\ \A k \in Instances : \A j \in reload'[k].todo : j \in reload[k].todo \/ Exists(j)
<1> USE DEF ExecutionInv, BaseInv
<1>1. /\ UNCHANGED <<task, runs, poller, admin>>
      /\ \A k \in Instances \ {i} : reload'[k] = reload[k]
  BY ReloadSteps
<1>2. Crossed
  <2>1. CASE ReloadQuery(i) \/ \E j \in Jobs : ReloadFault(i, j)
    BY <2>1 DEF ReloadQuery, ReloadFault, Crossed
  <2>2. CASE ReloadMark(i)
    <3> DEFINE j == reload[i].half
               row == [reload[i].vals[j] EXCEPT !.status = "CRASHED", !.cancel = TRUE]
    <3>1. j \in reload[i].todo /\ j \in Jobs /\ Store(j, row)
      BY <2>2, TypeOf DEF ReloadMark, ReloadFirst
    <3>2. row \in Row /\ row.status = "CRASHED" /\ row.cancel
      <4>1. reload[i].vals[j] \in Row
        BY <3>1, TypeOf
      <4> QED BY <4>1 DEF Row, Statuses
    <3>3. Exists(j)
      BY <3>1 DEF OnceInv, RowsExist
    <3> HIDE DEF j, row
    <3> QED BY <3>1, <3>2, <3>3 DEF Crossed
  <2>3. ASSUME NEW j \in Jobs, ReloadCreate(i, j) PROVE Crossed
    <3>1. PICK k \in Jobs : NextFree(k) /\ Store(k, CrashCopy(j, reload[i].vals[j]))
      BY <2>3 DEF ReloadCreate
    <3>2. reload[i].vals[j] \in Row
      BY TypeOf
    <3>3. CrashCopy(j, reload[i].vals[j]) \in Row /\ CrashCopy(j, reload[i].vals[j]).status = "PENDING"
      <4>1. 0 \in Int
        OBVIOUS
      <4>2. CrashCopy(j, reload[i].vals[j]).status = "PENDING"
        BY <3>2 DEF CrashCopy, Recurrence, Row
      <4> QED BY <3>2, <4>1, <4>2, RecurrenceType
    <3> QED BY <3>1, <3>3 DEF Crossed, Insertion
  <2> QED BY <2>1, <2>2, <2>3 DEF ReloadNext
<1>3. ASSUME NEW k \in Instances, NEW j \in reload'[k].todo PROVE j \in reload[k].todo \/ Exists(j)
  <2>1. CASE k # i
    BY <1>1, <1>3, <2>1
  <2>2. CASE k = i
    <3>1. CASE ReloadQuery(i)
      <4>1. CASE UNCHANGED used
        BY <1>3, <2>2, <3>1, <4>1, ReloadQueryAfter DEF Crashed, Exists
      <4>2. CASE reload' = [reload EXCEPT ![i] = Reloaded]
        <5>1. reload'[i].todo = {}
          BY <4>2 DEF TypeOK, Reloaded, NotReloaded
        <5> QED BY <1>3, <2>2, <5>1
      <4> QED BY <3>1, <4>1, <4>2 DEF ReloadQuery
    <3>2. ASSUME NEW l \in reload[i].todo, reload'[i] = AfterReloadOf(i, l) PROVE j \in reload[k].todo
      <4>1. l \in Jobs
        BY TypeOf
      <4> QED BY <1>3, <2>2, <3>2, <4>1, AfterReload
    <3> QED BY <1>3, <2>2, <3>1, <3>2, ReloadSteps
  <2> QED BY <2>1, <2>2
<1> QED BY <1>1, <1>2, <1>3 DEF Quiet

\* ... and the administrative services but resetJob.
LEMMA AdminIsQuiet ==
  ASSUME ExecutionInv, AdminNext
  PROVE  /\ Quiet /\ UNCHANGED reload
         /\ admin'.kind # "none" => Exists(admin'.job) /\ admin'.val.status # "ABSENT"
<1> USE DEF ExecutionInv, BaseInv
<1>1. UNCHANGED <<task, runs, poller, reload>>
  BY DEF AdminNext, AdminRead, CancelStore, ResetStore, CancelRetriesStore, history
<1>2. NoCall.kind = "none" /\ admin.kind # "reset"
  BY DEF NoCall, NoReset
<1>3. admin.kind # "none" => /\ admin.job \in Jobs /\ admin.val \in Row
                             /\ Exists(admin.job) /\ admin.val.status # "ABSENT"
  BY AdminCallType DEF OnceInv, RowsExist
<1>4. CASE \E kind \in AdminKinds, j \in Jobs : AdminRead(kind, j)
  BY <1>1, <1>4 DEF AdminRead, Quiet, Crossed, Exists
<1>5. CASE CancelStore
  <2> DEFINE row == [admin.val EXCEPT !.status = "CANCELLED", !.cancel = TRUE]
  <2>1. row \in Row /\ row.status = "CANCELLED" /\ row.cancel
    BY <1>3, <1>5 DEF CancelStore, Row, Statuses
  <2>2. Store(admin.job, row) /\ admin' = NoCall
    BY <1>5 DEF CancelStore
  <2> HIDE DEF row
  <2> QED BY <1>1, <1>2, <1>3, <1>5, <2>1, <2>2 DEF CancelStore, Quiet, Crossed
<1>6. CASE CancelRetriesStore
  <2> DEFINE row == [admin.val EXCEPT !.maxRetry = 0]
  <2>1. /\ row \in Row /\ row.status = admin.val.status
        /\ row.cancel = admin.val.cancel
    BY <1>3, <1>6 DEF CancelRetriesStore, Row
  <2>2. admin' = NoCall /\ (UNCHANGED sandbox \/ (admin.val.cancel /\ Store(admin.job, row)))
    BY <1>6 DEF CancelRetriesStore
  <2> HIDE DEF row
  <2> QED BY <1>1, <1>2, <1>3, <1>6, <2>1, <2>2 DEF CancelRetriesStore, Quiet, Crossed
<1> QED BY <1>2, <1>4, <1>5, <1>6 DEF AdminNext, ResetStore

\* The name that a new Job object gets is the only one of its kind.
LEMMA NewTaskIdUnique ==
  ASSUME NEW i, NEW j, NEW o, NEW p, NewTaskId(i, j, o), NewTaskId(i, j, p)
  PROVE  o = p
<1>1. /\ o = <<i, j, o[3]>> /\ o[3] \in Copies /\ p = <<i, j, p[3]>> /\ p[3] \in Copies
      /\ task[o].at = "none" /\ task[p].at = "none"
  BY DEF NewTaskId, TaskIds, Inst, JobOf
<1>2. ~(o[3] < p[3]) /\ ~(p[3] < o[3])
  <2>1. o[3] < p[3] => task[<<i, j, o[3]>>].at # "none"
    BY <1>1 DEF NewTaskId
  <2>2. p[3] < o[3] => task[<<i, j, p[3]>>].at # "none"
    BY <1>1 DEF NewTaskId
  <2> QED BY <1>1, <2>1, <2>2
<1>3. o[3] = p[3]
  <2>1. o[3] \in Nat /\ p[3] \in Nat
    BY <1>1
  <2> QED BY <1>2, <2>1
<1> QED BY <1>1, <1>3

\* What a claim does: the rows it takes get a candidate each, the rest stays.
LEMMA ClaimSteps ==
  ASSUME ExecutionInv, NEW i \in Instances, NEW claimed \in SUBSET poller[i].due, PollClaim(i, claimed)
  PROVE  /\ \A j \in Jobs : /\ Exists(j)' <=> Exists(j)
                            /\ sandbox'[j].start = sandbox[j].start /\ sandbox'[j].cancel = sandbox[j].cancel
                            /\ j \notin claimed => sandbox'[j] = sandbox[j]
                            /\ j \in claimed => sandbox[j].runBy = NoInstance /\ Exists(j)
         /\ \A p \in TaskIds : \/ task'[p] = task[p]
                               \/ /\ task'[p].at = "candidate" /\ Inst(p) = i /\ JobOf(p) \in claimed
                                  /\ NewTaskId(i, JobOf(p), p)
                                  /\ \A q \in TaskIds : Inst(q) = i /\ JobOf(q) = JobOf(p) => ~Held(q)
<1>1. /\ TypeOK /\ poller[i].due \subseteq Jobs
      /\ \A j \in claimed : Exists(j) /\ \A q \in TaskIds : Inst(q) = i /\ JobOf(q) = j => ~Held(q)
  BY TypeOf DEF ExecutionInv, BaseInv, OnceInv, DueAreFree, Polling
<1>2. ASSUME NEW j \in Jobs
      PROVE  /\ Exists(j)' <=> Exists(j)
             /\ sandbox'[j].start = sandbox[j].start /\ sandbox'[j].cancel = sandbox[j].cancel
             /\ j \notin claimed => sandbox'[j] = sandbox[j]
             /\ j \in claimed => sandbox[j].runBy = NoInstance /\ Exists(j)
  <2>1. sandbox'[j] = IF j \in claimed THEN [sandbox[j] EXCEPT !.runBy = i] ELSE sandbox[j]
    BY DEF PollClaim
  <2>2. sandbox[j] \in Row
    BY <1>1, TypeOf
  <2>3. /\ sandbox'[j].status = sandbox[j].status
        /\ sandbox'[j].start = sandbox[j].start /\ sandbox'[j].cancel = sandbox[j].cancel
    BY <2>1, <2>2 DEF Row
  <2> QED BY <1>1, <2>1, <2>3 DEF Exists, PollClaim, Claimable
<1>3. \A n, m : [NoTask EXCEPT !.at = "candidate", !.maxRetry = n, !.retry = m].at = "candidate"
  BY DEF NoTask
<1>4. \A p \in TaskIds : \/ task'[p] = task[p]
                         \/ /\ task'[p].at = "candidate" /\ JobOf(p) \in claimed
                            /\ NewTaskId(i, JobOf(p), p)
  BY <1>3 DEF PollClaim
<1> QED BY <1>1, <1>2, <1>4 DEF NewTaskId

LEMMA ClaimKeepsOnce ==
  ASSUME ExecutionInv, NEW i \in Instances, NEW claimed \in SUBSET poller[i].due, PollClaim(i, claimed)
  PROVE  OnceInv'
<1>1. /\ TypeOK /\ UNCHANGED <<reload, admin, runs>>
      /\ \A k \in Instances : poller'[k] = IF k = i THEN Idle ELSE poller[k]
  BY DEF ExecutionInv, BaseInv, TypeOK, PollClaim, history
<1>2. /\ \A j \in Jobs : /\ Exists(j)' <=> Exists(j)
                         /\ sandbox'[j].start = sandbox[j].start /\ sandbox'[j].cancel = sandbox[j].cancel
                         /\ j \notin claimed => sandbox'[j] = sandbox[j]
                         /\ j \in claimed => sandbox[j].runBy = NoInstance /\ Exists(j)
  BY ClaimSteps
<1>3. \A p \in TaskIds : \/ task'[p] = task[p]
                         \/ /\ task'[p].at = "candidate" /\ Inst(p) = i /\ JobOf(p) \in claimed
                            /\ NewTaskId(i, JobOf(p), p)
                            /\ \A q \in TaskIds : Inst(q) = i /\ JobOf(q) = JobOf(p) => ~Held(q)
  BY ClaimSteps
<1>4. \A p \in TaskIds : JobOf(p) \in Jobs /\ Inst(p) \in Instances
  BY TaskIdParts
<1>5. ASSUME NEW p \in TaskIds, Active(p)' PROVE Active(p) /\ task'[p] = task[p]
  <2>1. task'[p].at # "candidate"
    BY <1>5 DEF Active, BeforeService, InService
  <2> QED BY <1>3, <1>5, <2>1 DEF Active
<1>6. RowsExist'
  <2>1. \A p \in TaskIds : Held(p)' => Exists(JobOf(p))'
    BY <1>2, <1>3, <1>4 DEF Held, ExecutionInv, OnceInv, RowsExist
  <2>2. \A k \in Instances : \A j \in reload'[k].todo : Exists(j)'
    BY <1>1, <1>2, TypeOf DEF ExecutionInv, OnceInv, RowsExist
  <2>3. admin'.kind # "none" => Exists(admin.job)' /\ admin'.val.status # "ABSENT"
    BY <1>1, <1>2, AdminCallType DEF ExecutionInv, OnceInv, RowsExist
  <2> QED BY <1>1, <2>1, <2>2, <2>3 DEF RowsExist
<1>7. DueAreFree'
  <2> SUFFICES ASSUME NEW k \in Instances, NEW j \in poller'[k].due
               PROVE  Exists(j)' /\ \A p \in TaskIds : Inst(p) = k /\ JobOf(p) = j => ~Held(p)'
    BY DEF DueAreFree
  <2>1. k # i /\ j \in poller[k].due
    <3>1. Idle.due = {}
      BY DEF Idle
    <3> QED BY <1>1, <3>1
  <2>2. j \in Jobs
    <3>1. poller[k] \in Polling
      BY <1>1, TypeOf
    <3> QED BY <2>1, <3>1 DEF Polling
  <2>3. \A p \in TaskIds : Inst(p) = k => task'[p] = task[p]
    BY <1>3, <2>1
  <2> QED BY <1>2, <2>1, <2>2, <2>3 DEF Held, ExecutionInv, OnceInv, DueAreFree
<1>8. OnePerInstance'
  <2> SUFFICES ASSUME NEW o \in TaskIds, NEW p \in TaskIds, Inst(o) = Inst(p), JobOf(o) = JobOf(p),
                      Held(o)', Held(p)'
               PROVE  o = p
    BY DEF OnePerInstance
  <2>1. task'[o] = task[o] => Held(o)
    BY DEF Held
  <2>2. task'[p] = task[p] => Held(p)
    BY DEF Held
  <2>3. CASE task'[o] = task[o] /\ task'[p] = task[p]
    BY <2>1, <2>2, <2>3 DEF ExecutionInv, OnceInv, OnePerInstance
  <2>4. CASE task'[o] # task[o] \/ task'[p] # task[p]
    <3>1. NewTaskId(i, JobOf(o), o) /\ NewTaskId(i, JobOf(p), p)
      BY <1>3, <2>1, <2>2, <2>4
    <3> QED BY <3>1, NewTaskIdUnique
  <2> QED BY <2>3, <2>4
<1>9. ActiveAlone'
  BY <1>5 DEF ExecutionInv, OnceInv, ActiveAlone
<1>10. ActiveOwns'
  <2> SUFFICES ASSUME NEW p \in TaskIds, Active(p)'
               PROVE  /\ \/ sandbox'[JobOf(p)].cancel \/ sandbox'[JobOf(p)].start
                         \/ sandbox'[JobOf(p)].runBy = Inst(p)
                      /\ task'[p].at \in StartedSteps => sandbox'[JobOf(p)].cancel \/ sandbox'[JobOf(p)].start
    BY DEF ActiveOwns, Active, StartedSteps, BeforeService, InService
  <2>1. Active(p) /\ task'[p] = task[p]
    BY <1>5
  <2>2. /\ sandbox[JobOf(p)].cancel \/ sandbox[JobOf(p)].start \/ sandbox[JobOf(p)].runBy = Inst(p)
        /\ task[p].at \in StartedSteps => sandbox[JobOf(p)].cancel \/ sandbox[JobOf(p)].start
    BY <2>1 DEF ExecutionInv, OnceInv, ActiveOwns
  <2>3. sandbox[JobOf(p)].runBy = Inst(p) => sandbox'[JobOf(p)] = sandbox[JobOf(p)]
    BY <1>2, <1>4
  <2> QED BY <1>2, <1>4, <2>1, <2>2, <2>3
<1>11. RunsOnce'
  BY <1>1, <1>2 DEF ExecutionInv, OnceInv, RunsOnce
<1>12. RunsFit'
  <2> SUFFICES ASSUME NEW p \in TaskIds, Active(p)'
               PROVE  /\ task'[p].at \in BeforeService => runs'[JobOf(p)] = 0
                      /\ task'[p].at \in InService => runs'[JobOf(p)] = 1
    BY DEF RunsFit, Active
  <2> QED BY <1>1, <1>5 DEF ExecutionInv, OnceInv, RunsFit
<1> QED BY <1>6, <1>7, <1>8, <1>9, <1>10, <1>11, <1>12 DEF OnceInv

\* A poll selects rows for which its instance has no Job object: those that
\* are not candidates have the row in their name.
LEMMA SelectKeepsOnce ==
  ASSUME ExecutionInv, NEW i \in Instances, PollSelect(i)
  PROVE  OnceInv'
<1>1. TypeOK /\ UNCHANGED <<sandbox, task, reload, admin, runs>>
  BY DEF ExecutionInv, BaseInv, PollSelect, history
<1>2. PICK due \in SUBSET {j \in Jobs : Pollable(j)} :
        poller' = [poller EXCEPT ![i] = IF due = {} THEN Idle
                                        ELSE [at |-> "selected", due |-> due, limit |-> QueueRoom(i)]]
  BY DEF PollSelect
<1>3. \A k \in Instances : \A j \in poller'[k].due : j \in poller[k].due \/ (k = i /\ Pollable(j) /\ j \in Jobs)
  BY <1>1, <1>2 DEF TypeOK, Idle
<1>4. ASSUME NEW j \in Jobs, Pollable(j), NEW p \in TaskIds, Inst(p) = i, JobOf(p) = j PROVE ~Held(p)
  <2>1. Inst(p) \in Instances /\ task[p].at # "candidate"
    BY <1>4, TaskIdParts DEF PollSelect, PollerFree, TasksAt, PollerSteps
  <2>2. ~Active(p)
    BY <1>4, <2>1 DEF ExecutionInv, OnceInv, ActiveOwns, Pollable
  <2> QED BY <1>1, <2>1, <2>2, HeldIsActive
<1>5. DueAreFree'
  BY <1>1, <1>3, <1>4 DEF DueAreFree, ExecutionInv, OnceInv, Exists, Held, Pollable
<1>6. RowsExist' /\ OnePerInstance' /\ ActiveOwns' /\ ActiveAlone' /\ RunsOnce' /\ RunsFit'
  BY <1>1 DEF ExecutionInv, OnceInv, RowsExist, OnePerInstance, ActiveOwns, ActiveAlone, RunsOnce, RunsFit,
         Held, Active, Exists
<1> QED BY <1>5, <1>6 DEF OnceInv

\* Shutdown, crash and restart only take Job objects out of the way.
LEMMA LifeSteps ==
  ASSUME TypeOK, NEW i \in Instances, InstanceNext(i)
  PROVE  /\ UNCHANGED <<sandbox, admin, runs>>
         /\ \A p \in TaskIds : \/ task'[p] = task[p]
                               \/ task'[p].at = "none" /\ Inst(p) = i /\ (Crash(i) \/ Exit(i))
                               \/ task[p].at = "inQueue" /\ task'[p].at = "drained"
         /\ \A k \in Instances : /\ poller'[k].due \subseteq poller[k].due
                                 /\ reload'[k].todo \subseteq reload[k].todo
<1>1. UNCHANGED <<sandbox, admin, runs>>
  BY DEF InstanceNext, ShutDown, Crash, Exit, Die, Restart, AsyncQueue, AsyncTake, AsyncEnd, history
<1>2. NoTask.at = "none" /\ Idle.due = {} /\ NotReloaded.todo = {}
  BY DEF NoTask, Idle, NotReloaded
<1>3. CASE ShutDown(i)
  <2>1. \A p \in TaskIds : \/ task'[p] = task[p]
                           \/ task[p].at = "inQueue" /\ task'[p] = [task[p] EXCEPT !.at = "drained"]
    BY <1>3 DEF ShutDown, TasksAt
  <2>2. \A p \in TaskIds : [task[p] EXCEPT !.at = "drained"].at = "drained"
    BY TypeOf DEF Task
  <2> QED BY <1>1, <1>3, <2>1, <2>2 DEF ShutDown
<1>4. CASE Crash(i) \/ Exit(i)
  BY <1>1, <1>2, <1>4 DEF Crash, Exit, Die, TypeOK
<1>5. CASE Restart(i) \/ AsyncQueue(i) \/ AsyncTake(i) \/ AsyncEnd(i)
  BY <1>1, <1>5 DEF Restart, AsyncQueue, AsyncTake, AsyncEnd
<1> QED BY <1>3, <1>4, <1>5 DEF InstanceNext

LEMMA LifeKeepsOnce ==
  ASSUME ExecutionInv, NEW i \in Instances, InstanceNext(i)
  PROVE  OnceInv'
<1>1. /\ UNCHANGED <<sandbox, admin, runs>>
      /\ \A p \in TaskIds : \/ task'[p] = task[p] \/ task'[p].at = "none"
                            \/ task[p].at = "inQueue" /\ task'[p].at = "drained"
      /\ \A k \in Instances : /\ poller'[k].due \subseteq poller[k].due
                              /\ reload'[k].todo \subseteq reload[k].todo
  BY LifeSteps DEF ExecutionInv, BaseInv
<1>2. ASSUME NEW p \in TaskIds
      PROVE  /\ Held(p)' => Held(p)
             /\ Active(p)' => Active(p)
             /\ task'[p].at \in StartedSteps => task[p].at \in StartedSteps
             /\ task'[p].at \in BeforeService => task[p].at \in BeforeService
             /\ task'[p].at \in InService => task[p].at \in InService
  BY <1>1 DEF Held, Active, StartedSteps, BeforeService, InService
<1>3. RowsExist' /\ DueAreFree'
  BY <1>1, <1>2 DEF ExecutionInv, OnceInv, RowsExist, DueAreFree, Exists
<1>4. OnePerInstance' /\ ActiveAlone'
  BY <1>2 DEF ExecutionInv, OnceInv, OnePerInstance, ActiveAlone
<1>5. ActiveOwns'
  BY <1>1, <1>2 DEF ExecutionInv, OnceInv, ActiveOwns
<1>6. RunsOnce' /\ RunsFit'
  BY <1>1, <1>2 DEF ExecutionInv, OnceInv, RunsOnce, RunsFit, Exists
<1> QED BY <1>3, <1>4, <1>5, <1>6 DEF OnceInv

-----------------------------------------------------------------------------
(* At most one Job object of a row *)

LEMMA NextNoReset ==
  ASSUME NoReset, [Next]_vars
  PROVE  NoReset'
<1>1. UNCHANGED admin \/ admin' = NoCall \/ \E kind \in AdminKinds, j \in Jobs : AdminRead(kind, j)
  <2>1. AdminNext => UNCHANGED admin \/ admin' = NoCall \/ \E kind \in AdminKinds, j \in Jobs : AdminRead(kind, j)
    BY DEF AdminNext, CancelStore, ResetStore, CancelRetriesStore
  <2>2. \A i \in Instances : ReloadNext(i) \/ PollNext(i) \/ InstanceNext(i) => UNCHANGED admin
    BY DEF ReloadNext, ReloadQuery, ReloadMark, ReloadCreate, ReloadFault, PollNext, PollSelect, PollClaim,
           InstanceNext, ShutDown, Crash, Exit, Die, Restart, AsyncQueue, AsyncTake, AsyncEnd
  <2>3. (\E t \in Templates : Schedule(t)) \/ UNCHANGED vars => UNCHANGED admin
    BY DEF Schedule, vars
  <2>4. (\E o \in TaskIds : TaskNext(o)) => UNCHANGED admin
    BY TaskFrame
  <2> QED BY <2>1, <2>2, <2>3, <2>4 DEF Next
<1>2. NoCall.kind # "reset" /\ \A kind \in AdminKinds, j \in Jobs : AdminRead(kind, j) => admin'.kind = kind
  BY DEF NoCall, AdminRead
<1> QED BY <1>1, <1>2 DEF NoReset

LEMMA NextExecutionInv ==
  ASSUME ExecutionInv, [Next]_vars
  PROVE  ExecutionInv'
<1>1. BaseInv'
  BY NextTypes, NextCopiesFit, NextReloadFirst, NextNoReset DEF ExecutionInv, BaseInv
<1>2. OnceInv'
  <2>1. ASSUME NEW o \in TaskIds, TaskNext(o) PROVE OnceInv'
    BY <2>1, TaskKeepsOnce
  <2>2. ASSUME NEW i \in Instances, PollNext(i) \/ InstanceNext(i) PROVE OnceInv'
    BY <2>2, SelectKeepsOnce, ClaimKeepsOnce, LifeKeepsOnce DEF PollNext
  <2>3. ASSUME Quiet, \A k \in Instances : \A j \in reload'[k].todo : j \in reload[k].todo \/ Exists(j),
               admin'.kind # "none" => \/ Exists(admin'.job) /\ admin'.val.status # "ABSENT"
                                       \/ UNCHANGED admin
        PROVE  OnceInv'
    <3>1. TypeOK /\ TypeOK' /\ UNCHANGED task /\ Crossed
      BY <1>1, <2>3 DEF ExecutionInv, BaseInv, Quiet
    <3>2. \A j \in Jobs : Exists(j) => Exists(j)'
      BY <3>1, CrossedRows
    <3>3. \A p \in TaskIds : Held(p)' => Exists(JobOf(p))'
      BY <3>1, <3>2, TaskIdParts DEF Held, ExecutionInv, OnceInv, RowsExist
    <3>4. \A k \in Instances : \A j \in reload'[k].todo : j \in Jobs
      BY <3>1 DEF TypeOK, Reloading
    <3>5. \A k \in Instances : \A j \in reload'[k].todo : Exists(j)'
      BY <2>3, <3>2, <3>4 DEF ExecutionInv, OnceInv, RowsExist
    <3>6. admin'.kind # "none" => /\ Exists(admin'.job) /\ admin'.val.status # "ABSENT" /\ admin'.job \in Jobs
      <4>1. admin'.kind # "none" => admin'.job \in Jobs
        <5>1. CASE admin' = NoCall
          BY <5>1 DEF NoCall
        <5>2. CASE admin' \in [kind : Kinds, job : Jobs, val : Row]
          BY <5>2
        <5> QED BY <3>1, <5>1, <5>2 DEF TypeOK
      <4> QED BY <2>3, <4>1 DEF ExecutionInv, OnceInv, RowsExist
    <3>7. RowsExist'
      BY <3>2, <3>3, <3>5, <3>6 DEF RowsExist, Exists
    <3> QED BY <2>3, <3>7, QuietKeepsOnce
  <2>4. ASSUME NEW t \in Templates, Schedule(t) PROVE OnceInv'
    <3>1. Quiet /\ UNCHANGED <<reload, admin>>
      BY <2>4, ScheduleIsQuiet
    <3> QED BY <2>3, <3>1
  <2>5. ASSUME NEW i \in Instances, ReloadNext(i) PROVE OnceInv'
    <3>1. /\ Quiet /\ UNCHANGED admin
          /\ \A k \in Instances : \A j \in reload'[k].todo : j \in reload[k].todo \/ Exists(j)
      BY <2>5, ReloadIsQuiet
    <3> QED BY <2>3, <3>1
  <2>6. CASE AdminNext
    <3>1. /\ Quiet /\ UNCHANGED reload
          /\ admin'.kind # "none" => Exists(admin'.job) /\ admin'.val.status # "ABSENT"
      BY <2>6, AdminIsQuiet
    <3> QED BY <2>3, <3>1
  <2>7. CASE UNCHANGED vars
    BY <2>3, <2>7 DEF vars, Quiet, Crossed
  <2> QED BY <2>1, <2>2, <2>4, <2>5, <2>6, <2>7 DEF Next
<1> QED BY <1>1, <1>2 DEF ExecutionInv

LEMMA InitExecutionInv ==
  ASSUME Init, "reset" \notin AdminKinds
  PROVE  ExecutionInv
<1>1. /\ \A o \in TaskIds : task[o].at = "none"
      /\ \A i \in Instances : poller[i].due = {} /\ reload[i].todo = {}
      /\ \A j \in Jobs : runs[j] = 0
      /\ admin.kind = "none"
  BY DEF Init, NoTask, Idle, NotReloaded, NoCall
<1>2. BaseInv
  BY <1>1, InitTypes, InitCopiesFit, InitReloadFirst DEF BaseInv, NoReset
<1>3. OnceInv
  BY <1>1 DEF OnceInv, RowsExist, DueAreFree, OnePerInstance, ActiveOwns, ActiveAlone, RunsOnce, RunsFit,
         Held, Active, BeforeService, InService, StartedSteps
<1> QED BY <1>2, <1>3 DEF ExecutionInv

LEMMA InvariantlyOnce ==
  ASSUME "reset" \notin AdminKinds
  PROVE  Spec => []ExecutionInv
<1>1. Init => ExecutionInv
  BY InitExecutionInv
<1>2. ExecutionInv /\ [Next]_vars => ExecutionInv'
  BY NextExecutionInv
<1> QED BY <1>1, <1>2, PTL DEF Spec

\* When nobody calls resetJob, one Job object in the whole cluster is past the
\* checks of queue() for a row: the claim in poll, the checks on the refreshed
\* row and the way back through deQueue hand the row over, and no copy of the
\* row that is stored late takes it away from the one that works on it.
THEOREM OneTask ==
  ASSUME "reset" \notin AdminKinds
  PROVE  Spec => []OneTaskPerRow
<1>1. ExecutionInv => OneTaskPerRow
  <2> SUFFICES ASSUME ExecutionInv, NEW o \in TaskIds, NEW p \in TaskIds, JobOf(o) = JobOf(p),
                      task[o].at \notin {"none", "candidate"}, task[p].at \notin {"none", "candidate"}
               PROVE  o = p
    BY DEF OneTaskPerRow
  <2>1. Active(o) /\ Active(p)
    BY HeldIsActive DEF Held, ExecutionInv, BaseInv
  <2> QED BY <2>1 DEF ExecutionInv, OnceInv, ActiveAlone
<1> QED BY <1>1, InvariantlyOnce, PTL

-----------------------------------------------------------------------------
(* The scheduler implements the execution of a row at most once *)

Serving(o) == task[o].at = "service"

\* Where and how far a row is, in terms of the Job objects: a row in whose
\* service one is runs there, and no other does.
PhaseMeans(j) ==
  /\ \A o \in TaskIds : JobOf(o) = j /\ Serving(o) => PhaseOf(j) = "running" /\ SiteOf(j) = Inst(o)
  /\ (\A o \in TaskIds : JobOf(o) = j => ~Serving(o)) =>
       /\ SiteOf(j) = NoInstance
       /\ PhaseOf(j) = IF ~Exists(j) THEN "none" ELSE IF runs[j] = 0 THEN "waiting" ELSE "ended"
PhasesMean == \A j \in Jobs : PhaseMeans(j)

LEMMA Phases == ExecutionInv => PhasesMean
<1> SUFFICES ASSUME ExecutionInv, NEW j \in Jobs PROVE PhaseMeans(j)
  BY DEF PhasesMean
<1>1. \A i \in Instances : RunsAt(j, i) <=> \E o \in TaskIds : JobOf(o) = j /\ Inst(o) = i /\ Serving(o)
  <2> TAKE i \in Instances
  <2>1. ASSUME NEW c \in Copies PROVE /\ <<i, j, c>> \in TaskIds
                                      /\ JobOf(<<i, j, c>>) = j /\ Inst(<<i, j, c>>) = i
    BY DEF TaskIds, JobOf, Inst
  <2>2. ASSUME NEW o \in TaskIds, JobOf(o) = j, Inst(o) = i PROVE o = <<i, j, o[3]>> /\ o[3] \in Copies
    BY <2>2 DEF TaskIds, JobOf, Inst
  <2> QED BY <2>1, <2>2 DEF RunsAt, Serving
<1>2. ASSUME NEW o \in TaskIds, JobOf(o) = j, Serving(o)
      PROVE  PhaseOf(j) = "running" /\ SiteOf(j) = Inst(o)
  <2>1. Held(o) /\ Active(o) /\ task[o].at \in InService
    BY <1>2 DEF Serving, Held, Active, InService
  <2>2. Exists(j) /\ runs[j] = 1
    BY <1>2, <2>1 DEF ExecutionInv, OnceInv, RowsExist, RunsFit
  <2>3. RunsAt(j, Inst(o)) /\ Inst(o) \in Instances
    BY <1>1, <1>2, TaskIdParts
  <2>4. ASSUME NEW i \in Instances, RunsAt(j, i) PROVE i = Inst(o)
    <3>1. PICK p \in TaskIds : JobOf(p) = j /\ Inst(p) = i /\ Serving(p)
      BY <1>1, <2>4
    <3>2. Active(p)
      BY <3>1 DEF Serving, Active, InService
    <3> QED BY <1>2, <2>1, <3>1, <3>2 DEF ExecutionInv, OnceInv, ActiveAlone
  <2>5. SiteOf(j) = Inst(o)
    BY <2>3, <2>4 DEF SiteOf
  <2> QED BY <2>2, <2>3, <2>5 DEF PhaseOf
<1>3. ASSUME \A o \in TaskIds : JobOf(o) = j => ~Serving(o)
      PROVE  /\ SiteOf(j) = NoInstance
             /\ PhaseOf(j) = IF ~Exists(j) THEN "none" ELSE IF runs[j] = 0 THEN "waiting" ELSE "ended"
  <2>1. \A i \in Instances : ~RunsAt(j, i)
    BY <1>1, <1>3
  <2> QED BY <2>1 DEF SiteOf, PhaseOf
<1> QED BY <1>2, <1>3 DEF PhaseMeans

LEMMA PhasesAfter == ExecutionInv' => PhasesMean'
BY Phases, PTL

\* A row whose services, existence and count stay the same stays where it is.
LEMMA SamePhase ==
  ASSUME PhasesMean, PhasesMean', NEW j \in Jobs, Exists(j)' <=> Exists(j), runs'[j] = runs[j],
         \A o \in TaskIds : JobOf(o) = j => (Serving(o)' <=> Serving(o))
  PROVE  PhaseOf(j)' = PhaseOf(j) /\ SiteOf(j)' = SiteOf(j)
<1>1. PhaseMeans(j) /\ PhaseMeans(j)'
  BY DEF PhasesMean
<1>2. CASE \E o \in TaskIds : JobOf(o) = j /\ Serving(o)
  BY <1>1, <1>2 DEF PhaseMeans
<1>3. CASE \A o \in TaskIds : JobOf(o) = j => ~Serving(o)
  BY <1>1, <1>3 DEF PhaseMeans
<1> QED BY <1>2, <1>3

\* Nothing happens to any row.
Idles == \A j \in Jobs : PhaseOf(j)' = PhaseOf(j) /\ SiteOf(j)' = SiteOf(j)

LEMMA IdleIsStutter ==
  ASSUME Idles
  PROVE  UNCHANGED Execution!execution
BY DEF Idles, Execution!execution

\* A row that is inserted waits.
LEMMA InsertedPhase ==
  ASSUME ExecutionInv, PhasesMean, PhasesMean', NEW k \in Jobs, ~Exists(k), Exists(k)', runs'[k] = runs[k],
         \A o \in TaskIds : JobOf(o) = k => (Serving(o)' <=> Serving(o))
  PROVE  PhaseOf(k) = "none" /\ PhaseOf(k)' = "waiting" /\ SiteOf(k)' = SiteOf(k)
<1>1. runs[k] = 0
  BY DEF ExecutionInv, OnceInv, RunsOnce
<1>2. \A o \in TaskIds : JobOf(o) = k => ~Serving(o)
  BY DEF ExecutionInv, OnceInv, RowsExist, Held, Serving
<1>3. PhaseMeans(k) /\ PhaseMeans(k)'
  BY DEF PhasesMean
<1>4. SiteOf(k) = NoInstance /\ PhaseOf(k) = "none"
  BY <1>2, <1>3 DEF PhaseMeans
<1>5. SiteOf(k)' = NoInstance /\ PhaseOf(k)' = "waiting"
  BY <1>1, <1>2, <1>3 DEF PhaseMeans
<1> QED BY <1>4, <1>5

\* What becomes of the rows in a step is the insertion of one at most.
LEMMA InsertionAfter ==
  ASSUME TypeOK, Insertion
  PROVE  \E k \in Jobs : /\ ~Exists(k) /\ Exists(k)'
                         /\ \A j \in Jobs \ {k} : Exists(j)' <=> Exists(j)
<1>1. PICK k \in Jobs : NextFree(k) /\ \E row \in Row : row.status # "ABSENT" /\ Store(k, row)
  BY DEF Insertion
<1>2. PICK row \in Row : row.status # "ABSENT" /\ Store(k, row)
  BY <1>1
<1>3. sandbox'[k] = row /\ \A j \in Jobs \ {k} : sandbox'[j] = sandbox[j]
  BY <1>2 DEF TypeOK, Store
<1> QED BY <1>1, <1>2, <1>3 DEF NextFree, Exists

LEMMA StoreAfter ==
  ASSUME TypeOK, NEW k \in Jobs, Exists(k), NEW row \in Row, row.status # "ABSENT", Store(k, row)
  PROVE  \A j \in Jobs : Exists(j)' <=> Exists(j)
BY DEF TypeOK, Store, Exists

LEMMA QuietIsInsert ==
  ASSUME ExecutionInv, PhasesMean, PhasesMean', Quiet
  PROVE  Idles \/ \E k \in Jobs : Execution!Insert(k)
<1>1. TypeOK /\ UNCHANGED <<task, runs>>
  BY DEF ExecutionInv, BaseInv, Quiet
<1>2. ASSUME NEW o \in TaskIds PROVE Serving(o)' <=> Serving(o)
  BY <1>1 DEF Serving
<1>3. ASSUME NEW j \in Jobs, Exists(j)' <=> Exists(j)
      PROVE  PhaseOf(j)' = PhaseOf(j) /\ SiteOf(j)' = SiteOf(j)
  BY <1>1, <1>2, <1>3, SamePhase
<1>4. CASE \A j \in Jobs : Exists(j)' <=> Exists(j)
  BY <1>3, <1>4 DEF Idles
<1>5. CASE Insertion
  <2>1. PICK k \in Jobs : /\ ~Exists(k) /\ Exists(k)'
                          /\ \A j \in Jobs \ {k} : Exists(j)' <=> Exists(j)
    BY <1>1, <1>5, InsertionAfter
  <2>2. PhaseOf(k) = "none" /\ PhaseOf(k)' = "waiting" /\ SiteOf(k)' = SiteOf(k)
    BY <1>1, <1>2, <2>1, InsertedPhase
  <2>3. \A j \in Jobs \ {k} : PhaseOf(j)' = PhaseOf(j) /\ SiteOf(j)' = SiteOf(j)
    BY <1>3, <2>1
  <2>4. Execution!Insert(k)
    BY <2>2, <2>3 DEF Execution!Insert
  <2> QED BY <2>4
<1>6. Crossed => Insertion \/ \A j \in Jobs : Exists(j)' <=> Exists(j)
  <2>1. UNCHANGED sandbox => \A j \in Jobs : Exists(j)' <=> Exists(j)
    BY DEF Exists
  <2> QED BY <1>1, <2>1, StoreAfter DEF Crossed
<1> QED BY <1>4, <1>5, <1>6 DEF Quiet

\* What a step of one Job object does to the other rows: it inserts one at
\* most.
LEMMA OtherPhases ==
  ASSUME ExecutionInv, PhasesMean, PhasesMean', NEW o \in TaskIds, TaskNext(o),
         \/ UNCHANGED sandbox \/ Insertion
         \/ \E row \in Row : row.status # "ABSENT" /\ Store(JobOf(o), row)
  PROVE  \/ \A j \in Jobs \ {JobOf(o)} : PhaseOf(j)' = PhaseOf(j) /\ SiteOf(j)' = SiteOf(j)
         \/ \E k \in Jobs \ {JobOf(o)} :
              /\ PhaseOf(k) = "none" /\ PhaseOf(k)' = "waiting" /\ SiteOf(k)' = SiteOf(k)
              /\ \A j \in Jobs \ {JobOf(o), k} : PhaseOf(j)' = PhaseOf(j) /\ SiteOf(j)' = SiteOf(j)
<1>1. TypeOK /\ CopiesFit /\ JobOf(o) \in Jobs /\ Exists(JobOf(o))
  BY TaskIdParts, TaskFrame DEF ExecutionInv, BaseInv, OnceInv, RowsExist, Held
<1>2. ASSUME NEW p \in TaskIds, p # o PROVE Serving(p)' <=> Serving(p)
  <2>1. task'[p] = task[p]
    BY <1>1, <1>2, OtherTasksAfter
  <2> QED BY <2>1 DEF Serving
<1>3. \A j \in Jobs \ {JobOf(o)} : runs'[j] = runs[j]
  <2>1. UNCHANGED runs \/ runs' = [runs EXCEPT ![JobOf(o)] = @ + 1]
    BY <1>1, TaskEffects DEF Enters, Leaves, Moves, Stores, Returns, Starts, Fails, Ends
  <2> QED BY <1>1, <2>1 DEF TypeOK
<1>4. ASSUME NEW j \in Jobs \ {JobOf(o)}, Exists(j)' <=> Exists(j)
      PROVE  PhaseOf(j)' = PhaseOf(j) /\ SiteOf(j)' = SiteOf(j)
  BY <1>2, <1>3, <1>4, SamePhase
<1>5. CASE \A j \in Jobs : Exists(j)' <=> Exists(j)
  BY <1>4, <1>5
<1>6. CASE Insertion
  <2>1. PICK k \in Jobs : /\ ~Exists(k) /\ Exists(k)'
                          /\ \A j \in Jobs \ {k} : Exists(j)' <=> Exists(j)
    BY <1>1, <1>6, InsertionAfter
  <2>2. k # JobOf(o)
    BY <1>1, <2>1
  <2>3. PhaseOf(k) = "none" /\ PhaseOf(k)' = "waiting" /\ SiteOf(k)' = SiteOf(k)
    BY <1>2, <1>3, <2>1, <2>2, InsertedPhase
  <2>4. \A j \in Jobs \ {JobOf(o), k} : PhaseOf(j)' = PhaseOf(j) /\ SiteOf(j)' = SiteOf(j)
    BY <1>4, <2>1
  <2> QED BY <2>2, <2>3, <2>4
<1>7. Insertion \/ \A j \in Jobs : Exists(j)' <=> Exists(j)
  <2>1. UNCHANGED sandbox => \A j \in Jobs : Exists(j)' <=> Exists(j)
    BY DEF Exists
  <2> QED BY <1>1, <2>1, StoreAfter
<1> QED BY <1>5, <1>6, <1>7

\* The service of a row starts, ...
LEMMA StartsIsStart ==
  ASSUME ExecutionInv, PhasesMean, PhasesMean', NEW o \in TaskIds, TaskNext(o), Starts(o)
  PROVE  Execution!Start(JobOf(o), Inst(o))
<1> DEFINE j == JobOf(o)
<1>1. j \in Jobs /\ Inst(o) \in Instances /\ PhaseMeans(j) /\ PhaseMeans(j)'
  BY TaskIdParts DEF PhasesMean
<1>2. Active(o) /\ Held(o) /\ Serving(o)' /\ ~Serving(o)
  BY DEF Starts, Active, Held, Serving, BeforeService
<1>3. Exists(j) /\ runs[j] = 0
  BY <1>2 DEF ExecutionInv, OnceInv, RowsExist, RunsFit, Starts
<1>4. \A p \in TaskIds : JobOf(p) = j => ~Serving(p)
  BY <1>2 DEF ExecutionInv, OnceInv, ActiveAlone, Active, Serving, InService
<1>5. PhaseOf(j) = "waiting"
  BY <1>1, <1>3, <1>4 DEF PhaseMeans
<1>6. PhaseOf(j)' = "running" /\ SiteOf(j)' = Inst(o)
  BY <1>1, <1>2 DEF PhaseMeans
<1>7. \/ \A l \in Jobs \ {j} : PhaseOf(l)' = PhaseOf(l) /\ SiteOf(l)' = SiteOf(l)
      \/ \E k \in Jobs \ {j} :
              /\ PhaseOf(k) = "none" /\ PhaseOf(k)' = "waiting" /\ SiteOf(k)' = SiteOf(k)
              /\ \A l \in Jobs \ {j, k} : PhaseOf(l)' = PhaseOf(l) /\ SiteOf(l)' = SiteOf(l)
  BY OtherPhases DEF Starts
<1> HIDE DEF j
<1>8. CASE \A l \in Jobs \ {j} : PhaseOf(l)' = PhaseOf(l) /\ SiteOf(l)' = SiteOf(l)
  <2>1. Execution!Start(j, Inst(o))
    BY <1>1, <1>5, <1>6, <1>8 DEF Execution!Start
  <2> QED BY <2>1 DEF j
<1>9. ASSUME NEW k \in Jobs \ {j}, PhaseOf(k) = "none", PhaseOf(k)' = "waiting", SiteOf(k)' = SiteOf(k),
             \A l \in Jobs \ {j, k} : PhaseOf(l)' = PhaseOf(l) /\ SiteOf(l)' = SiteOf(l)
      PROVE  Execution!Start(JobOf(o), Inst(o))
  <2>1. Execution!Start(j, Inst(o))
    BY <1>1, <1>5, <1>6, <1>9 DEF Execution!Start
  <2> QED BY <2>1 DEF j
<1> QED BY <1>7, <1>8, <1>9

\* ... and is over.
LEMMA ServedIsEnd ==
  ASSUME ExecutionInv, PhasesMean, PhasesMean', NEW o \in TaskIds, TaskNext(o),
         Serving(o), ~Serving(o)', UNCHANGED runs, Exists(JobOf(o))',
         \/ UNCHANGED sandbox \/ Insertion
         \/ \E row \in Row : row.status # "ABSENT" /\ Store(JobOf(o), row)
  PROVE  Execution!End(JobOf(o))
<1> DEFINE j == JobOf(o)
<1>1. j \in Jobs /\ TypeOK /\ PhaseMeans(j) /\ PhaseMeans(j)'
  BY TaskIdParts DEF PhasesMean, ExecutionInv, BaseInv
<1>2. Active(o) /\ runs'[j] = 1
  BY DEF ExecutionInv, OnceInv, RunsFit, Active, Serving, InService
<1>3. ASSUME NEW p \in TaskIds, JobOf(p) = j PROVE ~Serving(p)'
  <2>1. CASE p = o
    BY <2>1
  <2>2. CASE p # o
    <3>1. task'[p] = task[p]
      BY <1>1, <2>2, OtherTasksAfter
    <3>2. ~Active(p)
      BY <1>2, <1>3, <2>2 DEF ExecutionInv, OnceInv, ActiveAlone
    <3> QED BY <3>1, <3>2 DEF Active, Serving, InService
  <2> QED BY <2>1, <2>2
<1>4. PhaseOf(j) = "running"
  BY <1>1 DEF PhaseMeans
<1>5. PhaseOf(j)' = "ended" /\ SiteOf(j)' = NoInstance
  BY <1>1, <1>2, <1>3 DEF PhaseMeans
<1>6. \/ \A l \in Jobs \ {j} : PhaseOf(l)' = PhaseOf(l) /\ SiteOf(l)' = SiteOf(l)
      \/ \E k \in Jobs \ {j} :
              /\ PhaseOf(k) = "none" /\ PhaseOf(k)' = "waiting" /\ SiteOf(k)' = SiteOf(k)
              /\ \A l \in Jobs \ {j, k} : PhaseOf(l)' = PhaseOf(l) /\ SiteOf(l)' = SiteOf(l)
  BY OtherPhases
<1> HIDE DEF j
<1>7. CASE \A l \in Jobs \ {j} : PhaseOf(l)' = PhaseOf(l) /\ SiteOf(l)' = SiteOf(l)
  <2>1. Execution!End(j)
    BY <1>1, <1>4, <1>5, <1>7 DEF Execution!End
  <2> QED BY <2>1 DEF j
<1>8. ASSUME NEW k \in Jobs \ {j}, PhaseOf(k) = "none", PhaseOf(k)' = "waiting", SiteOf(k)' = SiteOf(k),
             \A l \in Jobs \ {j, k} : PhaseOf(l)' = PhaseOf(l) /\ SiteOf(l)' = SiteOf(l)
      PROVE  Execution!End(JobOf(o))
  <2>1. Execution!End(j)
    BY <1>1, <1>4, <1>5, <1>8 DEF Execution!End
  <2> QED BY <2>1 DEF j
<1> QED BY <1>6, <1>7, <1>8

\* Every step of a Job object is one of these, or concerns no service.
LEMMA TaskImplements ==
  ASSUME ExecutionInv, ExecutionInv', PhasesMean, PhasesMean', NEW o \in TaskIds, TaskNext(o)
  PROVE  Idles \/ Execution!Start(JobOf(o), Inst(o)) \/ Execution!End(JobOf(o))
<1>1. TypeOK /\ CopiesFit /\ JobOf(o) \in Jobs /\ Exists(JobOf(o))
  BY TaskIdParts, TaskFrame DEF ExecutionInv, BaseInv, OnceInv, RowsExist, Held
<1>2. Exists(JobOf(o))'
  BY <1>1, TaskRows
<1>3. ASSUME ~Serving(o), ~Serving(o)', UNCHANGED runs,
             UNCHANGED sandbox \/ \E row \in Row : row.status # "ABSENT" /\ Store(JobOf(o), row)
      PROVE  Idles
  <2>1. ASSUME NEW p \in TaskIds PROVE Serving(p)' <=> Serving(p)
    <3>1. p # o => task'[p] = task[p]
      BY <1>1, OtherTasksAfter
    <3> QED BY <1>3, <3>1 DEF Serving
  <2>2. \A j \in Jobs : Exists(j)' <=> Exists(j)
    <3>1. UNCHANGED sandbox => \A j \in Jobs : Exists(j)' <=> Exists(j)
      BY DEF Exists
    <3> QED BY <1>1, <1>3, <3>1, StoreAfter
  <2>3. ASSUME NEW j \in Jobs PROVE PhaseOf(j)' = PhaseOf(j) /\ SiteOf(j)' = SiteOf(j)
    BY <1>3, <2>1, <2>2, SamePhase
  <2> QED BY <2>3 DEF Idles
<1>4. CASE Starts(o)
  BY <1>4, StartsIsStart
<1>5. CASE Enters(o) \/ Moves(o)
  <2>1. ~Serving(o) /\ ~Serving(o)'
    BY <1>5 DEF Enters, Moves, Serving, BeforeService, StartedSteps
  <2> QED BY <1>3, <1>5, <2>1 DEF Enters, Moves
<1>6. CASE Stores(o) \/ Returns(o)
  <2>1. ~Serving(o) /\ ~Serving(o)'
    BY <1>6 DEF Stores, Returns, Serving, BeforeService
  <2> QED BY <1>3, <1>6, <2>1 DEF Stores, Returns
<1>7. CASE Leaves(o) \/ Fails(o) \/ Ends(o)
  <2>1. ~Serving(o)' /\ UNCHANGED runs
    BY <1>7 DEF Leaves, Fails, Ends, Serving
  <2>2. CASE Serving(o)
    BY <1>2, <1>7, <2>1, <2>2, ServedIsEnd DEF Leaves, Fails, Ends
  <2>3. CASE ~Serving(o)
    <3>1. ~Fails(o)
      BY <2>3 DEF Fails, Serving
    <3> QED BY <1>3, <1>7, <2>1, <2>3, <3>1 DEF Leaves, Ends
  <2> QED BY <2>2, <2>3
<1> QED BY <1>1, <1>4, <1>5, <1>6, <1>7, TaskEffects

\* A poll starts and ends no service, ...
LEMMA PollIdles ==
  ASSUME ExecutionInv, PhasesMean, PhasesMean', NEW i \in Instances, PollNext(i)
  PROVE  Idles
<1>1. /\ UNCHANGED runs
      /\ \A j \in Jobs : Exists(j)' <=> Exists(j)
      /\ \A p \in TaskIds : task'[p] = task[p] \/ (task[p].at = "none" /\ task'[p].at = "candidate")
  <2>1. CASE PollSelect(i)
    BY <2>1 DEF PollSelect, Exists, history
  <2>2. ASSUME NEW claimed \in SUBSET poller[i].due, PollClaim(i, claimed)
        PROVE  /\ UNCHANGED runs
               /\ \A j \in Jobs : Exists(j)' <=> Exists(j)
               /\ \A p \in TaskIds : task'[p] = task[p] \/ (task[p].at = "none" /\ task'[p].at = "candidate")
    <3>1. UNCHANGED runs
      BY <2>2 DEF PollClaim, history
    <3>2. \A j \in Jobs : Exists(j)' <=> Exists(j)
      BY <2>2, ClaimSteps
    <3>3. \A p \in TaskIds : \/ task'[p] = task[p]
                             \/ task'[p].at = "candidate" /\ NewTaskId(i, JobOf(p), p)
      BY <2>2, ClaimSteps
    <3> QED BY <3>1, <3>2, <3>3 DEF NewTaskId
  <2> QED BY <2>1, <2>2 DEF PollNext
<1>2. ASSUME NEW p \in TaskIds PROVE Serving(p)' <=> Serving(p)
  BY <1>1 DEF Serving
<1>3. ASSUME NEW j \in Jobs PROVE PhaseOf(j)' = PhaseOf(j) /\ SiteOf(j)' = SiteOf(j)
  BY <1>1, <1>2, SamePhase
<1> QED BY <1>3 DEF Idles

\* ... and the end of a process ends what runs there.
LEMMA LifeImplements ==
  ASSUME ExecutionInv, PhasesMean, PhasesMean', NEW i \in Instances, InstanceNext(i)
  PROVE  Idles \/ Execution!Lose(i)
<1>1. /\ TypeOK /\ UNCHANGED <<sandbox, runs>>
      /\ \A p \in TaskIds : \/ task'[p] = task[p]
                            \/ task'[p].at = "none" /\ Inst(p) = i /\ (Crash(i) \/ Exit(i))
                            \/ task[p].at = "inQueue" /\ task'[p].at = "drained"
  BY LifeSteps DEF ExecutionInv, BaseInv
<1>2. ASSUME NEW j \in Jobs PROVE Exists(j)' <=> Exists(j)
  BY <1>1 DEF Exists
<1>3. CASE ~(Crash(i) \/ Exit(i))
  <2>1. ASSUME NEW p \in TaskIds PROVE Serving(p)' <=> Serving(p)
    BY <1>1, <1>3 DEF Serving
  <2>2. ASSUME NEW j \in Jobs PROVE PhaseOf(j)' = PhaseOf(j) /\ SiteOf(j)' = SiteOf(j)
    BY <1>1, <1>2, <2>1, SamePhase
  <2> QED BY <2>2 DEF Idles
<1>4. CASE Crash(i) \/ Exit(i)
  <2>1. ASSUME NEW p \in TaskIds PROVE Serving(p)' <=> (Serving(p) /\ Inst(p) # i)
    <3>1. Inst(p) = i => task'[p] = NoTask
      BY <1>4 DEF Crash, Exit, Die
    <3>2. Inst(p) # i => task'[p] = task[p]
      BY <1>4 DEF Crash, Exit, Die
    <3>3. NoTask.at = "none"
      BY DEF NoTask
    <3> QED BY <3>1, <3>2, <3>3 DEF Serving
  <2>2. ASSUME NEW j \in Jobs
        PROVE  /\ PhaseOf(j)' = IF PhaseOf(j) = "running" /\ SiteOf(j) = i THEN "ended" ELSE PhaseOf(j)
               /\ SiteOf(j)' = IF SiteOf(j) = i THEN NoInstance ELSE SiteOf(j)
    <3>1. PhaseMeans(j) /\ PhaseMeans(j)'
      BY DEF PhasesMean
    <3>2. ASSUME NEW o \in TaskIds, JobOf(o) = j, Serving(o)
          PROVE  /\ PhaseOf(j)' = IF PhaseOf(j) = "running" /\ SiteOf(j) = i THEN "ended" ELSE PhaseOf(j)
                 /\ SiteOf(j)' = IF SiteOf(j) = i THEN NoInstance ELSE SiteOf(j)
      <4>1. PhaseOf(j) = "running" /\ SiteOf(j) = Inst(o)
        BY <3>1, <3>2 DEF PhaseMeans
      <4>2. Exists(j) /\ runs[j] = 1
        BY <3>2 DEF ExecutionInv, OnceInv, RowsExist, RunsFit, Held, Serving, InService
      <4>3. CASE Inst(o) = i
        <5>1. \A p \in TaskIds : JobOf(p) = j => ~Serving(p)'
          <6>1. ASSUME NEW p \in TaskIds, JobOf(p) = j, Serving(p) PROVE Inst(p) = i
            BY <3>1, <4>1, <4>3, <6>1 DEF PhaseMeans
          <6> QED BY <2>1, <6>1
        <5>2. PhaseOf(j)' = "ended" /\ SiteOf(j)' = NoInstance
          BY <1>1, <1>2, <3>1, <4>2, <5>1 DEF PhaseMeans
        <5> QED BY <4>1, <4>3, <5>2
      <4>4. CASE Inst(o) # i
        <5>1. PhaseOf(j)' = "running" /\ SiteOf(j)' = Inst(o)
          BY <2>1, <3>1, <3>2, <4>4 DEF PhaseMeans
        <5> QED BY <4>1, <4>4, <5>1
      <4> QED BY <4>3, <4>4
    <3>3. CASE \A o \in TaskIds : JobOf(o) = j => ~Serving(o)
      <4>1. /\ SiteOf(j) = NoInstance
            /\ PhaseOf(j) = IF ~Exists(j) THEN "none" ELSE IF runs[j] = 0 THEN "waiting" ELSE "ended"
        BY <3>1, <3>3 DEF PhaseMeans
      <4>2. PhaseOf(j)' = PhaseOf(j) /\ SiteOf(j)' = SiteOf(j)
        <5>1. \A o \in TaskIds : JobOf(o) = j => (Serving(o)' <=> Serving(o))
          BY <2>1, <3>3
        <5> QED BY <1>1, <1>2, <5>1, SamePhase
      <4> QED BY <4>1, <4>2
    <3> QED BY <3>2, <3>3
  <2>3. Execution!Lose(i)
    BY <2>2 DEF Execution!Lose
  <2> QED BY <2>3
<1> QED BY <1>3, <1>4

\* Every step maps to a step of the abstract specification or to a stutter.
LEMMA NextImplements ==
  ASSUME ExecutionInv, ExecutionInv', PhasesMean, PhasesMean', [Next]_vars
  PROVE  Idles \/ Execution!Next
<1>1. ASSUME NEW o \in TaskIds, TaskNext(o) PROVE Idles \/ Execution!Next
  <2>1. Idles \/ Execution!Start(JobOf(o), Inst(o)) \/ Execution!End(JobOf(o))
    BY <1>1, TaskImplements
  <2>2. JobOf(o) \in Jobs /\ Inst(o) \in Instances
    BY TaskIdParts
  <2> QED BY <2>1, <2>2 DEF Execution!Next
<1>2. ASSUME NEW i \in Instances, PollNext(i) \/ InstanceNext(i) PROVE Idles \/ Execution!Next
  <2>1. Idles \/ Execution!Lose(i)
    BY <1>2, PollIdles, LifeImplements
  <2> QED BY <2>1 DEF Execution!Next
<1>3. ASSUME Quiet PROVE Idles \/ Execution!Next
  <2>1. Idles \/ \E k \in Jobs : Execution!Insert(k)
    BY <1>3, QuietIsInsert
  <2> QED BY <2>1 DEF Execution!Next
<1>4. \A i \in Instances : ReloadNext(i) => Quiet
  BY ReloadIsQuiet
<1>5. (\E t \in Templates : Schedule(t)) \/ AdminNext \/ UNCHANGED vars => Quiet
  <2>1. UNCHANGED vars => Quiet
    BY DEF vars, Quiet, Crossed
  <2> QED BY <2>1, ScheduleIsQuiet, AdminIsQuiet
<1> QED BY <1>1, <1>2, <1>3, <1>4, <1>5 DEF Next

\* When nobody calls resetJob, the scheduler implements the execution of a row
\* at most once: its service is started by one instance and runs there to its
\* end or to the end of the process, and no second one starts, whatever polls,
\* queues, threads, faults, shutdowns, crashes and cancels do in between.
THEOREM ExecutedOnce ==
  ASSUME "reset" \notin AdminKinds
  PROVE  Spec => ExecutesOnce
<1>1. Init => Execution!Init
  <2> SUFFICES ASSUME Init PROVE Execution!Init
    OBVIOUS
  <2>1. PhasesMean
    BY InitExecutionInv, Phases
  <2>2. ASSUME NEW j \in Jobs PROVE PhaseOf(j) = "none" /\ SiteOf(j) = NoInstance
    <3>1. ~Exists(j) /\ \A o \in TaskIds : ~Serving(o)
      BY DEF Init, Exists, Serving, AbsentRow, NoTask
    <3> QED BY <2>1, <3>1 DEF PhasesMean, PhaseMeans
  <2> QED BY <2>2 DEF Execution!Init
<1>2. ExecutionInv /\ ExecutionInv' /\ [Next]_vars => [Execution!Next]_(Execution!execution)
  <2> SUFFICES ASSUME ExecutionInv, ExecutionInv', [Next]_vars
               PROVE  [Execution!Next]_(Execution!execution)
    OBVIOUS
  <2>1. PhasesMean /\ PhasesMean'
    BY Phases, PhasesAfter
  <2>2. Idles \/ Execution!Next
    BY <2>1, NextImplements
  <2> QED BY <2>2, IdleIsStutter
<1> QED BY <1>1, <1>2, InvariantlyOnce, PTL DEF Spec, ExecutesOnce, Execution!Spec

=============================================================================
