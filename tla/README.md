# Specifications of the asunerp framework

asunerp is a Java application server for business applications (a descendant of
Apache OFBiz, packages `com.hanlin.fadp`).  Its core is the service engine and
the entity engine under `src/framework`.  This directory holds TLA+
specifications of the parts of that core in which several threads, server
instances or transactions meet, the TLC configurations that check them on small
instances, and TLAPS proofs of what matters most.  One module is about a script
that these servers send to the browser.

Paths are relative to `src/`.  `service/` stands for
`framework/service/src/com/hanlin/fadp/service/`, `entity/` for
`framework/entity/src/com/hanlin/fadp/entity/`, `base/` for
`framework/base/src/com/hanlin/fadp/base/`.

## 1. Inventory

| Component | State | Operations | Hard behaviour | Correct when | Status |
|---|---|---|---|---|---|
| Job scheduler: `service/job/`, `ServiceUtil`, `GenericAsyncEngine` | JobSandbox rows (shared by all instances), executor queue and worker threads, Job objects with a copy of their row | schedule, poll and claim, queue, reject, dequeue, init, recur, run, finish, fail and retry, reload crashed jobs, shut down, cancelJob, resetJob, cancelJobRetries | several pollers, stale copies written back whole, crash and restart at any point, full queue, failing updates | a row runs at most once, no row is forgotten, retries and recurrences are bounded, cancel holds, every job ends | `JobScheduler` (partly: no purge) |
| Sequence banks: `entity/util/SequenceUtil`, `entity/connection/DBCPConnectionFactory` | a range of ids per bank, one row per sequence, a connection pool per instance | getNextSeqId, forceBankRefresh, fillBank | two statements under one row lock, concurrent first insert, failure at each statement, restart, a pool whose connections all wait for another one | ids are unique, a refill covers its caller, refills end | `SequenceBank` |
| Service semaphore: `service/semaphore/` | one row per service, per call the lock and the wait count | acquire, waitOrFail, dbWrite, release | race for the insert, bounded wait, dead owners, swallowed exceptions | exclusion, only the owner frees, calls come back | `ServiceSemaphore` |
| Synchronous calls: `service/ServiceDispatcher.runSync`, `entity/transaction/TransactionUtil` | transaction of the thread, suspended ones, rollback cause and its stack, stack of users | join, suspend, begin, retry after deadlock, ECA results, commit, rollback, resume, ECA at return | nesting, errors that a caller ignores, deadlock retries, timeouts, a suspend, begin, commit, rollback or resume that fails, an ECA after the commit | failed work is undone, success is committed, callers keep their transaction | `ServiceCalls` (partly) |
| Job purge: `service/job/PurgeJob` | JobSandbox and related rows | remove a job and its orphans | separate transactions, races with resetJob | nothing live is removed | planned |
| Global transaction services: `ServiceSynchronization`, `ServiceXaWrapper` | registrations per transaction | register, afterCompletion | a static unsynchronised map, new threads per service | run once, for the true outcome | planned |
| Service groups: `service/group/` | round-robin index | runAll, runIndex, runOne | unsynchronised counter that overflows | one service of the group serves the call | planned |
| ECA rules: `service/eca/`, `framework/entityext/.../eca` | rule sets | evaluate around a call or a store | order, errors that stop the call | rules run once per event | planned |
| Asynchronous results: `GenericResultWaiter` | result or throwable | receive, wait | a job that is dropped never answers | a waiter is woken | planned |
| Recurrence: `service/calendar/` | none (functions of dates) | next, count | calendar arithmetic | next date after the last, within bounds | planned |
| Entity caches: `entity/cache/`, `GenericDelegator`; distributed clearing: `entityext/cache/EntityCacheServices`, `service/jms/AbstractJmsListener`, `JmsTopicListener` | per instance: lines of rows and of views, lists per condition and order; clears on their way; whether the listener is connected | findOne, findList, create, store, remove, by condition; clear, publish, connect, receive, evict | fill after a clear, clear before commit, maps replaced while they are filled, clears that are late or lost, a listener that fails or loses its connection, restart | what is out of date for good was filled beside a transaction or a clear, or needed a clear that was not published or was lost | `EntityCache` (partly) |
| `base/util/cache/UtilCache` | lines with an expiry pulse, LRU order | put, get, remove, expire | a line that expires while it is replaced | the new line survives | only that a line can go at any time |
| Field lookups of a page: `framework/images/.../fieldlookup.js` | the active lookup, the one before each, dialogs, requests, globals | open, close, pick a value, follow a link, submit a form, answers | dialogs inside and beside each other, answers in any order | values and answers go to the dialog they belong to | `FieldLookup` (partly) |
| Entity synchronisation: `entityext/.../synchronization` | time windows, run status | push, pull, offline | two runs at once, a window that fails half way | no window is skipped | planned |
| Delegator, SQL generation, query results, model reading | (database) | CRUD | one transaction per store | as used by the models above | assumed by the models |
| Container start and stop: `framework/start`, `base/container` | server state | start, shutdown hook | shutdown while jobs run | | only its effect on jobs |
| Web layer, minilang, widgets, data files, JMS (but the listener of the topic), RMI, mail, workflow application, hot-deployed applications, themes | sessions, documents | | input and output, sequential code | | not modelled |

How they interact: a request or a job calls `ServiceDispatcher.runSync`, which
joins or begins a transaction and, for a service with a semaphore, writes the
semaphore's row first; the service reads and writes through the delegator,
which takes primary keys from a sequence bank; `runAsync` persists a JobSandbox
row or puts a job straight into the executor's queue; the poller of every
instance claims rows of the same table, and a worker ends up in `runSync`
again.  The instances of a cluster share nothing but the database.  Every
refill of a bank and every write of a semaphore suspends the transaction of its
thread and uses one of its own, on another connection.  A write through the
delegator clears the caches of its instance before its transaction ends and has
the other instances do the same through a topic.  Pages reach all this through
requests only; the lookups of a page share globals among themselves.

## 2. Plan

The order follows importance: what a failure would do to data, and how far it
is out of reach of a test.

1. `JobExecution` (abstract: a row waits, runs at one instance, has run) and
   `JobScheduler`, which implements it.  Done.
2. `IdSource` (abstract: never the same id twice) and `SequenceBank`, which
   implements it, with proofs.  Done.
3. `ServiceSemaphore`, with proofs.  Done.
4. `ServiceCalls`: transactions of nested calls, with proofs.  Done.
5. `EntityCache`: readers, writers and listeners of several instances, with
   proofs.  Done; a specification of what a cache promises had to be one of what
   makes it wrong, see section 5.
6. The connection pool below the sequence banks.  Done.
7. `FieldLookup`, with proofs.  Done.
8. Proofs for `JobScheduler`: type correctness, the properties of single rows,
   the refinement of `JobExecution`, the chains of rows; and for `ServiceCalls`
   that the rollback cause follows its transaction.  Done: every safety property
   of a run that passes is a theorem.
9. `ServiceSynchronization`, composed with `ServiceCalls`; `JobPurge`, composed
   with `JobScheduler`; service groups; `GenericResultWaiter`.
10. Recurrence rules and temporal expressions as functions checked against a
   reference definition; entity synchronisation windows.

## 3. Modules

`JobScheduler`, `SequenceBank`, `ServiceSemaphore`, `ServiceCalls`, `EntityCache`
and `FieldLookup` are the components; `JobExecution` and `IdSource` the abstract specifications;
`MC...` the instances for TLC; `..._proofs` the theorems.  An operator named
`X_Something` beside an `X` is a deviation of `X` that some property must catch;
no specification uses it.

### JobScheduler

| Variable | Code |
|---|---|
| `sandbox` | the JobSandbox table; dates are kept as "is not null", a run time as "may be due" |
| `mode` | whether the JVM is up, `JobManager.isShutDown`, or down |
| `poller` | the poll of `JobManager.poll` between its query and its claims |
| `reload` | `crashedJobsReloaded`, and the rows still to be copied by `reloadCrashedJobs` |
| `task` | Job objects: their step, their copy `jobValue`, `maxRetry`, `currentRetryCount`, `nextRecurrence` |
| `async` | in-memory jobs in the executor's queue and in its threads |
| `admin` | cancelJob, resetJob or cancelJobRetries between its read and its store |
| `used` | counters of bounded events |
| `runs`, `acked` | history: how often the service of a row was started, and what a committed cancel of it may promise |
| `recovered` | history: the rows that `reloadCrashedJobs` has created as copies of crashed ones |

One action is one database transaction or one hand-over in a JVM.  A worker goes
`candidate` (claimed) - `storeQueued` - `inQueue` - `init` - `storeRunning` -
`recur` - `service` - end, with `rejected` or `drained` - `storeDequeued` as
the way back.  `refresh()` and the `store()` after it are separate actions, and
the store writes the whole copy, which is what makes lost updates possible.
`DbFault` lets any of these operations fail, with the catch block of that place.
`ReloadQuery` reads the rows an instance owned before it died; each is copied in
one transaction and marked CRASHED in a second.  The executor accepts a job into
its queue, starts another thread when the queue is full, or rejects it.

The claim is one transaction of conditional updates (`storeByCondition` on
"runByInstanceId is null"), so it is one action.  `MaxThreads` stands for the
running workers; core threads below the maximum are idle in a queue that is not
empty only for a moment and are not told apart.  A poll sees any subset of the
pollable rows as due.  The services of jobs have no effect on the modelled state.

`cancelJobRetries` returns an error unless the row is cancelled already, and the
error rolls its transaction back; its effect is therefore limited to cancelled
rows (`CancelRetriesStore`).

### SequenceBank

`row` is the committed `SequenceValueItem.seqId` and `lockedBy` the transaction
that holds its lock; per bank `curSeqId`, `maxSeqId` and the step of
`fillBank`: the locking update, the insert when there is no row, the select into
`curSeqId`, the increment with its commit.  `FillFails` is an exception at any
step, a commit error that may have reached the database included; `Discard` is a
restart or `refreshSequencer`.  A bank is one thread at a time because its
methods are synchronized.  `SizesAssumption` leaves out a stagger above
`maxBankSize` (5000): the refill is cut to `maxBankSize` then, and
`FilledBankServes` would not hold for its caller.  Nothing in the repository asks
for one (stagger-max is used by no file).  `ForceRefresh` is the way `createSetNextSeqId` drops
the ids of a bank after a duplicate key.

`PoolOf` says which banks share the connection pool of an instance, `PoolSize`
is pool-maxsize.  A caller in a transaction (`inTx`) has a connection, which its
suspended transaction keeps, and the refill needs a second one (`Connect`).
When all are taken the caller waits and gets an exception after pool-sleeptime
(`PoolGivesUp`, a `FillFails` at "connect").  The connection of a caller counts
as long as its call lasts; callers that wait for the monitor of a bank with a
connection in hand are not modelled, they only make the pool smaller.

### ServiceSemaphore

`row` is the ServiceSemaphore row of one service, named by the call that
inserted it, `creating` the call whose insert is not committed, `lock` and
`wait` the fields of the call's object, `at` where it is in `runSync`, `open`
the calls whose work is not committed.  Calls in `Joined` run within a
transaction of their caller.  semaphore="fail" is `MaxWait = 0`.  Described by
the model though promised nowhere: a call that loses the race for the insert
fails at once, in wait mode too; a row left by a dead process, or by a remove
that failed, locks the service until somebody removes it.  `TxWorks` is the
condition under which the semaphore keeps what it says: no suspend, begin or
commit of `dbWrite` has failed, for these failures are swallowed (finding 2).

### ServiceCalls

One thread.  `stack` holds the frames of `runSync`, `tx` the transactions, `cur`
the current one, `cause` and `causes` the thread-local rollback cause and the
ones saved by `suspend`, `users` the stack of `pushUserIdentifier`.  A frame goes
through begin (join, suspend and begin, or none), the retry loop, the service
(which may call, write, deadlock, return ok, failure or error, or throw), the
ECA points, commit or rollback, resume, the ECA at "return", return.  A service
is told from another by its transaction attribute only (`Kinds`), and a failure
(responseMessage "fail") from a success by nothing, for a call commits with both.
`result` is what the call closes with and `reply` what its caller gets, which
`ReturnEca` can change when the transaction is over.  `Eca` puts any result in
place of the service's before that: an error that is not ignored, or, with
result-to-result, also a success in place of an error.  ECA services call
services like others (`MayCall`).  `Timeout` dooms a transaction; the transaction
manager then rolls it back at its commit.

What can fail: `BeginFails`; a rollback, which leaves the transaction without a
thread and never committed ("lost": `CloseError` logs it and goes on,
`DeadlockThenFault` throws); and, counted as "manager" too, `SuspendFails`
(the cause has been saved and cleared), `CommitFails` (whether the database has
committed is open) and `ResumeFails` (the cause is set, the thread has no
transaction, the call throws).  After one of these three the properties claim nothing:
`TxManagerWorks` is their condition.  It is no less than the code needs: a suspend
that fails leaves the causes one ahead, a resume that fails leaves the caller
without its transaction, and a commit that fails can have committed what the call
reports as failed.  setRollbackOnly has no failure of its own: it is called for a transaction that is
in place and not marked, for which the transaction manager only sets a flag.

### EntityCache

| Variable | Code |
|---|---|
| `db`, `pending` | the committed rows, and what the transaction of each thread has written; a row is the number of the write it is from |
| `line` | `EntityCache`: per instance the cached row or its absence, of the entity and of a view of it |
| `lists`, `mapped` | `EntityListCache`: the lists cached for one condition under several orders, and whether the cache holds a map for the condition |
| `job` | where each thread is in findOne, findList, a write or the handling of a clear |
| `clears` | the published clears of `EntityCacheServices` that an instance has not received |
| `listens` | `isConnected` of the listener of the topic |

A step is a query, an operation on a concurrent map, or the sending or receipt
of a message; between them anything can happen.  `Put` and `PutList` put what
was read before.  `Clear` removes a row and all lines of its views, `ClearLists`
then the lists; both run before the transaction of the write ends, which
`Commit` does at any later time.  `WriteWhere` is a write by condition: it clears
the rows of its own instance and neither views nor other instances.
`WriteUncleared` is any write with doCacheClear=false, which clears nothing.
`getOrCreateConditionCache` is a look (`GetMap`) and a put (`NewMap`): a thread
can go on filling a map that has been replaced, and nobody sees what it puts
(`inMap`).  `StoreHook` is what a row that enters the cache does to the lists;
whether the condition matches it is left open.  Clears of one key are
interchangeable, so they are counted, and they are received in any order.

A clear can be lost in four places.  `PublishFails`: there is no user to run the
service as, or no topic.  `Publish` reaches only the instances that listen: a
listener, where there is one, connects some time after the start (`Connect`), and
its subscription is not durable.  `Disconnect` is `onException`: what has been published and not taken
goes with the subscription.  `ReceiveFails`: the listener takes the message and
cannot read it or its context, the service is not exported, or it fails.  All four
are logged only, and the caches live on.  `Restart` loses clears with the caches
that needed them.  In each case `Miss` takes `sound` from the lines, lists and
answers that needed the clear.

`sound` is history: a line, list or answer has it until something happens that
can leave it out of date for good (section 5).

### FieldLookup

| Variable | Code |
|---|---|
| `active`, `prev` | `ACTIVATED_LOOKUP`, and `prevLookup` of each lookup |
| `dialogs` | the open jQuery dialogs, the last one on top |
| `field` | per lookup, the dialog in which the value of its field was picked |
| `home` | what the field and the button of a lookup are in: the page, the answer in a dialog, or an answer that has been replaced |
| `content` | the answer that a dialog shows: the dialog it was asked for in, and how often `ButtonModifier` has rewritten its links |
| `requests`, `sent` | requests under way, and how many there were |
| `lookupId` | the global that `lookupAjaxRequest` sets (it has no `var`) |
| `mixed`, `crossed` | history, see section 5 |

A step is an event handler.  `Answer` is the answer to the opening of a dialog, to
a link, to a form or to a page of results; they differ in whose links are rewritten.
`Usable` and `PageIsUsable` are `open`, `_moveToTop` and `_createOverlay` of the
jQuery UI in the repository: the overlay covers what was there before a modal dialog.  Dialogs that are not modal are real:
`macro/MacroFormRenderer.java` writes "false" where a form says nothing about
fade-background.  `Replaced` is `html(data)`: the lookups in the old answer go
and those in the new one register themselves.

## 4. Runs

| Run | Checks | Shows |
|---|---|---|
| `jobs_cancel` | `TypeOK`, `OneTaskPerRow`, `NoJobLost`, `OwnedRowsAreHeld`, `FirmCancelHolds`, `ExecutesOnce` | two instances, a job that recurs once, a crash or shutdown, one failing database operation, one administrative call, an in-memory job that takes the queue's place or the thread |
| `jobs_chains` | `OneSuccessor`, `RetryBudget`, `RecurrenceBudget` | a persisted async job with one retry, and a job with a bounded recurrence and one retry, under a crash at any step |
| `jobs_live` | `NoJobLost`, `EveryJobEnds` | a job and what becomes of it on two instances, a crash or shutdown, a resetJob on a row in any state, so that one instance can hold two Job objects of it, fairness |
| `jobs_lostcancel` | `CancelKeepsServiceFromStarting`, violated | finding 1 |
| `seq_banks` | `TypeOK`, `BanksAreDisjoint`, `FilledBankServes`, `IdsAreUnique`, `EveryFillEnds` | three banks, two of them with a pool of two connections between them, three refills, staggers 1 and 2, failures and restarts at every step, fairness |
| `sem_wait` | `TypeOK`, `OwnerHasRow`, `Exclusion`, `WorkIsSerial`, `OnlyOwnerReleases`, `EveryCallEnds`, `LockIsFreed` | three callers (one joined), four calls, a crash, a failing statement, a failing transaction manager, fairness |
| `sem_notowned` | `RunnerHasRow`, violated | finding 2 |
| `calls_nested` | `TypeOK`, `FailedWorkIsUndone`, `SuccessIsCommitted`, `CallerKeepsTransaction`, `CauseFollowsTransaction` | three calls nested or in sequence, two passes for a call, a deadlock, and a timeout or a begin, rollback, suspend, commit or resume that fails, ECAs at every place |
| `calls_retries` | `SuccessIsCommitted`, violated | finding 3 |
| `calls_user` | `UserOfRunningCallIsOnTop`, violated | finding 4 |
| `caches` | `TypeOK`, `StaleLinesAreExplained`, `StaleListsAreExplained`, `LateClearsArriveOrAreLost` | two instances, of which one listens, three threads and a listener, two rows, one write (of a row, of some by condition, or without a clear), two reads (of a row, of the view or of the list in two orders), restarts, evictions, a connection that comes and goes, clears that are not published, lost or not applied, fairness of the listener |
| `lookups` | `TypeOK`, `ChainIsStack`, `AnswersStayHome`, `RewrittenOnce`, `ValuesGoHome`, `DialogsAreFilled` | a modal dialog, one that is not, one whose button comes with an answer; five requests, reloads, failures, fairness of the server |

The `sem_*` and `calls_*` runs do not check for deadlock: the number of calls is
bounded, and when all are made the system stops.  In the other runs the system
never stops.

Bounds.  Two instances are the least that can race for a row, and the claims of
a third interact in the same way, through `runBy` only.  One death with restart
reaches every step at which a process can stop, and one failing operation every
catch block.  A row has at most one successor without a crash and one more for
each, so six keys hold every chain of `jobs_chains`; `NextFree` would stop a
chain that needs more.  `QueueSize = 1` and `MaxThreads = 1` make a full queue
and a rejection happen: an in-memory job fills the queue while the first
occurrence has the thread and the second has been claimed.  Three banks allow
one to insert, one to fail on the insert and one to wait; `MaxFills` counts
refills, the only events that touch the row.  Three calls of a semaphore allow an
owner, a waiter and a newcomer, and the fourth comes back to what the third left.  A
pool of two connections is the smallest in which a refill within a transaction
can end, and two callers exhaust it.  One write has every way to be cleared, and
a second one of the same row waits for the first; with two reads one fills what
the other reorders or replaces.  The instance that listens has two other threads,
which is enough for two maps of one condition, and receives the clears of both
instances; the other one only publishes, as a server does that is not configured
to listen.  (That more writes, reads and listeners add nothing is proved: the two
invariants of `caches` hold for any number.)  Five requests open
two dialogs inside or beside each other and leave three for answers that cross;
the safety properties are proved for any number.  `MaxDepth = 3` gives a suspended transaction
below a suspended one.  `LockRetries` is 3 in the code and in `calls_retries`, which
has as many deadlocks; in `calls_nested` it is 2, so that one deadlock is the most
that a call survives (one less than its passes).  `MaxFaults` counts timeouts and
failures of the transaction manager together, and one of them is enough to reach
every way out of `runSync` (the proofs are for any such
numbers, with fewer deadlocks than passes where a success is concerned).  `Symmetry`
is used in `jobs_cancel` and `jobs_chains`, where
instances are interchangeable and no liveness is checked (`ExecutesOnce`
constrains steps only, and names no instance).

Fairness.  `jobs_live`: an instance that is down is started again, one that is
stopping exits; the poller thread and the pool of workers go on while they can
(threads are scheduled, and a service returns); a poll that keeps finding due
rows reads them all and claims one (strong: its query has no bound, and only
another instance's claim makes a row unavailable).  `seq_banks`: threads go on,
the database grants a lock to a transaction that keeps asking (strong), and a
wait for a connection comes to an end (`WF(PoolGivesUp)`: setMaxWaitMillis); that
a connection is ever free is not assumed.  `sem_wait`: threads go on, and the
database grants the insert.  `caches`: a listener takes the
clears that have reached it, and applies or loses each (a JMS session hands its
messages on, and a disconnect or a restart ends the wait as well); it need not
ever connect, readers and writers need not go on, and no transaction has to end.  `lookups`: a request that
opens a dialog is answered or fails after the timeout of the script.  Nothing is
assumed of callers, users, administrators, faults or crashes.

## 5. Properties worth a remark

* `NoJobLost` is why a cancel that overwrites a claim, a rejected job, a crash
  between the copy and the mark of a recovered row, or a failing update never
  leaves a row that nobody will look at again.  `OwnedRowsAreHeld` is stronger
  and holds without database errors only: after an error the row waits for the
  next restart of its instance.
* `RetryBudget` is weaker than "max retries": a crash between the creation of
  the retry and the store of FAILED makes `reloadCrashedJobs` copy the row with
  its old counter, so the copy has all its retries again.  The bound is
  `(1 + copies) * (1 + maxRetry)`, where the copies are the recovered rows of the
  same chain; `RecurrenceBudget` is the same with `maxRecur`.  `OneSuccessor`
  leaves the copies out, for a row that was running when its process died can
  have a retry and a copy.
* `OneTaskPerRow`, `ExecutesOnce`, `OneSuccessor` and the two budgets need that
  resetJob is not used: resetJob accepts a running row, whose service then runs
  twice and may create two successors.  `RetryBudget` also needs that
  cancelJobRetries is not used, which changes the limit of one row of a chain
  and not that of its retries.
* `FirmCancelHolds` says when a cancel is final.  It excepts a cancel that meets
  a Job object at one of the `StaleSteps`: past its checks, the object overwrites
  the cancel with its stale copy (finding 1), and at `recur` it starts its
  service without looking at the row again.
* `WorkIsSerial` leaves out calls that join a transaction of their caller: the
  semaphore is freed before that transaction ends.
* `FailedWorkIsUndone` follows the work and not the call: a caller that ignores
  the error of a call which joined its transaction cannot commit it.  It is about
  the result with which a call closes; an error that an ECA at "return" makes of
  a success comes after the commit: `runSync` evaluates those rules when the
  transaction has ended and the caller's is resumed (`ServiceDispatcher.java:567`),
  and `ServiceEcaAction` (lines 134 to 164) writes into the result or throws, so a
  caller can learn an error, or get an exception, for work that is committed, and
  with result-to-result also a success for work that is not.  `ReturnEca` does all
  of this; no property says that the answer fits the transaction, for it need not.
  `SuccessIsCommitted` is about the closing result, too, and holds while deadlocks are fewer than passes; with as many
  it is finding 3.
* `CauseFollowsTransaction` says which call each saved cause belongs to: the calls
  with a suspended transaction and the saved causes correspond one to one and in
  order, and a cause that is set belongs to a transaction that is marked.  These
  four hold while `TxManagerWorks`.
* `EveryFillEnds` is about the pool: two callers within transactions can hold
  both connections while their refills wait for one.  They are freed by the
  timeout only, which then fails both.
* The entity caches do not promise that a value is current, and a stated
  coherence property would be false: a reader that puts after the clear of a
  writer, or reads before the writer commits, leaves an old value until it
  expires.  `StaleLinesAreExplained` and `StaleListsAreExplained` say that there
  is no other reason.  `sound` goes when the row was written and not committed at
  the query, when it was cleared between the query and the put, and when it needed
  a clear that the write did not make, that was not published, or that was lost on
  the way or by the listener.  Whatever remains sound is current or has a clear on
  its way.  That the clear arrives cannot be said of this listener;
  `LateClearsArriveOrAreLost` says that the wait for it ends, with the clear
  applied or with a failure that the log shows.  In behaviours without such
  failures it says that every clear is applied.
* A user who works in a dialog that is not on top (`mixed`) can close one dialog
  and have the script think it was another: `ChainIsStack`, `ValuesGoHome` and
  `AnswersStayHome` are about the others.  `RewrittenOnce` needs no such
  condition; `crossed` are the dialogs whose requests by link overlapped with
  those of another or failed, for the global `lookupId` is the last one's.

## 6. Findings

1. `PersistedServiceJob.init` and `queue` store the row from a copy they read
   before: a cancelJob that commits in between is overwritten, and the service
   starts, although the class comment says that jobs can be cancelled after they
   are queued.
2. `ServiceSemaphore.dbWrite` catches the exceptions of suspend, begin and
   commit and returns as if it had written the row: the service runs unlocked
   (`RunnerHasRow`).
3. `runSync` resets the result after every deadlock, also after the last pass:
   a service that deadlocked each time is reported as a success.
4. `runSync` pushes a user only when the call has one and pops always, so a
   nested call without a user removes that of its caller.

## 7. Proofs

The three modules about jobs hold for any set of instances, jobs, objects per row
and templates, any thread-pool sizes and any number of deaths, faults and calls.

`JobScheduler_proofs` proves, for all three administrative services:

* `TypeCorrect`, which includes that the limit of a poll never exceeds the
  queue's capacity.
* `FirmCancel` (`FirmCancelHolds`).  It is not inductive alone: `FirmTasks` adds
  that the Job objects of a firmly cancelled row are at steps from which `queue`
  or `init` will refuse them, or leave the queue with a copy that is cancelled
  too; `StartedIsCounted` that a started service has been counted, so that a
  cancel which finds the count 0 finds nobody in the service; `AdminHasRow` that
  `cancelJobRetries` writes back a row that exists.  A row created by a
  recurrence, a retry or a recovery takes a free key and so replaces no cancelled
  row (`NextRowKeepsFirmRows`).
* `NothingLost` (`NoJobLost`).  Since any copy may be stored late, the property is
  shown of every copy of a row, in the table, in Job objects, in reloads and in
  administrative calls (`CopiesPursued`).  `VersionsDescend` says that a copy after
  a step is a copy before it or one of a few rewritings of one, none of which
  gives a row up (`RewrittenPursued`).
* `OwnedRowsHeld` (`OwnedRowsAreHeld`).  A Job object's copy fits its step
  (`CopiesFit`), an instance has no Job objects and polls nothing before its
  reload is over (`ReloadFirst`), and while no database operation has failed it
  holds the rows in its name (`OwnedKept`).

`JobExecution_proofs` proves `OneTask` (`OneTaskPerRow`) and `ExecutedOnce`, that
`JobScheduler` implements `JobExecution` (`ExecutesOnce`), when nobody calls
resetJob.  The invariant, `ExecutionInv`, says that an instance polls no row that
it holds and has one Job object of a row (`DueAreFree`, `OnePerInstance`); that
the row of a Job object past its checks is in its name, or started or cancelled
(`ActiveOwns`), so that no second one passes them (`ActiveAlone`); and that the
count of started services fits the row and the step (`RunsOnce`, `RunsFit`).  What
a step does to the row, the Job object and the count is one of eight effects
(`Enters`, `Moves`, `Stores`, `Starts` and so on); a lemma assigns each action its
effects, and the parts of the invariant and the refinement go by these.

`JobChains_proofs` proves `SuccessorIsOne` (`OneSuccessor`), `RecurrencesBounded`
(`RecurrenceBudget`) and `RetriesBounded` (`RetryBudget`), the last when nobody
calls cancelJobRetries either.  The invariant, `ChainInv`, says that every row
has a place: a head, which is the scheduled row or the copy of a crashed row that
it descends from, and a level, its distance from the head.  No two rows have the
same place (`Distinct`), for a service creates one row and has run once
(`Childless`).  Every copy of a row has counted up to its level at least
(`Agree`), and the limits bound the levels (`Limited`: the number of retries that of
a job which does not recur, the number of occurrences that of every row which is
not a retry).  A step leaves the set of rows as it is, or adds one row in one of
three ways (`Steady`, `Fresh`, `Recovers`, `Succeeds`), each of which gives the
new row a free place.  The budgets count the places of a chain: the heads are its
first row and its copies, the levels go from 0 to the limit (`CountPlaces`, by the
pigeonhole theorem).

`SequenceBank_proofs` proves, for any set of banks, any sizes and any number of
refills: `TypeCorrect`, `Disjoint` (`BanksAreDisjoint`), `FillServes`
(`FilledBankServes`) and `Unique`, that `SequenceBank` implements `IdSource`.
`BanksAreDisjoint` is not inductive alone.  The invariant adds that the
transaction which is past the locking step holds the lock (`LockFollowsStep`),
that what it has read is still what the row says (`ReadIsCurrent`), and that
every range and every issued id lies below the row (`BelowRow`).  Each action is
of one of three kinds: it leaves all ranges as they were or shrinks them
(`Keeps`), hands out the first id of a range (`HandsOut`), or takes a new range
from the row (`Takes`); a lemma per kind carries the invariant, and a lemma
assigns each action its kind.

`ServiceSemaphore_proofs` proves `TypeCorrect`, `Owned` (`OwnerHasRow`),
`MutualExclusion` (`Exclusion`), `SerialWork` (`WorkIsSerial`) and `OwnerReleases`
(`OnlyOwnerReleases`) for any set of calls, any waits and any number of crashes
and failing statements.  The invariant says that, while `TxWorks`, the call which
has a lock is the one the row names while it is between acquire and release,
that an uncommitted insert is alone (`LockIsRow`, `CreatingIsAlone`), and that
the work which is open is that of the owner or of a joined call.

`ServiceCalls_proofs` proves, for any depth of calls and any number of calls,
deadlocks, timeouts and faults: `TypeCorrect`, `CallersKeepTransaction`
(`CallerKeepsTransaction`), `FailuresAreUndone` (`FailedWorkIsUndone`),
`CausesFollow` (`CauseFollowsTransaction`) and, while deadlocks are fewer than passes, `SuccessesAreCommitted` (`SuccessIsCommitted`).
The types need that at least as many causes are saved as transactions are suspended
(`CausesFit`), or `resume` would find none; a suspend that fails leaves one more.
The other properties are claimed while `TxManagerWorks`, so their invariants are
kept by the steps in which the transaction manager does not fail (`Calm`), and
`CalmSteps` says that, as long as it works, there have been no others.  The nesting (`Nested`) says that a
call works in the transaction of its caller, or in one that it began itself and
no call below it works in; so only the call that began a transaction ends it
(`StatusStep`), and all others keep theirs (`EntriesLive`).  On top of it `Worked`
follows what a call has written until the call closes, which with an error
marks or ends the transaction, and nothing commits it after that; `Promising`
follows it to the commit, and counts the passes that a call has left against the
deadlocks so far.  For the causes the nesting is enough once the correspondence is
part of the invariant (`CausesKept`): only the call on top suspends and resumes,
so it adds or takes the last pair, and a suspended transaction that is marked
stays so (`SuspendedStayMarked`).

`EntityCache_proofs` proves `TypeCorrect`, `LinesExplained` and `ListsExplained`
(the two safety invariants of `caches`) for any instances, threads, keys, orders and
numbers of reads and writes.  The invariant looks into transactions that have not
ended: while one has written a row, every instance with a sound value of it is
still to be cleared by the writer, by what the writer will publish or by what it
has published; so a commit leaves published clears only.  A step that loses a
clear, whatever the reason, is a step of `Miss`: `MissValues` says that what is
still sound afterwards has lost none, and `MissStep` that it is then enough to look
at the keys whose clears are as before.

`FieldLookup_proofs` proves `TypeCorrect`, `Chained`, `ValuesArrive`,
`AnswersArrive` and `Rewrites` for any lookups, modal or not, and any number of
requests.  It adds that a dialog is on the stack once, that requests go out from
the dialog they are to fill (`RequestsStayHome`), and that a link request whose
answer will meet another name in the global is one of those in `crossed`
(`OverlapsAreKnown`).

The assumptions are those declared with the constants, and TLC evaluates them in
every run.  Only model-checked: liveness (`EveryJobEnds`, `EveryFillEnds`,
`EveryCallEnds`, `LockIsFreed`, `LateClearsArriveOrAreLost`, `DialogsAreFilled`), which is
out of the prover's reach.

## 8. Not modelled

The table of section 1 and the component list of `PROJECT.json` name every part
left out with the reason.  Nine tenths of the JavaScript in the repository are
libraries under other names (angular, jQuery and its widgets, editors, charts),
often in several copies; of the rest most is wiring of forms without state of
its own.

Within the modelled components:

* `JobScheduler`: the purge of old jobs (which deletes by key a row it has read
  earlier; the state space of the scheduler leaves no room for it), job pools and
  priorities, the dates themselves, several job managers in one JVM, changes of
  the thread pool while it runs.
* `ServiceCalls`: global-commit and global-rollback services
  (`ServiceSynchronization`), callbacks and metrics of `runSync`, the time stamps
  and debug resources of `TransactionUtil`.
* `EntityCache`: the object cache, which nothing in the framework fills; clears of
  a condition, of a dummy key and of everything, which travel like those of a
  row; more than one condition; the LRU and expiry machinery of `UtilCache`,
  which is `Evict` here.
* `FieldLookup`: lookups in windows of their own, descriptions and completions of
  fields, the folding of screenlets, and `set_multivalues`, which no page uses.
