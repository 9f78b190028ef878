-------------------------- MODULE ServiceSemaphore --------------------------
(***************************************************************************)
(* The semaphore of a service that is declared semaphore="wait" or "fail": *)
(* ServiceSemaphore (framework/service/.../semaphore/ServiceSemaphore.java)*)
(* and its use by ServiceDispatcher.runSync.                               *)
(*                                                                         *)
(* The lock is one row of the ServiceSemaphore table whose primary key is  *)
(* the service name.  It is looked up in the transaction of the caller,    *)
(* and written and removed in transactions of its own.                     *)
(***************************************************************************)
EXTENDS Naturals

CONSTANTS
  Calls,       \* threads, of any server instance, that call the service
  NoCall,
  Joined,      \* those that call it within a transaction of their own, which
               \* the service joins
  MaxWait,     \* semaphore="wait": semaphore-wait-seconds / semaphore-sleep;
               \* semaphore="fail": 0, a call that finds a row fails at once
  MaxCalls,    \* bound: calls
  MaxCrashes,  \* bound: processes that die
  MaxDbFaults, \* bound: statements that fail
  MaxTxFaults  \* bound: failures of the transaction manager

ASSUME CallsAssumption == NoCall \notin Calls /\ Joined \subseteq Calls
ASSUME WaitAssumption == MaxWait \in Nat
ASSUME BoundsAssumption ==
  MaxCalls \in Nat /\ MaxCrashes \in Nat /\ MaxDbFaults \in Nat /\ MaxTxFaults \in Nat

VARIABLES
  row,      \* the committed row: the call that inserted it, or NoCall
  creating, \* the call whose transaction has inserted the row and not ended
  lock,     \* per call: ServiceSemaphore.lock is set
  wait,     \* per call: ServiceSemaphore.wait
  at,       \* per call: where it is in runSync
  open,     \* calls whose service has worked and whose work is not committed
  count     \* how often each bounded event has happened

vars == <<row, creating, lock, wait, at, open, count>>

-----------------------------------------------------------------------------

Places == {"idle", "check", "sleep", "insert", "create", "run", "ran", "release", "caller"}
Bounds == [calls |-> MaxCalls, crashes |-> MaxCrashes, db |-> MaxDbFaults, tx |-> MaxTxFaults]

At(c, place) == at[c] = place
Goto(c, place) == at' = [at EXCEPT ![c] = place]
Counts(e) == count[e] < Bounds[e] /\ count' = [count EXCEPT ![e] = @ + 1]

\* Between acquire() and release().
Inside(c) == at[c] \in {"run", "ran", "release"} /\ lock[c]

Init == /\ row = NoCall /\ creating = NoCall
        /\ lock = [c \in Calls |-> FALSE]
        /\ wait = [c \in Calls |-> 0]
        /\ at = [c \in Calls |-> "idle"]
        /\ open = {}
        /\ count = [e \in DOMAIN Bounds |-> 0]

-----------------------------------------------------------------------------
(* acquire *)

\* runSync makes a new ServiceSemaphore and calls acquire().
Call(c) == /\ At(c, "idle") /\ Counts("calls")
           /\ Goto(c, "check")
           /\ wait' = [wait EXCEPT ![c] = 0]
           /\ UNCHANGED <<row, creating, lock, open>>

\* checkLockNeedToWait sees no row.
CheckFree(c) == /\ At(c, "check") /\ row = NoCall
                /\ Goto(c, "insert")
                /\ UNCHANGED <<row, creating, lock, wait, open, count>>

\* It sees one: waitOrFail sleeps before the next look, or gives up.
WaitsAgain_OneMore(c) == wait[c] <= MaxWait
WaitsAgain(c) == wait[c] < MaxWait
CheckTaken_Uncounted(c) ==
  /\ At(c, "check") /\ row # NoCall
  /\ Goto(c, IF WaitsAgain(c) THEN "sleep" ELSE "release")
  /\ UNCHANGED <<row, creating, lock, wait, open, count>>
CheckTaken(c) ==
  /\ At(c, "check") /\ row # NoCall
  /\ \/ /\ WaitsAgain(c)
        /\ wait' = [wait EXCEPT ![c] = @ + 1]
        /\ Goto(c, "sleep")
     \/ /\ ~WaitsAgain(c)
        /\ Goto(c, "release") /\ UNCHANGED wait
  /\ UNCHANGED <<row, creating, lock, open, count>>

Wake(c) == /\ At(c, "sleep")
           /\ Goto(c, "check")
           /\ UNCHANGED <<row, creating, lock, wait, open, count>>

\* The look itself fails.
CheckFails(c) == /\ At(c, "check") /\ Counts("db")
                 /\ Goto(c, "release")
                 /\ UNCHANGED <<row, creating, lock, wait, open>>

\* dbWrite inserts the row.  The primary key makes the insert wait for a
\* concurrent one, and refuses it when that one has committed: the call fails
\* then, also when it would rather wait.
Insert_NoKey(c) == /\ At(c, "insert")
                   /\ creating' = c /\ Goto(c, "create")
                   /\ UNCHANGED <<row, lock, wait, open, count>>
Insert(c) == /\ At(c, "insert") /\ creating = NoCall
             /\ \/ row = NoCall /\ creating' = c /\ Goto(c, "create")
                \/ row # NoCall /\ UNCHANGED creating /\ Goto(c, "release")
             /\ UNCHANGED <<row, lock, wait, open, count>>

\* The insert fails for another reason: dbWrite rolls back and throws.
InsertFails(c) == /\ At(c, "insert") /\ Counts("db")
                  /\ Goto(c, "release")
                  /\ UNCHANGED <<row, creating, lock, wait, open>>

\* dbWrite commits.
Create(c) == /\ At(c, "create")
             /\ row' = c /\ creating' = NoCall
             /\ lock' = [lock EXCEPT ![c] = TRUE]
             /\ Goto(c, "run")
             /\ UNCHANGED <<wait, open, count>>

\* suspend() or begin() throws: dbWrite logs it and returns as if the row had
\* been written.
BeginFails(c) == /\ At(c, "insert") /\ Counts("tx")
                 /\ Goto(c, "run")
                 /\ UNCHANGED <<row, creating, lock, wait, open>>

\* commit() throws, and may have reached the database or not: dbWrite logs it.
CommitFails(c) == /\ At(c, "create") /\ Counts("tx")
                  /\ row' \in {row, c} /\ creating' = NoCall
                  /\ lock' = [lock EXCEPT ![c] = TRUE]
                  /\ Goto(c, "run")
                  /\ UNCHANGED <<wait, open>>

-----------------------------------------------------------------------------
(* The service, and release *)

\* The service works, in its own transaction or in that of its caller.
Run(c) == /\ At(c, "run")
          /\ open' = open \cup {c}
          /\ Goto(c, "ran")
          /\ UNCHANGED <<row, creating, lock, wait, count>>

\* runSync commits or rolls back the transaction that it has begun.
EndTransaction_Later(c) == /\ At(c, "ran")
                           /\ Goto(c, "release")
                           /\ UNCHANGED <<row, creating, lock, wait, open, count>>
EndTransaction(c) == /\ At(c, "ran")
                     /\ open' = IF c \in Joined THEN open ELSE open \ {c}
                     /\ Goto(c, "release")
                     /\ UNCHANGED <<row, creating, lock, wait, count>>

\* The finally block of runSync, also after acquire() has thrown.  The remove
\* goes by primary key, whoever inserted the row; it fails if there is none.
Removes_Always(c) == TRUE
Removes_FirstLook(c) == lock[c] /\ wait[c] = 0
Removes(c) == lock[c]
Release(c) == /\ At(c, "release")
              /\ row' = IF Removes(c) THEN NoCall ELSE row
              /\ lock' = [lock EXCEPT ![c] = FALSE]
              /\ Goto(c, "caller")
              /\ UNCHANGED <<creating, wait, open, count>>

\* The remove fails; runSync logs it and the row stays.
ReleaseFails(c) == /\ At(c, "release") /\ lock[c] /\ Counts("db")
                   /\ lock' = [lock EXCEPT ![c] = FALSE]
                   /\ Goto(c, "caller")
                   /\ UNCHANGED <<row, creating, wait, open>>

\* runSync has returned; a transaction of the caller ends.
Return(c) == /\ At(c, "caller")
             /\ open' = open \ {c}
             /\ Goto(c, "idle")
             /\ UNCHANGED <<row, creating, lock, wait, count>>

\* The process dies: the database rolls back what it had not committed, and
\* nothing ever removes the row.
Crash(c) == /\ ~At(c, "idle") /\ Counts("crashes")
            /\ creating' = IF creating = c THEN NoCall ELSE creating
            /\ lock' = [lock EXCEPT ![c] = FALSE]
            /\ open' = open \ {c}
            /\ Goto(c, "idle")
            /\ UNCHANGED <<row, wait>>

-----------------------------------------------------------------------------

Step(c) == \/ CheckFree(c) \/ CheckTaken(c) \/ Wake(c) \/ Insert(c) \/ Create(c)
           \/ Run(c) \/ EndTransaction(c) \/ Release(c) \/ Return(c)
Fault(c) == \/ CheckFails(c) \/ InsertFails(c) \/ BeginFails(c) \/ CommitFails(c)
            \/ ReleaseFails(c) \/ Crash(c)

Next == \E c \in Calls : Call(c) \/ Step(c) \/ Fault(c)

Spec == Init /\ [][Next]_vars

\* Threads go on, and the database grants a lock to whoever keeps asking.
FairSpec == Spec /\ \A c \in Calls : WF_vars(Step(c)) /\ SF_vars(Insert(c))

-----------------------------------------------------------------------------
(* Properties *)

\* Every variable keeps its type.
TypeOK == /\ row \in Calls \cup {NoCall}
          /\ creating \in Calls \cup {NoCall}
          /\ lock \in [Calls -> BOOLEAN]
          /\ wait \in [Calls -> 0..MaxWait]
          /\ at \in [Calls -> Places]
          /\ open \subseteq Calls
          /\ count \in [DOMAIN Bounds -> Nat]

\* No suspend(), begin() or commit() of dbWrite has failed so far.
TxWorks == count["tx"] = 0

\* checkLockNeedToWait: "we own the lock".  A call that goes on to run the
\* service has its row in the table.
RunnerHasRow == \A c \in Calls : at[c] \in {"run", "ran"} => row = c

\* That holds whatever statements fail and whoever dies, as long as the
\* transaction manager works: dbWrite swallows its failures.
OwnerHasRow == TxWorks => RunnerHasRow

\* And then one call at a time runs the service.
Exclusion == TxWorks => \A c, d \in Calls :
               at[c] \in {"run", "ran"} /\ at[d] \in {"run", "ran"} => c = d

\* The work of one call is committed before another one works, unless it is
\* part of a transaction of the caller, which outlives the semaphore.
WorkIsSerial == TxWorks => \A c, d \in open : c = d \/ c \in Joined \/ d \in Joined

\* A row is removed by the call that inserted it, when that call releases it.
\* Calls that were refused, timed out or failed pass through release() too.
OnlyOwnerReleases ==
  [][TxWorks /\ row # NoCall /\ row' # row => row' = NoCall /\ at[row] = "release"]_vars

\* Every call comes back: it waits a bounded time, also for a row whose owner
\* is dead.
EveryCallEnds == \A c \in Calls : ~At(c, "idle") ~> At(c, "idle")

\* The service does not stay locked, unless a fault has left the row behind.
LockIsFreed ==
  row # NoCall ~> row = NoCall \/ \E e \in {"crashes", "db", "tx"} : count[e] > 0
=============================================================================
