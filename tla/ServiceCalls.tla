---------------------------- MODULE ServiceCalls ----------------------------
(***************************************************************************)
(* Service calls and transactions in one thread: ServiceDispatcher.runSync *)
(* (framework/service) over TransactionUtil (framework/entity).            *)
(*                                                                         *)
(* A call joins the transaction it finds, suspends it for one of its own,  *)
(* or begins one when there is none; the service it runs, and the ECA      *)
(* services around it, make further calls.  A call that has begun its      *)
(* transaction is the one to end it, and runs its service again when the   *)
(* database reports a deadlock.                                            *)
(***************************************************************************)
EXTENDS Naturals, Sequences

CONSTANTS
  LockRetries,  \* LOCK_RETRIES
  Logins,       \* whether calls have a userLogin: a subset of BOOLEAN
  MaxDepth,     \* bound: calls within calls
  MaxCalls,     \* bound: calls
  MaxDeadlocks, \* bound: deadlocks that the database reports
  MaxFaults     \* bound: transactions that run into their timeout, and calls of
                \* the transaction manager that fail

ASSUME BoundsAssumption ==
  /\ Logins \subseteq BOOLEAN /\ LockRetries \in Nat \ {0} /\ MaxDepth \in Nat /\ MaxCalls \in Nat
  /\ MaxDeadlocks \in Nat /\ MaxFaults \in Nat

VARIABLES
  tx,     \* what became of each transaction
  cur,    \* the transaction of the thread, or NoTx
  cause,  \* setRollbackOnlyCause is set
  causes, \* setRollbackOnlyCauseSave: that of each suspended transaction
  stack,  \* the calls that have not returned, the innermost first
  users,  \* GenericDelegator.userIdentifierStack
  count   \* how often each bounded event has happened

vars == <<tx, cur, cause, causes, stack, users, count>>

-----------------------------------------------------------------------------

\* "manager": the faults after which nothing is claimed (TxManagerWorks).
Events == [calls |-> MaxCalls, deadlocks |-> MaxDeadlocks, faults |-> MaxFaults, manager |-> MaxFaults]
Counts(E) == /\ \A e \in E : count[e] < Events[e]
             /\ count' = [e \in DOMAIN Events |-> IF e \in E THEN count[e] + 1 ELSE count[e]]

\* A call begins one transaction, and another one after each deadlock.
TxIds == 1..(MaxCalls + MaxDeadlocks)
NoTx == 0

\* "doomed": past its timeout, which its status does not show; "lost": its
\* rollback has failed, and no thread has it any more.
\* "failed" and "promised" are history: work of a call that has closed with an
\* error, and of one that began the transaction and closed with success.
Statuses == {"unused", "active", "doomed", "marked", "committed", "rolledback", "lost"}
Tx == [status : Statuses, failed : BOOLEAN, promised : BOOLEAN]
UnusedTx == [status |-> "unused", failed |-> FALSE, promised |-> FALSE]

Places == {"begin", "try", "body", "out", "thrown", "resume", "return"}
\* "ok" is a success or a failure: a call commits with both.
Results == {"ok", "error", "thrown"}
\* use-transaction="false"; a call that joins a transaction in place; and
\* require-new-transaction="true".
Kinds == {"none", "join", "new"}
Frame == [at : Places,
          kind : Kinds,
          login : BOOLEAN,             \* there is a userLogin
          began : BOOLEAN,             \* beganTrans
          parent : TxIds \cup {NoTx},  \* parentTransaction
          tries : 0..LockRetries,      \* lockRetriesRemaining
          result : Results,            \* of the service and its ECAs: the call closes with it
          reply : Results,             \* what the caller learns in the end
          wrote : TxIds \cup {NoTx},   \* where the service has written, this time
          entry : TxIds \cup {NoTx}]   \* the transaction it was called in

Top == Head(stack)
InCall(place) == stack # <<>> /\ Top.at = place
SetTop(f) == stack' = <<f>> \o Tail(stack)
GoOn(place) == SetTop([Top EXCEPT !.at = place])

\* Errors, as opposed to results with which the transaction commits.
IsError(r) == r \in {"error", "thrown"}

Fresh(t) == t \in TxIds /\ tx[t].status = "unused" /\ \A u \in TxIds : u < t => tx[u].status # "unused"
Status(t, s) == [tx EXCEPT ![t].status = s]

Init == /\ tx = [t \in TxIds |-> UnusedTx]
        /\ cur = NoTx /\ cause = FALSE /\ causes = <<>>
        /\ stack = <<>> /\ users = <<>>
        /\ count = [e \in DOMAIN Events |-> 0]

-----------------------------------------------------------------------------
(* TransactionUtil *)

\* setRollbackOnly: marks the transaction in place, whoever has begun it.
MarkRollback_IfBegun == UNCHANGED <<tx, cause>>
MarkRollback == IF cur # NoTx /\ tx[cur].status # "marked"
                THEN tx' = Status(cur, "marked") /\ cause' = TRUE
                ELSE UNCHANGED <<tx, cause>>

\* rollback(beganTransaction): ends the transaction that was begun, or marks
\* the one that was joined.  The cause is cleared first, and the thread has no
\* transaction afterwards, when the rollback fails too.
Outcomes == {"rolledback", "lost"}
Rollback(began, outcome) ==
  IF began THEN /\ IF cur # NoTx THEN tx' = Status(cur, outcome) /\ cause' = FALSE
                                 ELSE UNCHANGED <<tx, cause>>
                /\ cur' = NoTx
           ELSE MarkRollback /\ UNCHANGED cur

-----------------------------------------------------------------------------
(* runSync *)

\* lockRetriesRemaining at the start of a call.
FullTries_OneMore == LockRetries + 1
FullTries == LockRetries

\* A service, one of its ECAs, or the thread itself calls a service.
MayCall == stack # <<>> => \/ Top.at \in {"body", "out"}
                           \/ Top.at = "return" /\ Top.reply # "thrown"
Call(kind, login) ==
  /\ MayCall
  /\ Len(stack) < MaxDepth /\ Counts({"calls"})
  /\ stack' = <<[at |-> "begin", kind |-> kind, login |-> login, began |-> FALSE, parent |-> NoTx,
                 tries |-> FullTries, result |-> "ok", reply |-> "ok", wrote |-> NoTx,
                 entry |-> cur]>> \o stack
  /\ UNCHANGED <<tx, cur, cause, causes, users>>

\* A transaction in place is joined, unless a new one is required.
NeedsBegin == Top.kind = "new" \/ (Top.kind = "join" /\ cur = NoTx)
Join == /\ InCall("begin")
        /\ ~NeedsBegin
        /\ GoOn("try")
        /\ UNCHANGED <<tx, cur, cause, causes, users, count>>

\* suspend saves the cause with the transaction; begin makes a new one current.
Suspends_KeepsCause == causes' = <<cause>> \o causes /\ UNCHANGED cause
Suspends == causes' = <<cause>> \o causes /\ cause' = FALSE
Begin == /\ InCall("begin") /\ NeedsBegin
         /\ IF cur # NoTx THEN Suspends ELSE UNCHANGED <<cause, causes>>
         /\ \E t \in TxIds : Fresh(t) /\ cur' = t /\ tx' = Status(t, "active")
         /\ SetTop([Top EXCEPT !.at = "try", !.began = TRUE, !.parent = cur])
         /\ UNCHANGED <<users, count>>

\* The new transaction cannot be begun: the call fails before its service.
BeginFails == /\ InCall("begin") /\ NeedsBegin
              /\ Counts({"faults"})
              /\ IF cur # NoTx THEN Suspends ELSE UNCHANGED <<cause, causes>>
              /\ cur' = NoTx
              /\ SetTop([Top EXCEPT !.at = "resume", !.result = "thrown", !.parent = cur])
              /\ UNCHANGED <<tx, users>>

\* The transaction in place cannot be suspended: the call fails, and the cause
\* has been saved and cleared.
SuspendFails == /\ InCall("begin") /\ Top.kind = "new" /\ cur # NoTx
                /\ Counts({"faults", "manager"})
                /\ Suspends
                /\ SetTop([Top EXCEPT !.at = "resume", !.result = "thrown"])
                /\ UNCHANGED <<tx, cur, users>>

\* One pass of the retry loop up to the service: the call is authorised and
\* its user, if any, becomes the current one.
Try == /\ InCall("try")
       /\ users' = IF Top.login THEN <<Len(stack)>> \o users ELSE users
       /\ SetTop([Top EXCEPT !.at = "body", !.tries = @ - 1, !.wrote = NoTx])
       /\ UNCHANGED <<tx, cur, cause, causes, count>>

\* Authorisation, an ECA service or a validation throws.
Throws == /\ \/ InCall("try") \/ InCall("body") \/ InCall("out")
          /\ SetTop([Top EXCEPT !.at = "thrown", !.result = "thrown"])
          /\ UNCHANGED <<tx, cur, cause, causes, users, count>>

\* The service writes.  The entity engine refuses to when the transaction is
\* marked for rollback and the cause is known; without a transaction it makes
\* one for the write alone.
Write == /\ InCall("body")
         /\ cur # NoTx /\ ~cause
         /\ SetTop([Top EXCEPT !.wrote = cur])
         /\ UNCHANGED <<tx, cur, cause, causes, users, count>>

\* The service has returned.
BodyEnds(r) == /\ InCall("body")
               /\ SetTop([Top EXCEPT !.at = "out", !.result = r])
               /\ UNCHANGED <<tx, cur, cause, causes, users, count>>

\* It has returned the message of a deadlock, and the transaction is its own:
\* it is rolled back, and a new one is begun for the next pass (in a transaction
\* of its caller a deadlock is an error like others).  After the last
\* pass the result has been reset all the same.
PassAfterDeadlock_OneLess == IF Top.tries > 1 THEN "try" ELSE "out"
PassAfterDeadlock == IF Top.tries > 0 THEN "try" ELSE "out"
Undone == IF cur = NoTx THEN tx
          ELSE [tx EXCEPT ![cur].status = "rolledback", ![cur].failed = @ \/ Top.wrote = cur]
Deadlock ==
  /\ InCall("body") /\ Top.began /\ Counts({"deadlocks"})
  /\ \E t \in TxIds :
       /\ Fresh(t) /\ cur' = t
       /\ tx' = [Undone EXCEPT ![t].status = "active"]
  /\ cause' = FALSE
  /\ SetTop([Top EXCEPT !.at = PassAfterDeadlock, !.result = "ok"])
  /\ UNCHANGED <<causes, users>>

\* The old transaction cannot be rolled back, or the new one cannot be begun.
DeadlockThenFault ==
  /\ InCall("body") /\ Top.began /\ Counts({"deadlocks", "faults"})
  /\ \E outcome \in Outcomes : Rollback(TRUE, outcome)
  /\ SetTop([Top EXCEPT !.at = "thrown", !.result = "thrown"])
  /\ UNCHANGED <<causes, users>>

\* An ECA service at "out-validate" or "commit" puts another result in place of
\* the service's: an error that is not ignored, or any with result-to-result.
Eca(r) == /\ InCall("out")
          /\ SetTop([Top EXCEPT !.result = r])
          /\ UNCHANGED <<tx, cur, cause, causes, users, count>>

PopUser == users' = IF users = <<>> THEN users ELSE Tail(users)

\* An error or an exception: the transaction is rolled back, or marked.  That a
\* rollback fails is logged, and the call goes on.
CloseError == /\ InCall("thrown") \/ (InCall("out") /\ IsError(Top.result))
              /\ \/ Rollback(Top.began, "rolledback") /\ UNCHANGED count
                 \/ Top.began /\ cur # NoTx /\ Counts({"faults"}) /\ Rollback(TRUE, "lost")
              /\ PopUser
              /\ GoOn("resume")
              /\ UNCHANGED causes

\* Otherwise it is committed, if it was begun here; a transaction marked for
\* rollback or past its timeout is rolled back instead, and the call throws.
\* Where there is no transaction to commit, that is logged, and the call goes on.
Commits_Joined == cur # NoTx
Commits == Top.began
Refused_Silent == GoOn("resume")
Refused == SetTop([Top EXCEPT !.at = "resume", !.result = "thrown"])
Ends(status) == tx' = Status(cur, status) /\ cur' = NoTx /\ cause' = FALSE
CloseOk == /\ InCall("out") /\ ~IsError(Top.result)
           /\ \/ (~Commits \/ cur = NoTx) /\ UNCHANGED <<tx, cur, cause>> /\ GoOn("resume")
              \/ Commits /\ cur # NoTx /\ tx[cur].status = "active" /\ Ends("committed") /\ GoOn("resume")
              \/ Commits /\ cur # NoTx /\ tx[cur].status # "active" /\ Ends("rolledback") /\ Refused
           /\ PopUser
           /\ UNCHANGED <<causes, count>>

\* The commit fails otherwise, and whether the database has committed is not known.
CommitFails == /\ InCall("out") /\ ~IsError(Top.result) /\ Commits
               /\ cur # NoTx /\ tx[cur].status = "active"
               /\ Counts({"faults", "manager"})
               /\ \E status \in {"committed", "rolledback"} : Ends(status)
               /\ PopUser
               /\ Refused
               /\ UNCHANGED causes

\* A suspended transaction is current again, with its cause.
Finish(reply) == SetTop([Top EXCEPT !.at = "return", !.reply = reply])
ResumeParent == /\ InCall("resume")
                /\ IF Top.parent # NoTx
                   THEN cur' = Top.parent /\ cause' = Head(causes) /\ causes' = Tail(causes)
                   ELSE UNCHANGED <<cur, cause, causes>>
                /\ Finish(Top.result)
                /\ UNCHANGED <<tx, users, count>>

\* It cannot be resumed: its cause is set, the thread has no transaction, and
\* the call throws.
ResumeFails == /\ InCall("resume") /\ Top.parent # NoTx
               /\ Counts({"faults", "manager"})
               /\ cur' = NoTx /\ cause' = Head(causes) /\ causes' = Tail(causes)
               /\ Finish("thrown")
               /\ UNCHANGED <<tx, users>>

\* An ECA service at "return", with the transaction over: it changes the result
\* that the caller learns, or throws.
ReturnEca(r) == /\ InCall("return") /\ Top.reply # "thrown"
                /\ SetTop([Top EXCEPT !.reply = r])
                /\ UNCHANGED <<tx, cur, cause, causes, users, count>>

\* The caller makes of the result what it likes.
Return ==
  /\ InCall("return")
  /\ tx' = [t \in TxIds |->
              IF Top.wrote # t THEN tx[t]
              ELSE [tx[t] EXCEPT !.failed = @ \/ IsError(Top.result),
                                 !.promised = @ \/ (Top.began /\ ~IsError(Top.result))]]
  /\ stack' = Tail(stack)
  /\ UNCHANGED <<cur, cause, causes, users, count>>

\* A transaction runs into its timeout, current or suspended.
Timeout == /\ Counts({"faults"})
           /\ \E t \in TxIds : tx[t].status = "active" /\ tx' = Status(t, "doomed")
           /\ UNCHANGED <<cur, cause, causes, stack, users>>

-----------------------------------------------------------------------------

Next == \/ \E kind \in Kinds, login \in Logins : Call(kind, login)
        \/ Join \/ Begin \/ BeginFails \/ Try \/ Throws \/ Write
        \/ \E r \in {"ok", "error"} : BodyEnds(r) \/ Eca(r)
        \/ Deadlock \/ DeadlockThenFault
        \/ CloseError \/ CloseOk \/ ResumeParent
        \/ \E r \in Results : ReturnEca(r)
        \/ Return
        \/ SuspendFails \/ CommitFails \/ ResumeFails
        \/ Timeout

Spec == Init /\ [][Next]_vars

-----------------------------------------------------------------------------
(* Properties *)

\* Every variable keeps its type.
TypeOK == /\ tx \in [TxIds -> Tx]
          /\ cur \in TxIds \cup {NoTx}
          /\ cause \in BOOLEAN
          /\ causes \in Seq(BOOLEAN)
          /\ stack \in Seq(Frame)
          /\ users \in Seq(1..MaxDepth)
          /\ count \in [DOMAIN Events -> Nat]

\* The transaction manager has always suspended and resumed, and its commits
\* have committed or rolled back.  Nothing is claimed of a thread in which one has not.
TxManagerWorks == count["manager"] = 0

\* The transaction that call i works in: the one that the call above it was made in.
TxOf(i) == IF i = 1 THEN cur ELSE stack[i - 1].entry

\* "if there was an error, rollback transaction": nothing that a call has
\* written before it closed with an error is ever committed, not by a caller
\* either that ignores the error and reports success, nor when the rollback fails.
\* (It is the result with which the call closes.  An error that only an ECA at
\* "return" makes of it, ReturnEca, comes after the commit and undoes nothing.)
FailedWorkIsUndone ==
  TxManagerWorks => \A t \in TxIds : tx[t].failed => tx[t].status # "committed"

\* "otherwise commit": a call that has begun its transaction and closes with
\* success has committed what its service has written.
SuccessIsCommitted ==
  TxManagerWorks => \A t \in TxIds : tx[t].promised => tx[t].status = "committed"

\* A call ends no transaction that it has not begun, and its caller, or an ECA
\* at "return", finds the transaction in place in which the call was made,
\* however the call has ended.
CallerKeepsTransaction ==
  TxManagerWorks =>
    \A i \in DOMAIN stack :
      LET f == stack[i] IN
      /\ f.entry # NoTx => tx[f.entry].status \in {"active", "doomed", "marked"}
      /\ f.at = "return" => TxOf(i) = f.entry

\* A transaction refuses further work for the reason for which it was marked
\* itself, and not for that of one which is suspended under it or was before it.
\* The saved causes are, in this order, those of the calls with a suspended transaction.
HasSuspended(f) == f.parent # NoTx /\ f.at # "return"
CauseFollowsTransaction ==
  TxManagerWorks =>
    /\ cause => cur # NoTx /\ tx[cur].status = "marked"
    /\ \E by \in [DOMAIN causes -> DOMAIN stack] :
         /\ \A i, j \in DOMAIN causes : i < j => by[i] < by[j]
         /\ \A k \in DOMAIN stack : HasSuspended(stack[k]) <=> \E i \in DOMAIN causes : by[i] = k
         /\ \A i \in DOMAIN causes : causes[i] => tx[stack[by[i]].parent].status = "marked"

\* GenericDelegator.pushUserIdentifier: the user of the running call is on top
\* of the stack of the thread.
UserOfRunningCallIsOnTop ==
  InCall("body") /\ Top.login => users # <<>> /\ Head(users) = Len(stack)
=============================================================================
