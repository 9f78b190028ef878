----------------------- MODULE ServiceSemaphore_proofs -----------------------
(***************************************************************************)
(* Proofs about ServiceSemaphore, for any number of calls, both modes, any *)
(* waiting time and any number of crashes and failing statements.          *)
(*                                                                         *)
(* The argument: whoever runs the service has set its lock, whoever has    *)
(* set its lock is named by the row, and the row names one call.  It holds *)
(* until the transaction manager fails for the first time.                 *)
(***************************************************************************)
EXTENDS ServiceSemaphore, TLAPS

USE CallsAssumption, WaitAssumption, BoundsAssumption

\* Running the service takes the lock, and the lock is a row.
LockIsRow == /\ \A c \in Calls : at[c] \in {"run", "ran"} => lock[c]
             /\ \A c \in Calls : lock[c] => row = c /\ at[c] \in {"run", "ran", "release"}

\* An insert that has not ended is the only one, and there is no row.
CreatingIsAlone == /\ \A c \in Calls : At(c, "create") <=> creating = c
                   /\ creating # NoCall => row = NoCall

\* Work that belongs to no transaction of a caller is committed by runSync
\* before it releases the row.
OpenIsRunning == \A c \in open \ Joined : at[c] = "ran"

\* The first two need one another: a row is written where there is none.
Held == LockIsRow /\ CreatingIsAlone /\ OpenIsRunning
IInv == TypeOK /\ (TxWorks => Held)

-----------------------------------------------------------------------------

CallStep(c) == Call(c) \/ Step(c) \/ Fault(c)

\* Every step keeps the types.
LEMMA TypeStep == TypeOK /\ [Next]_vars => TypeOK'
<1> SUFFICES ASSUME TypeOK, [Next]_vars PROVE TypeOK'
  OBVIOUS
<1> USE DEF TypeOK, Places, Goto
<1>1. CASE UNCHANGED vars
  BY <1>1 DEF vars
<1>c. ASSUME NEW e \in DOMAIN Bounds, Counts(e) PROVE count' \in [DOMAIN Bounds -> Nat]
  BY <1>c DEF Counts
<1>b. {"calls", "crashes", "db", "tx"} = DOMAIN Bounds
  BY DEF Bounds
<1>2. ASSUME NEW c \in Calls, Call(c) PROVE TypeOK'
  BY <1>2, <1>b, <1>c DEF Call
<1>3. ASSUME NEW c \in Calls, Step(c) PROVE TypeOK'
  <2>1. CASE CheckFree(c) \/ Wake(c) \/ Insert(c)
    BY <2>1 DEF CheckFree, Wake, Insert
  <2>2. CASE CheckTaken(c)
    BY <2>2 DEF CheckTaken, WaitsAgain
  <2>3. CASE Create(c) \/ Release(c)
    BY <2>3 DEF Create, Release
  <2>4. CASE Run(c) \/ EndTransaction(c) \/ Return(c)
    BY <2>4 DEF Run, EndTransaction, Return
  <2> QED BY <1>3, <2>1, <2>2, <2>3, <2>4 DEF Step
<1>4. ASSUME NEW c \in Calls, Fault(c) PROVE TypeOK'
  <2>1. CASE CheckFails(c) \/ InsertFails(c) \/ BeginFails(c)
    BY <2>1, <1>b, <1>c DEF CheckFails, InsertFails, BeginFails
  <2>2. CASE CommitFails(c) \/ ReleaseFails(c) \/ Crash(c)
    BY <2>2, <1>b, <1>c DEF CommitFails, ReleaseFails, Crash
  <2> QED BY <1>4, <2>1, <2>2 DEF Fault
<1> QED BY <1>1, <1>2, <1>3, <1>4 DEF Next

\* TypeOK holds in every reachable state.
THEOREM TypeCorrect == Spec => []TypeOK
<1>1. Init => TypeOK
  BY DEF Init, TypeOK, Places, Bounds
<1> QED BY <1>1, TypeStep, PTL DEF Spec

\* A step of one call leaves the place and the lock of the others alone.
LEMMA OthersKeep ==
  ASSUME TypeOK, NEW c \in Calls, CallStep(c), NEW d \in Calls \ {c}
  PROVE  at'[d] = at[d] /\ lock'[d] = lock[d]
<1> USE DEF TypeOK, Goto
<1>1. CASE Call(c)
  BY <1>1 DEF Call
<1>2. CASE Step(c)
  BY <1>2 DEF Step, CheckFree, CheckTaken, Wake, Insert, Create, Run, EndTransaction, Release, Return
<1>3. CASE Fault(c)
  BY <1>3 DEF Fault, CheckFails, InsertFails, BeginFails, CommitFails, ReleaseFails, Crash
<1> QED BY <1>1, <1>2, <1>3 DEF CallStep

\* A failure of the transaction manager is never forgotten.
LEMMA FaultsStay == TypeOK /\ [Next]_vars /\ TxWorks' => TxWorks
<1> SUFFICES ASSUME TypeOK, [Next]_vars, TxWorks' PROVE TxWorks
  OBVIOUS
<1> USE DEF TypeOK, TxWorks, Counts, Bounds
<1>1. CASE UNCHANGED vars
  BY <1>1 DEF vars
<1>2. ASSUME NEW c \in Calls, Call(c) PROVE TxWorks
  BY <1>2 DEF Call
<1>3. ASSUME NEW c \in Calls, Step(c) PROVE TxWorks
  BY <1>3 DEF Step, CheckFree, CheckTaken, Wake, Insert, Create, Run, EndTransaction,
              Release, Return
<1>4. ASSUME NEW c \in Calls, Fault(c) PROVE TxWorks
  BY <1>4 DEF Fault, CheckFails, InsertFails, BeginFails, CommitFails, ReleaseFails, Crash
<1> QED BY <1>1, <1>2, <1>3, <1>4 DEF Next

\* Neither of its failures is a step that leaves TxWorks true.
LEMMA NoTxFault ==
  ASSUME TypeOK, NEW c \in Calls, TxWorks'
  PROVE  ~BeginFails(c) /\ ~CommitFails(c)
BY DEF TypeOK, TxWorks, BeginFails, CommitFails, Counts, Bounds

\* IInv is inductive.
LEMMA StepIInv == IInv /\ [Next]_vars => IInv'
<1> SUFFICES ASSUME IInv, [Next]_vars PROVE IInv'
  OBVIOUS
<1>t. TypeOK /\ TypeOK'
  BY TypeStep DEF IInv
<1>1. CASE UNCHANGED vars
  BY <1>1 DEF vars, IInv, TypeOK, TxWorks, Held, LockIsRow, CreatingIsAlone, OpenIsRunning, At
<1>2. ASSUME NEW c \in Calls, CallStep(c), TxWorks' PROVE Held'
  <2>o. \A d \in Calls \ {c} : at'[d] = at[d] /\ lock'[d] = lock[d]
    BY <1>2, <1>t, OthersKeep
  <2>x. ~BeginFails(c) /\ ~CommitFails(c)
    BY <1>2, <1>t, NoTxFault
  <2>i. LockIsRow /\ CreatingIsAlone /\ OpenIsRunning
    BY <1>2, <1>t, FaultsStay DEF IInv, Held
  <2> USE DEF TypeOK, Held, LockIsRow, CreatingIsAlone, OpenIsRunning, At, Goto
  \* Steps before the insert, and after the release.
  <2>1. CASE \/ Call(c) \/ CheckFree(c) \/ CheckTaken(c) \/ Wake(c) \/ CheckFails(c)
             \/ InsertFails(c) \/ Return(c)
    BY <2>1, <2>o, <2>i, <1>t
       DEF Call, CheckFree, CheckTaken, Wake, CheckFails, InsertFails, Return
  <2>2. CASE Insert(c)
    BY <2>2, <2>o, <2>i, <1>t DEF Insert
  <2>3. CASE Create(c)
    BY <2>3, <2>o, <2>i, <1>t DEF Create
  <2>4. CASE Run(c) \/ EndTransaction(c)
    BY <2>4, <2>o, <2>i, <1>t DEF Run, EndTransaction
  <2>5. CASE Release(c) \/ ReleaseFails(c)
    BY <2>5, <2>o, <2>i, <1>t DEF Release, ReleaseFails, Removes
  <2>6. CASE Crash(c)
    BY <2>6, <2>o, <2>i, <1>t DEF Crash
  <2> QED BY <1>2, <2>x, <2>1, <2>2, <2>3, <2>4, <2>5, <2>6 DEF CallStep, Step, Fault
<1> QED BY <1>t, <1>1, <1>2 DEF Next, CallStep, IInv

\* IInv holds in every reachable state.
THEOREM Inductive == Spec => []IInv
<1>1. Init => IInv
  BY DEF Init, IInv, TypeOK, Places, Bounds, Held, LockIsRow, CreatingIsAlone, OpenIsRunning, At
<1>2. IInv /\ [Next]_vars => IInv'
  BY StepIInv
<1> QED BY <1>1, <1>2, PTL DEF Spec

\* While the transaction manager works, a call that runs has its row.
THEOREM Owned == Spec => []OwnerHasRow
<1>1. IInv => OwnerHasRow
  BY DEF IInv, Held, LockIsRow, OwnerHasRow, RunnerHasRow
<1> QED BY <1>1, Inductive, PTL

\* While the transaction manager works, one call at a time runs the service.
THEOREM MutualExclusion == Spec => []Exclusion
<1>1. IInv => Exclusion
  BY DEF IInv, Held, LockIsRow, Exclusion
<1> QED BY <1>1, Inductive, PTL

\* While the transaction manager works, the work of one call is committed
\* before another one works, unless one of them is part of a transaction of
\* its caller.
THEOREM SerialWork == Spec => []WorkIsSerial
<1>1. IInv => WorkIsSerial
  BY DEF IInv, TypeOK, Held, LockIsRow, OpenIsRunning, WorkIsSerial
<1> QED BY <1>1, Inductive, PTL

\* While the transaction manager works, only the owner of a row removes it.
THEOREM OwnerReleases == Spec => OnlyOwnerReleases
<1> DEFINE OwnerFrees == TxWorks /\ row # NoCall /\ row' # row
                           => row' = NoCall /\ at[row] = "release"
<1>1. IInv /\ [Next]_vars => [OwnerFrees]_vars
  <2> SUFFICES ASSUME IInv, NEW c \in Calls, CallStep(c), TxWorks, row # NoCall, row' # row
               PROVE  row' = NoCall /\ at[row] = "release"
    BY DEF Next, CallStep, vars
  <2>h. LockIsRow /\ CreatingIsAlone
    BY DEF IInv, Held
  \* No commit is under way while there is a row.
  <2>1. CASE Create(c) \/ CommitFails(c)
    BY <2>1, <2>h DEF Create, CommitFails, CreatingIsAlone, At
  <2>2. CASE Release(c)
    BY <2>2, <2>h DEF Release, Removes, LockIsRow, At
  <2> QED BY <2>1, <2>2 DEF CallStep, Step, Fault, Call, CheckFree, CheckTaken, Wake, Insert,
             Run, EndTransaction, Return, CheckFails, InsertFails, BeginFails, ReleaseFails, Crash
<1> QED BY <1>1, Inductive, PTL DEF Spec, OnlyOwnerReleases
=============================================================================
