------------------------ MODULE ServiceCalls_proofs ------------------------
(***************************************************************************)
(* Proofs about ServiceCalls, for every depth and number of calls.         *)
(*                                                                         *)
(* TInv are the types; they need that a cause is saved for every call with *)
(* a suspended transaction (CausesFit counts them from the bottom of the   *)
(* stack).                                                                 *)
(*                                                                         *)
(* The other invariants hold while the transaction manager works: until    *)
(* then all steps are those of Calm (CalmSteps), and a step of Calm keeps  *)
(* each of them.                                                           *)
(*                                                                         *)
(* NInv is the nesting of transactions: every call works in that of its    *)
(* caller, or in one that it has begun and that no call below it works in. *)
(* So only the call that has begun a transaction ends it (StatusStep).     *)
(*                                                                         *)
(* WInv is what becomes of the work of calls: it is in the transaction in  *)
(* which the call works until the call closes, and a call that closes with *)
(* an error marks that transaction or rolls it back, which nothing undoes. *)
(*                                                                         *)
(* CInv are the causes of rollback: CausesBy lists the calls that have     *)
(* suspended a transaction in the order in which their causes are saved,   *)
(* and a suspended transaction that is marked stays so until it is resumed.*)
(***************************************************************************)
EXTENDS ServiceCalls, TLAPS, SequenceTheorems

USE BoundsAssumption

-----------------------------------------------------------------------------
(* The stack *)

\* A change of the innermost call leaves the others.
LEMMA TopOnly ==
  ASSUME stack \in Seq(Frame), stack # <<>>, NEW f \in Frame, SetTop(f)
  PROVE  /\ stack' \in Seq(Frame) /\ Len(stack') = Len(stack)
         /\ stack'[1] = f
         /\ \A i \in 2..Len(stack) : stack'[i] = stack[i]
<1>1. Tail(stack) \in Seq(Frame) /\ Len(Tail(stack)) = Len(stack) - 1
      /\ \A i \in 1..Len(Tail(stack)) : Tail(stack)[i] = stack[i + 1]
  BY HeadTailProperties
<1>2. <<f>> \in Seq(Frame) /\ Len(<<f>>) = 1 /\ <<f>>[1] = f
  OBVIOUS
<1>3. Len(stack) \in Nat \ {0}
  BY EmptySeq, LenProperties
<1> QED BY <1>1, <1>2, <1>3, ConcatProperties DEF SetTop

\* A new call has the others below it.
LEMMA Push ==
  ASSUME stack \in Seq(Frame), NEW f \in Frame, stack' = <<f>> \o stack
  PROVE  /\ stack' \in Seq(Frame) /\ Len(stack') = Len(stack) + 1
         /\ stack'[1] = f
         /\ \A i \in 2..Len(stack') : stack'[i] = stack[i - 1]
<1>1. <<f>> \in Seq(Frame) /\ Len(<<f>>) = 1 /\ <<f>>[1] = f /\ Len(stack) \in Nat
  BY LenProperties
<1> QED BY <1>1, ConcatProperties

\* After a return the caller is the innermost call again.
LEMMA Pop ==
  ASSUME stack \in Seq(Frame), stack # <<>>, stack' = Tail(stack)
  PROVE  /\ stack' \in Seq(Frame) /\ Len(stack') = Len(stack) - 1
         /\ \A i \in 1..Len(stack') : stack'[i] = stack[i + 1]
BY HeadTailProperties

\* The innermost call is the first of the stack.
LEMMA TopIsFirst ==
  ASSUME stack \in Seq(Frame), stack # <<>>
  PROVE  Top = stack[1] /\ Top \in Frame /\ Len(stack) \in Nat /\ 1 \in 1..Len(stack) /\ 1 \in DOMAIN stack
BY HeadTailProperties, EmptySeq, LenProperties DEF Top

-----------------------------------------------------------------------------
(* Types *)

\* At most MaxDepth calls; all but the innermost are in their service or an ECA.
Depth == /\ Len(stack) <= MaxDepth
         /\ \A i \in 2..Len(stack) : stack[i].at \in {"body", "out", "return"}

\* A call that is about to run its service has a pass left.
TriesLeft == \A i \in 1..Len(stack) : stack[i].at \in {"begin", "try"} => stack[i].tries > 0

\* At least as many causes are saved as there are calls with a suspended transaction
\* (more only when one could not be suspended); c counts those from the bottom of the stack.
Counted(c) == /\ c \in [1..Len(stack) + 1 -> Nat]
              /\ c[Len(stack) + 1] = 0
              /\ \A i \in 1..Len(stack) : c[i] = IF HasSuspended(stack[i]) THEN c[i + 1] + 1 ELSE c[i + 1]
CausesFit == \E c : Counted(c) /\ c[1] <= Len(causes)

\* A call has nothing suspended before it has begun, and finds itself in its caller's transaction.
TInv == TypeOK /\ Depth /\ TriesLeft /\ CausesFit
        /\ \A i \in 1..Len(stack) : stack[i].at = "begin" => stack[i].parent = NoTx

\* The innermost call suspends, resumes, or does neither.
LEMMA TopFits ==
  ASSUME TypeOK, causes' \in Seq(BOOLEAN), CausesFit, stack # <<>>, NEW f \in Frame, SetTop(f),
         \/ HasSuspended(f) = HasSuspended(Top) /\ Len(causes') >= Len(causes)
         \/ HasSuspended(f) /\ ~HasSuspended(Top) /\ Len(causes') = Len(causes) + 1
         \/ ~HasSuspended(f) /\ HasSuspended(Top) /\ Len(causes') = Len(causes) - 1
  PROVE  CausesFit'
<1> stack \in Seq(Frame) /\ causes \in Seq(BOOLEAN)
  BY DEF TypeOK
<1>1. PICK c : Counted(c) /\ c[1] <= Len(causes)
  BY DEF CausesFit
<1>2. /\ Top = stack[1] /\ 1 \in 1..Len(stack) /\ Len(stack) \in Nat
      /\ Len(stack') = Len(stack) /\ stack'[1] = f
      /\ \A i \in 2..Len(stack) : stack'[i] = stack[i]
  BY TopIsFirst, TopOnly
<1> DEFINE d == [c EXCEPT ![1] = IF HasSuspended(f) THEN c[2] + 1 ELSE c[2]]
<1>3. c \in [1..Len(stack) + 1 -> Nat] /\ c[1] \in Nat /\ c[2] \in Nat /\ 1 # Len(stack) + 1
  <2>1. c \in [1..Len(stack) + 1 -> Nat]
    BY <1>1 DEF Counted
  <2>2. 1 \in 1..Len(stack) + 1 /\ 2 \in 1..Len(stack) + 1 /\ 1 # Len(stack) + 1
    BY <1>2
  <2> QED BY <2>1, <2>2
<1>4. c[1] = IF HasSuspended(Top) THEN c[2] + 1 ELSE c[2]
  BY <1>1, <1>2 DEF Counted
<1>5. d[1] <= Len(causes')
  BY <1>1, <1>3, <1>4, LenProperties
<1>6. ASSUME NEW i \in 1..Len(stack)
      PROVE  d[i] = IF HasSuspended(stack'[i]) THEN d[i + 1] + 1 ELSE d[i + 1]
  <2>1. i + 1 \in 2..Len(stack) + 1 /\ d[i + 1] = c[i + 1]
    BY <1>2, <1>3
  <2>2. CASE i = 1
    BY <2>1, <2>2, <1>2, <1>3
  <2>3. CASE i # 1
    <3>1. d[i] = c[i] /\ stack'[i] = stack[i]
      BY <2>3, <1>2, <1>3
    <3> QED BY <2>1, <3>1, <1>1 DEF Counted
  <2> QED BY <2>2, <2>3
<1>7. d \in [1..Len(stack) + 1 -> Nat] /\ d[Len(stack) + 1] = 0
  BY <1>1, <1>2, <1>3 DEF Counted
<1>8. /\ d \in [1..Len(stack') + 1 -> Nat] /\ d[Len(stack') + 1] = 0 /\ d[1] <= Len(causes')
      /\ \A i \in 1..Len(stack') : d[i] = IF HasSuspended(stack'[i]) THEN d[i + 1] + 1 ELSE d[i + 1]
  BY <1>2, <1>5, <1>6, <1>7
<1> HIDE DEF d
<1> QED BY <1>8 DEF CausesFit, Counted

\* A new call has suspended nothing.
LEMMA PushFits ==
  ASSUME TypeOK, CausesFit, NEW f \in Frame, stack' = <<f>> \o stack, f.parent = NoTx,
         UNCHANGED causes
  PROVE  CausesFit'
<1>1. PICK c : Counted(c) /\ c[1] <= Len(causes)
  BY DEF CausesFit
<1>2. /\ Len(stack') = Len(stack) + 1 /\ Len(stack) \in Nat /\ stack'[1] = f
      /\ \A i \in 2..Len(stack') : stack'[i] = stack[i - 1]
  BY Push, LenProperties DEF TypeOK
<1> DEFINE d == [i \in 1..Len(stack') + 1 |-> IF i = 1 THEN c[1] ELSE c[i - 1]]
<1>3. d \in [1..Len(stack') + 1 -> Nat] /\ d[Len(stack') + 1] = 0 /\ d[1] <= Len(causes')
  BY <1>1, <1>2 DEF Counted
<1>4. ASSUME NEW i \in 1..Len(stack')
      PROVE  d[i] = IF HasSuspended(stack'[i]) THEN d[i + 1] + 1 ELSE d[i + 1]
  <2>1. d[i + 1] = c[i]
    BY <1>2
  <2>2. CASE i = 1
    BY <1>2, <2>1, <2>2 DEF HasSuspended
  <2>3. CASE i # 1
    <3>1. i - 1 \in 1..Len(stack) /\ stack'[i] = stack[i - 1] /\ d[i] = c[i - 1] /\ (i - 1) + 1 = i
      BY <1>2, <2>3
    <3> HIDE DEF d
    <3> QED BY <2>1, <3>1, <1>1 DEF Counted
  <2> QED BY <2>2, <2>3
<1> QED BY <1>3, <1>4 DEF CausesFit, Counted, HasSuspended

\* A call that returns has resumed what it suspended.
LEMMA PopFits ==
  ASSUME TypeOK, CausesFit, InCall("return"), stack' = Tail(stack), UNCHANGED causes
  PROVE  CausesFit'
<1> stack # <<>> /\ Top.at = "return"
  BY DEF InCall
<1>1. PICK c : Counted(c) /\ c[1] <= Len(causes)
  BY DEF CausesFit
<1>2. /\ Len(stack') = Len(stack) - 1 /\ Len(stack) \in Nat /\ 1 \in 1..Len(stack) /\ Top = stack[1]
      /\ \A i \in 1..Len(stack') : stack'[i] = stack[i + 1]
  BY Pop, TopIsFirst DEF TypeOK
<1> DEFINE d == [i \in 1..Len(stack') + 1 |-> c[i + 1]]
<1>3. d \in [1..Len(stack') + 1 -> Nat] /\ d[Len(stack') + 1] = 0
  BY <1>1, <1>2 DEF Counted
<1>4. d[1] <= Len(causes')
  BY <1>1, <1>2 DEF Counted, HasSuspended
<1>5. ASSUME NEW i \in 1..Len(stack')
      PROVE  d[i] = IF HasSuspended(stack'[i]) THEN d[i + 1] + 1 ELSE d[i + 1]
  <2>1. i + 1 \in 1..Len(stack) /\ d[i] = c[i + 1] /\ d[i + 1] = c[(i + 1) + 1] /\ stack'[i] = stack[i + 1]
    BY <1>2
  <2> HIDE DEF d
  <2> QED BY <2>1, <1>1 DEF Counted
<1> QED BY <1>3, <1>4, <1>5 DEF CausesFit, Counted, HasSuspended

\* The counters of bounded events are numbers.
LEMMA CountsTypes ==
  ASSUME count \in [DOMAIN Events -> Nat], NEW E, Counts(E)
  PROVE  count' \in [DOMAIN Events -> Nat]
<1> DEFINE D == DOMAIN Events
<1>1. count \in [D -> Nat] /\ count' = [e \in D |-> IF e \in E THEN count[e] + 1 ELSE count[e]]
  BY DEF Counts
<1> HIDE DEF D
<1>2. count' \in [D -> Nat]
  BY <1>1
<1> QED BY <1>2 DEF D

\* None of them is ever set back, and the events of a step are counted.
LEMMA CountsGrow ==
  ASSUME TypeOK, [Next]_vars, NEW e \in DOMAIN Events
  PROVE  /\ count[e] \in Nat /\ count'[e] \in Nat /\ count'[e] >= count[e]
         /\ \A E : Counts(E) /\ e \in E => count'[e] = count[e] + 1
<1>1. count[e] \in Nat
  BY DEF TypeOK
<1>2. ASSUME NEW E, Counts(E)
      PROVE  count'[e] = IF e \in E THEN count[e] + 1 ELSE count[e]
  BY <1>2 DEF Counts
<1>3. count' = count \/ \E E : Counts(E)
  BY DEF Next, Call, Join, Begin, BeginFails, Try, Throws, Write, BodyEnds, Deadlock, DeadlockThenFault,
         Eca, CloseError, CloseOk, ResumeParent, ReturnEca, Return, Timeout,
         SuspendFails, CommitFails, ResumeFails, vars
<1> QED BY <1>1, <1>2, <1>3

\* The types of everything but the stack.
OtherTypes == /\ tx \in [TxIds -> Tx]
              /\ cur \in TxIds \cup {NoTx}
              /\ cause \in BOOLEAN
              /\ causes \in Seq(BOOLEAN)
              /\ users \in Seq(1..MaxDepth)
              /\ count \in [DOMAIN Events -> Nat]

\* A step of the innermost call.
LEMMA TopTypes ==
  ASSUME TInv, OtherTypes', stack # <<>>, NEW f \in Frame, SetTop(f),
         f.at # "begin", f.at = "try" => f.tries > 0,
         \/ HasSuspended(f) = HasSuspended(Top) /\ Len(causes') >= Len(causes)
         \/ HasSuspended(f) /\ ~HasSuspended(Top) /\ Len(causes') = Len(causes) + 1
         \/ ~HasSuspended(f) /\ HasSuspended(Top) /\ Len(causes') = Len(causes) - 1
  PROVE  TInv'
<1>1. /\ stack' \in Seq(Frame) /\ Len(stack') = Len(stack) /\ stack'[1] = f
      /\ \A i \in 2..Len(stack) : stack'[i] = stack[i]
      /\ Len(stack) \in Nat
  BY TopOnly, TopIsFirst DEF TInv, TypeOK
<1>2. TypeOK'
  BY <1>1 DEF TypeOK, OtherTypes
<1>3. Depth' /\ TriesLeft'
  BY <1>1 DEF TInv, Depth, TriesLeft
<1>4. CausesFit'
  BY TopFits DEF TInv, OtherTypes
<1>5. \A i \in 1..Len(stack') : stack'[i].at = "begin" => stack'[i].parent = NoTx
  BY <1>1 DEF TInv
<1> QED BY <1>2, <1>3, <1>4, <1>5 DEF TInv

\* A step of the innermost call that suspends and resumes nothing.
LEMMA TopTypesSame ==
  ASSUME TInv, OtherTypes', stack # <<>>, NEW f \in Frame, SetTop(f),
         f.at \notin {"begin", "return"}, f.at = "try" => f.tries > 0,
         Top.at # "return", f.parent = Top.parent, causes' = causes
  PROVE  TInv'
BY TopTypes DEF HasSuspended

\* What the operators of TransactionUtil do to the transactions keeps their types.
LEMMA StatusTypes ==
  ASSUME tx \in [TxIds -> Tx], NEW t \in TxIds, NEW s \in Statuses
  PROVE  Status(t, s) \in [TxIds -> Tx]
BY DEF Status, Tx

\* Rolling back, or marking for rollback, keeps the types.
LEMMA RollbackTypes ==
  ASSUME TypeOK, NEW b \in BOOLEAN, NEW o \in Outcomes, Rollback(b, o)
  PROVE  /\ tx' \in [TxIds -> Tx] /\ cur' \in TxIds \cup {NoTx} /\ cause' \in BOOLEAN
<1>1. tx \in [TxIds -> Tx] /\ cur \in TxIds \cup {NoTx} /\ cause \in BOOLEAN
  BY DEF TypeOK
<1>2. \A s \in Statuses : cur # NoTx => Status(cur, s) \in [TxIds -> Tx]
  BY <1>1, StatusTypes
<1>3. "marked" \in Statuses /\ o \in Statuses
  BY DEF Statuses, Outcomes
<1> QED BY <1>1, <1>2, <1>3 DEF Rollback, MarkRollback

\* What the rollback after a deadlock makes of the transactions.
LEMMA UndoneTypes ==
  ASSUME tx \in [TxIds -> Tx]
  PROVE  Undone \in [TxIds -> Tx]
<1> DEFINE u == [tx EXCEPT ![cur].status = "rolledback", ![cur].failed = @ \/ Top.wrote = cur]
<1>1. DOMAIN u = TxIds /\ u = [t \in TxIds |-> u[t]]
  OBVIOUS
<1>2. ASSUME NEW t \in TxIds PROVE u[t] \in Tx
  <2>1. tx[t] \in Tx
    OBVIOUS
  <2>2. CASE t # cur
    BY <2>1, <2>2
  <2>3. CASE t = cur
    <3>1. u[t] = [tx[t] EXCEPT !.status = "rolledback", !.failed = @ \/ Top.wrote = cur]
      BY <2>3
    <3> HIDE DEF u
    <3> QED BY <2>1, <3>1 DEF Tx, Statuses
  <2> QED BY <2>2, <2>3
<1> HIDE DEF u
<1>3. u \in [TxIds -> Tx]
  BY <1>1, <1>2
<1> QED BY <1>3 DEF u, Undone

\* A call that is about to run its service has a pass to take away.
LEMMA PassIsLeft ==
  ASSUME TypeOK, TriesLeft, stack # <<>>, Top.at = "try"
  PROVE  Top.tries - 1 \in 0..LockRetries
<1>1. Top = stack[1] /\ 1 \in 1..Len(stack) /\ Top \in Frame
  BY TopIsFirst DEF TypeOK
<1>2. Top.tries > 0
  BY <1>1 DEF TriesLeft
<1>3. Top.tries \in 0..LockRetries
  BY <1>1 DEF Frame
<1> QED BY <1>2, <1>3

\* popUserIdentifier leaves a stack of users.
LEMMA PopTypes ==
  ASSUME users \in Seq(1..MaxDepth), PopUser
  PROVE  users' \in Seq(1..MaxDepth)
BY HeadTailProperties DEF PopUser

\* Every step of the innermost call that neither begins nor ends a transaction.
LEMMA PlainTypes ==
  ASSUME TInv, Join \/ Try \/ Throws \/ Write \/ (\E r \in {"ok", "error"} : BodyEnds(r) \/ Eca(r))
  PROVE  TInv'
<1> stack # <<>> /\ Top \in Frame /\ stack \in Seq(Frame) /\ TypeOK /\ OtherTypes
  BY TopIsFirst DEF InCall, Join, Try, Throws, Write, BodyEnds, Eca, TInv, TypeOK, OtherTypes
<1>t. Top.tries \in 0..LockRetries /\ (Top.at \in {"begin", "try"} => Top.tries > 0) /\ LockRetries \in Nat
  BY TopIsFirst DEF TInv, TriesLeft, Frame
<1> USE DEF Frame, Places, Results, InCall, GoOn
<1>1. CASE Join
  <2>1. [Top EXCEPT !.at = "try"] \in Frame
    OBVIOUS
  <2> QED BY <1>1, <1>t, <2>1, TopTypesSame DEF Join, OtherTypes
<1>2. CASE Try
  <2>1. [Top EXCEPT !.at = "body", !.tries = @ - 1, !.wrote = NoTx] \in Frame
    <3>1. Top.tries - 1 \in 0..LockRetries
      BY <1>2, <1>t DEF Try
    <3> QED BY <3>1
  <2>2. Len(stack) \in 1..MaxDepth
    BY TopIsFirst DEF TInv, Depth
  <2>3. users' \in Seq(1..MaxDepth)
    <3>1. <<Len(stack)>> \in Seq(1..MaxDepth)
      BY <2>2
    <3> QED BY <1>2, <3>1, ConcatProperties DEF Try, OtherTypes
  <2>4. OtherTypes'
    BY <1>2, <2>3 DEF Try, OtherTypes
  <2> DEFINE f == [Top EXCEPT !.at = "body", !.tries = @ - 1, !.wrote = NoTx]
  <2>5. /\ f \in Frame /\ SetTop(f) /\ f.at = "body" /\ f.parent = Top.parent
        /\ Top.at # "return" /\ causes' = causes
    BY <1>2, <2>1 DEF Try
  <2> HIDE DEF f
  <2> QED BY <2>4, <2>5, TopTypesSame
<1>3. CASE Throws
  <2>1. [Top EXCEPT !.at = "thrown", !.result = "thrown"] \in Frame
    OBVIOUS
  <2> QED BY <1>3, <2>1, TopTypesSame DEF Throws, OtherTypes
<1>4. CASE Write
  <2>1. [Top EXCEPT !.wrote = cur] \in Frame
    BY DEF OtherTypes
  <2> QED BY <1>4, <2>1, TopTypesSame DEF Write, OtherTypes
<1>5. ASSUME NEW r \in {"ok", "error"}, BodyEnds(r) PROVE TInv'
  <2>1. [Top EXCEPT !.at = "out", !.result = r] \in Frame
    OBVIOUS
  <2> QED BY <1>5, <2>1, TopTypesSame DEF BodyEnds, OtherTypes
<1>6. ASSUME NEW r \in {"ok", "error"}, Eca(r) PROVE TInv'
  <2>1. [Top EXCEPT !.result = r] \in Frame
    OBVIOUS
  <2> QED BY <1>6, <2>1, TopTypesSame DEF Eca, OtherTypes
<1> QED BY <1>1, <1>2, <1>3, <1>4, <1>5, <1>6

\* Every step of the innermost call that begins or ends a transaction, or resumes one.
LEMMA TransactionTypes ==
  ASSUME TInv, \/ Begin \/ BeginFails \/ Deadlock \/ DeadlockThenFault
               \/ CloseError \/ CloseOk \/ ResumeParent
               \/ SuspendFails \/ CommitFails \/ ResumeFails
               \/ \E r \in Results : ReturnEca(r)
  PROVE  TInv'
<1> stack # <<>> /\ Top \in Frame /\ stack \in Seq(Frame) /\ TypeOK /\ OtherTypes
  BY TopIsFirst DEF InCall, Begin, BeginFails, Deadlock, DeadlockThenFault, CloseError, CloseOk,
                    ResumeParent, SuspendFails, CommitFails, ResumeFails, ReturnEca,
                    TInv, TypeOK, OtherTypes
<1>t. /\ Top.tries \in 0..LockRetries /\ (Top.at \in {"begin", "try"} => Top.tries > 0)
      /\ LockRetries \in Nat /\ (Top.at = "begin" => Top.parent = NoTx)
      /\ Top.began \in BOOLEAN
  BY TopIsFirst DEF TInv, TriesLeft, Frame
<1>c. Len(causes) \in Nat
  BY LenProperties DEF OtherTypes
<1>s. {"active", "committed", "rolledback"} \subseteq Statuses
  BY DEF Statuses
<1>z. cur \in TxIds \cup {NoTx}
  BY DEF OtherTypes
<1>k. Suspends => causes' \in Seq(BOOLEAN) /\ Len(causes') = Len(causes) + 1 /\ cause' \in BOOLEAN
  <2>1. <<cause>> \in Seq(BOOLEAN) /\ Len(<<cause>>) = 1 /\ causes \in Seq(BOOLEAN)
    BY DEF OtherTypes
  <2>2. <<cause>> \o causes \in Seq(BOOLEAN) /\ Len(<<cause>> \o causes) = Len(<<cause>>) + Len(causes)
    BY <2>1, ConcatProperties
  <2>3. Len(<<cause>> \o causes) = Len(causes) + 1
    BY <2>1, <2>2, <1>c
  <2> QED BY <2>2, <2>3, Zenon DEF Suspends
<1>1. CASE Begin
  <2> DEFINE f == [Top EXCEPT !.at = "try", !.began = TRUE, !.parent = cur]
  <2>1. Top.at = "begin" /\ Top.parent = NoTx /\ SetTop(f)
    BY <1>1, <1>t DEF Begin, InCall
  <2>2. f \in Frame /\ f.at = "try" /\ f.tries > 0 /\ f.parent = cur
    BY <2>1, <1>z, <1>t DEF Frame, Places
  <2> HIDE DEF f
  <2>3. /\ causes' \in Seq(BOOLEAN) /\ cause' \in BOOLEAN
        /\ Len(causes') = IF cur # NoTx THEN Len(causes) + 1 ELSE Len(causes)
    BY <1>1, <1>k DEF Begin, OtherTypes
  <2>4. tx' \in [TxIds -> Tx] /\ cur' \in TxIds \cup {NoTx}
    BY <1>1, <1>s, StatusTypes DEF Begin, OtherTypes
  <2>5. OtherTypes'
    BY <1>1, <2>3, <2>4 DEF Begin, OtherTypes
  <2>6. HasSuspended(f) <=> cur # NoTx
    BY <2>2 DEF HasSuspended
  <2>7. HasSuspended(Top) = FALSE /\ HasSuspended(f) \in BOOLEAN
    BY <2>1 DEF HasSuspended
  <2>8. f.at # "begin"
    BY <2>2
  <2>9. \/ HasSuspended(f) = HasSuspended(Top) /\ Len(causes') >= Len(causes)
        \/ HasSuspended(f) /\ ~HasSuspended(Top) /\ Len(causes') = Len(causes) + 1
    <3>1. CASE cur # NoTx
      BY <2>3, <2>6, <2>7, <3>1
    <3>2. CASE cur = NoTx
      <4>1. Len(causes') >= Len(causes)
        BY <2>3, <1>c, <3>2
      <4>2. HasSuspended(f) = FALSE /\ HasSuspended(Top) = FALSE
        BY <2>6, <2>7, <3>2
      <4> QED BY <4>1, <4>2
    <3> QED BY <3>1, <3>2
  <2> QED BY <2>1, <2>2, <2>5, <2>8, <2>9, TopTypes
<1>2. CASE BeginFails
  <2> DEFINE f == [Top EXCEPT !.at = "resume", !.result = "thrown", !.parent = cur]
  <2>1. Top.at = "begin" /\ Top.parent = NoTx /\ SetTop(f)
    BY <1>2, <1>t DEF BeginFails, InCall
  <2>2. f \in Frame /\ f.at = "resume" /\ f.parent = cur
    BY <2>1, <1>z DEF Frame, Places, Results
  <2> HIDE DEF f
  <2>3. /\ causes' \in Seq(BOOLEAN) /\ cause' \in BOOLEAN
        /\ Len(causes') = IF cur # NoTx THEN Len(causes) + 1 ELSE Len(causes)
    BY <1>2, <1>k DEF BeginFails, OtherTypes
  <2>5. OtherTypes'
    BY <1>2, <2>3, CountsTypes DEF BeginFails, OtherTypes
  <2>6. HasSuspended(f) <=> cur # NoTx
    BY <2>2 DEF HasSuspended
  <2>7. HasSuspended(Top) = FALSE /\ HasSuspended(f) \in BOOLEAN
    BY <2>1 DEF HasSuspended
  <2>8. f.at # "begin" /\ f.at # "try"
    BY <2>2
  <2>9. \/ HasSuspended(f) = HasSuspended(Top) /\ Len(causes') >= Len(causes)
        \/ HasSuspended(f) /\ ~HasSuspended(Top) /\ Len(causes') = Len(causes) + 1
    <3>1. CASE cur # NoTx
      BY <2>3, <2>6, <2>7, <3>1
    <3>2. CASE cur = NoTx
      <4>1. Len(causes') >= Len(causes)
        BY <2>3, <1>c, <3>2
      <4>2. HasSuspended(f) = FALSE /\ HasSuspended(Top) = FALSE
        BY <2>6, <2>7, <3>2
      <4> QED BY <4>1, <4>2
    <3> QED BY <3>1, <3>2
  <2> QED BY <2>1, <2>2, <2>5, <2>8, <2>9, TopTypes
<1>3. CASE Deadlock
  <2> DEFINE f == [Top EXCEPT !.at = PassAfterDeadlock, !.result = "ok"]
  <2>1. Top.at = "body" /\ SetTop(f)
    BY <1>3 DEF Deadlock, InCall
  <2>2. f \in Frame /\ f.at \in {"try", "out"} /\ (f.at = "try" => f.tries > 0) /\ f.parent = Top.parent
    BY <1>t DEF Frame, Places, Results, PassAfterDeadlock
  <2> HIDE DEF f
  <2>3. tx' \in [TxIds -> Tx] /\ cur' \in TxIds \cup {NoTx} /\ cause' \in BOOLEAN
    <3>1. PICK t \in TxIds : cur' = t /\ tx' = [Undone EXCEPT ![t].status = "active"]
      BY <1>3 DEF Deadlock
    <3>2. Undone \in [TxIds -> Tx]
      BY UndoneTypes DEF OtherTypes
    <3>4. tx' \in [TxIds -> Tx]
      BY <3>1, <3>2, <1>s DEF Tx
    <3> QED BY <3>1, <3>4, <1>3 DEF Deadlock
  <2>4. OtherTypes'
    BY <1>3, <2>3, CountsTypes DEF Deadlock, OtherTypes
  <2>5. f.at \notin {"begin", "return"} /\ Top.at # "return" /\ causes' = causes
    BY <1>3, <2>1, <2>2 DEF Deadlock
  <2> QED BY <2>1, <2>2, <2>4, <2>5, TopTypesSame
<1>4. CASE DeadlockThenFault
  <2> DEFINE f == [Top EXCEPT !.at = "thrown", !.result = "thrown"]
  <2>1. f \in Frame /\ SetTop(f) /\ f.at = "thrown" /\ f.parent = Top.parent
        /\ Top.at # "return" /\ causes' = causes
    BY <1>4 DEF DeadlockThenFault, Frame, Places, Results, InCall
  <2> HIDE DEF f
  <2>2. tx' \in [TxIds -> Tx] /\ cur' \in TxIds \cup {NoTx} /\ cause' \in BOOLEAN
    <3>1. PICK o \in Outcomes : Rollback(TRUE, o)
      BY <1>4 DEF DeadlockThenFault
    <3> QED BY <3>1, RollbackTypes
  <2>3. count' \in [DOMAIN Events -> Nat]
    BY <1>4, CountsTypes DEF DeadlockThenFault, OtherTypes
  <2>4. OtherTypes'
    BY <1>4, <2>2, <2>3 DEF DeadlockThenFault, OtherTypes
  <2> QED BY <2>1, <2>4, TopTypesSame
<1>5. CASE CloseError
  <2> DEFINE f == [Top EXCEPT !.at = "resume"]
  <2>1. f \in Frame /\ SetTop(f) /\ f.at = "resume" /\ f.parent = Top.parent
        /\ Top.at # "return" /\ causes' = causes
    BY <1>5 DEF CloseError, Frame, Places, InCall, GoOn
  <2> HIDE DEF f
  <2>2. tx' \in [TxIds -> Tx] /\ cur' \in TxIds \cup {NoTx} /\ cause' \in BOOLEAN
    <3>1. PICK o \in Outcomes : Rollback(Top.began, o)
      BY <1>5 DEF CloseError, Outcomes
    <3> QED BY <1>t, <3>1, RollbackTypes
  <2>c. count' \in [DOMAIN Events -> Nat]
    BY <1>5, CountsTypes DEF CloseError, OtherTypes
  <2>3. OtherTypes'
    BY <1>5, <2>2, <2>c, PopTypes DEF CloseError, OtherTypes
  <2> QED BY <2>1, <2>3, TopTypesSame
<1>6. CASE CloseOk \/ CommitFails
  <2>1. PICK f \in Frame : SetTop(f) /\ f.at = "resume" /\ f.parent = Top.parent
    <3> DEFINE g == [Top EXCEPT !.at = "resume"]
               h == [Top EXCEPT !.at = "resume", !.result = "thrown"]
    <3>1. g \in Frame /\ g.at = "resume" /\ g.parent = Top.parent
      BY DEF Frame, Places
    <3>2. h \in Frame /\ h.at = "resume" /\ h.parent = Top.parent
      BY DEF Frame, Places, Results
    <3>3. SetTop(g) \/ SetTop(h)
      BY <1>6 DEF CloseOk, CommitFails, Refused, GoOn
    <3> HIDE DEF g, h
    <3> QED BY <3>1, <3>2, <3>3
  <2>2. Top.at # "return" /\ causes' = causes /\ PopUser
    BY <1>6 DEF CloseOk, CommitFails, InCall
  <2>c. count' \in [DOMAIN Events -> Nat]
    BY <1>6, CountsTypes DEF CloseOk, CommitFails, OtherTypes
  <2>3. tx' \in [TxIds -> Tx] /\ cur' \in TxIds \cup {NoTx} /\ cause' \in BOOLEAN
    <3>1. Ends("committed") \/ Ends("rolledback") \/ UNCHANGED <<tx, cur, cause>>
      BY <1>6 DEF CloseOk, CommitFails
    <3>2. \A s \in {"committed", "rolledback"} : Status(cur, s) \in [TxIds -> Tx]
      <4>1. CASE cur \in TxIds
        BY <4>1, <1>s, StatusTypes DEF OtherTypes
      <4>2. CASE cur = NoTx
        <5>1. cur \notin TxIds /\ tx \in [TxIds -> Tx]
          BY <4>2 DEF TxIds, NoTx, OtherTypes
        <5>2. ASSUME NEW v PROVE [tx EXCEPT ![cur] = v] = tx
          BY <5>1
        <5> QED BY <5>1, <5>2 DEF Status
      <4> QED BY <4>1, <4>2, <1>z
    <3> QED BY <3>1, <3>2 DEF Ends, OtherTypes
  <2>4. OtherTypes'
    BY <2>2, <2>3, <2>c, PopTypes DEF OtherTypes
  <2> QED BY <2>1, <2>2, <2>4, TopTypesSame
<1>7. CASE ResumeParent \/ ResumeFails
  <2>1. PICK f \in Frame : SetTop(f) /\ f.at = "return" /\ f.parent = Top.parent
    <3>1. PICK v \in Results : SetTop([Top EXCEPT !.at = "return", !.reply = v])
      BY <1>7 DEF ResumeParent, ResumeFails, Finish, Frame, Results
    <3> DEFINE g == [Top EXCEPT !.at = "return", !.reply = v]
    <3>2. g \in Frame /\ SetTop(g) /\ g.at = "return" /\ g.parent = Top.parent
      BY <3>1 DEF Frame, Places
    <3> HIDE DEF g
    <3> QED BY <3>2
  <2>2. Top.parent \in TxIds \cup {NoTx} /\ Top.at = "resume"
    BY <1>7 DEF Frame, ResumeParent, ResumeFails, InCall
  <2>c. count' \in [DOMAIN Events -> Nat]
    BY <1>7, CountsTypes DEF ResumeParent, ResumeFails, OtherTypes
  <2>3. CASE Top.parent = NoTx
    <3>1. UNCHANGED <<cur, cause, causes, tx, users>>
      BY <1>7, <2>3 DEF ResumeParent, ResumeFails
    <3>2. OtherTypes'
      BY <2>c, <3>1 DEF OtherTypes
    <3>3. HasSuspended(f) = FALSE /\ HasSuspended(Top) = FALSE
      BY <2>1, <2>3 DEF HasSuspended
    <3>4. f.at # "begin" /\ f.at # "try"
      BY <2>1
    <3>5. HasSuspended(f) = HasSuspended(Top) /\ Len(causes') >= Len(causes)
      <4>1. causes' = causes
        BY <3>1
      <4>2. Len(causes') >= Len(causes)
        BY <4>1, <1>c
      <4> QED BY <4>2, <3>3, Zenon
    <3> QED BY <2>1, <3>2, <3>4, <3>5, TopTypes
  <2>4. CASE Top.parent # NoTx
    <3>1. PICK c : Counted(c) /\ c[1] <= Len(causes)
      BY DEF TInv, CausesFit
    <3>2. Top = stack[1] /\ 1 \in 1..Len(stack) /\ HasSuspended(Top)
      BY <2>2, <2>4, TopIsFirst DEF HasSuspended
    <3>3. c[1] = c[2] + 1 /\ c[2] \in Nat
      BY <3>1, <3>2 DEF Counted
    <3>4. causes # <<>>
      <4>1. Len(<<>>) = 0
        OBVIOUS
      <4>2. Len(causes) # 0
        BY <3>1, <3>3
      <4> QED BY <4>1, <4>2
    <3>5. /\ cur' \in {Top.parent, NoTx} /\ cause' = Head(causes) /\ causes' = Tail(causes)
          /\ UNCHANGED <<tx, users>>
      BY <1>7, <2>4 DEF ResumeParent, ResumeFails
    <3>6. cause' \in BOOLEAN /\ causes' \in Seq(BOOLEAN) /\ Len(causes') = Len(causes) - 1
      BY <3>4, <3>5, HeadTailProperties DEF OtherTypes
    <3>7. OtherTypes'
      BY <2>2, <2>c, <3>5, <3>6 DEF OtherTypes
    <3>8. HasSuspended(f) = FALSE /\ f.at # "begin" /\ f.at # "try"
      BY <2>1 DEF HasSuspended
    <3> QED BY <2>1, <3>2, <3>6, <3>7, <3>8, TopTypes
  <2> QED BY <2>3, <2>4
<1>8. CASE SuspendFails
  <2> DEFINE f == [Top EXCEPT !.at = "resume", !.result = "thrown"]
  <2>1. f \in Frame /\ SetTop(f) /\ f.at = "resume" /\ f.parent = NoTx /\ Top.parent = NoTx
    BY <1>8, <1>t DEF SuspendFails, InCall, Frame, Places, Results
  <2> HIDE DEF f
  <2>2. causes' \in Seq(BOOLEAN) /\ cause' \in BOOLEAN /\ Len(causes') = Len(causes) + 1
    BY <1>8, <1>k DEF SuspendFails
  <2>3. OtherTypes'
    BY <1>8, <2>2, CountsTypes DEF SuspendFails, OtherTypes
  <2>4. HasSuspended(f) = HasSuspended(Top) /\ Len(causes') >= Len(causes)
    BY <2>1, <2>2, <1>c DEF HasSuspended
  <2>5. f.at # "begin" /\ f.at # "try"
    BY <2>1
  <2> QED BY <2>1, <2>3, <2>4, <2>5, TopTypes
<1>9. ASSUME NEW r \in Results, ReturnEca(r) PROVE TInv'
  <2> DEFINE f == [Top EXCEPT !.reply = r]
  <2>1. f \in Frame /\ SetTop(f) /\ f.at = "return" /\ Top.at = "return"
    BY <1>9 DEF ReturnEca, InCall, Frame
  <2> HIDE DEF f
  <2>2. OtherTypes' /\ causes' = causes
    BY <1>9 DEF ReturnEca, OtherTypes
  <2>3. HasSuspended(f) = HasSuspended(Top) /\ Len(causes') >= Len(causes)
    BY <2>1, <2>2, <1>c DEF HasSuspended
  <2>4. f.at # "begin" /\ f.at # "try"
    BY <2>1
  <2> QED BY <2>1, <2>2, <2>3, <2>4, TopTypes
<1> QED BY <1>1, <1>2, <1>3, <1>4, <1>5, <1>6, <1>7, <1>8, <1>9

\* A call puts a call that has begun nothing on the stack.
LEMMA CallTypes ==
  ASSUME TInv, NEW kind \in Kinds, NEW login \in Logins, Call(kind, login)
  PROVE  TInv'
<1> DEFINE f == [at |-> "begin", kind |-> kind, login |-> login, began |-> FALSE, parent |-> NoTx,
                 tries |-> FullTries, result |-> "ok", reply |-> "ok", wrote |-> NoTx, entry |-> cur]
<1>0. TypeOK /\ Depth /\ TriesLeft /\ CausesFit /\ stack \in Seq(Frame) /\ Len(stack) \in Nat
  BY LenProperties DEF TInv, TypeOK
<1>1. /\ f \in Frame /\ f.parent = NoTx /\ f.tries > 0 /\ f.at = "begin"
  BY <1>0 DEF Frame, Places, Results, FullTries, TypeOK
<1>2. stack' = <<f>> \o stack /\ causes' = causes
  BY DEF Call
<1> HIDE DEF f
<1>3. /\ stack' \in Seq(Frame) /\ Len(stack') = Len(stack) + 1 /\ stack'[1] = f
      /\ \A i \in 2..Len(stack') : stack'[i] = stack[i - 1]
  BY <1>0, <1>1, <1>2, Push
<1>4. TypeOK'
  BY <1>0, <1>3, CountsTypes DEF TypeOK, Call
<1>5. CausesFit'
  BY <1>0, <1>1, <1>2, PushFits
<1>6. Len(stack') <= MaxDepth
  BY <1>0, <1>3 DEF Call
<1>7. ASSUME NEW i \in 2..Len(stack') PROVE stack'[i].at \in {"body", "out", "return"}
  <2>1. stack'[i] = stack[i - 1] /\ i - 1 \in 1..Len(stack)
    BY <1>0, <1>3
  <2>2. CASE i = 2
    <3>1. stack # <<>> /\ Top = stack[1]
      BY <2>1, <2>2, <1>0, TopIsFirst
    <3> QED BY <2>1, <2>2, <3>1 DEF Call, MayCall
  <2>3. CASE i # 2
    BY <2>1, <2>3, <1>0 DEF Depth
  <2> QED BY <2>2, <2>3
<1>8. ASSUME NEW i \in 1..Len(stack')
      PROVE  /\ stack'[i].at \in {"begin", "try"} => stack'[i].tries > 0
             /\ stack'[i].at = "begin" => stack'[i].parent = NoTx
  <2>1. CASE i = 1
    BY <2>1, <1>1, <1>3
  <2>2. CASE i # 1
    <3>1. i \in 2..Len(stack')
      BY <2>2, <1>0, <1>3
    <3> QED BY <3>1, <1>7
  <2> QED BY <2>1, <2>2
<1>9. Depth'
  BY <1>6, <1>7 DEF Depth
<1>10. TriesLeft'
  BY <1>8 DEF TriesLeft
<1> QED BY <1>4, <1>5, <1>8, <1>9, <1>10 DEF TInv

\* A return takes the innermost call off, and leaves the results in its transaction.
LEMMA ReturnTypes == ASSUME TInv, Return PROVE TInv'
<1>0. /\ TypeOK /\ Depth /\ TriesLeft /\ CausesFit /\ stack \in Seq(Frame) /\ Len(stack) \in Nat \ {0}
      /\ stack # <<>>
  BY EmptySeq DEF TInv, TypeOK, Return, InCall
<1>1. /\ stack' \in Seq(Frame) /\ Len(stack') = Len(stack) - 1
      /\ \A i \in 1..Len(stack') : stack'[i] = stack[i + 1]
  BY <1>0, Pop DEF Return
<1>2. tx' \in [TxIds -> Tx]
  <2>1. IsError(Top.result) \in BOOLEAN /\ (Top.began /\ ~IsError(Top.result)) \in BOOLEAN
    BY DEF IsError
  <2>2. ASSUME NEW t \in TxIds, Top.wrote = t
        PROVE  [tx[t] EXCEPT !.failed = @ \/ IsError(Top.result),
                             !.promised = @ \/ (Top.began /\ ~IsError(Top.result))] \in Tx
    <3>1. tx[t] \in Tx
      BY <1>0 DEF TypeOK
    <3> QED BY <3>1 DEF Tx
  <2>3. \A t \in TxIds : tx[t] \in Tx
    BY <1>0 DEF TypeOK
  <2> QED BY <2>2, <2>3 DEF Return
<1>3. TypeOK'
  BY <1>0, <1>1, <1>2 DEF TypeOK, Return
<1>4. CausesFit'
  BY <1>0, PopFits DEF Return
<1>5. ASSUME NEW i \in 1..Len(stack')
      PROVE  stack'[i] = stack[i + 1] /\ i + 1 \in 2..Len(stack) /\ i + 1 \in 1..Len(stack)
  BY <1>0, <1>1
<1>6. Depth'
  BY <1>0, <1>1, <1>5 DEF Depth
<1>7. TriesLeft'
  BY <1>0, <1>5 DEF TriesLeft
<1>8. \A i \in 1..Len(stack') : stack'[i].at = "begin" => stack'[i].parent = NoTx
  BY <1>5 DEF TInv
<1> QED BY <1>3, <1>4, <1>6, <1>7, <1>8 DEF TInv

\* Every step keeps the types.
LEMMA TypeStep == TInv /\ [Next]_vars => TInv'
<1> SUFFICES ASSUME TInv, [Next]_vars PROVE TInv'
  OBVIOUS
<1>1. CASE UNCHANGED vars
  BY <1>1 DEF vars, TInv, TypeOK, Depth, TriesLeft, CausesFit, Counted
<1>2. CASE Timeout
  <2>1. tx' \in [TxIds -> Tx]
    <3>1. "doomed" \in Statuses
      BY DEF Statuses
    <3> QED BY <1>2, <3>1, StatusTypes DEF Timeout, TInv, TypeOK
  <2> QED BY <1>2, <2>1, CountsTypes DEF Timeout, TInv, TypeOK, Depth, TriesLeft, CausesFit, Counted
<1> QED BY <1>1, <1>2, CallTypes, ReturnTypes, PlainTypes, TransactionTypes DEF Next

\* And so does the beginning.
LEMMA InitTypes == Init => TInv
<1> SUFFICES ASSUME Init PROVE TInv
  OBVIOUS
<1>1. TypeOK
  <2>1. UnusedTx \in Tx
    BY DEF UnusedTx, Tx, Statuses
  <2>2. <<>> \in Seq(BOOLEAN) /\ <<>> \in Seq(Frame) /\ <<>> \in Seq(1..MaxDepth)
    BY EmptySeq
  <2> QED BY <2>1, <2>2 DEF Init, TypeOK
<1>2. Len(stack) = 0 /\ Len(causes) = 0
  BY DEF Init
<1>3. Counted([i \in 1..1 |-> 0])
  BY <1>2 DEF Counted
<1>4. CausesFit
  BY <1>2, <1>3 DEF CausesFit
<1> QED BY <1>1, <1>2, <1>4 DEF TInv, Depth, TriesLeft

\* TypeOK holds in every reachable state.
THEOREM TypeCorrect == Spec => []TypeOK
<1>1. TInv => TypeOK
  BY DEF TInv
<1> QED BY <1>1, InitTypes, TypeStep, PTL DEF Spec

-----------------------------------------------------------------------------
(* The nesting of transactions *)

\* The steps in which the transaction manager works.
ManagerFails == SuspendFails \/ CommitFails \/ ResumeFails
Calm == Next /\ ~ManagerFails

\* While it has worked, there have been no others.
LEMMA CalmSteps ==
  ASSUME TypeOK, [Next]_vars, TxManagerWorks'
  PROVE  TxManagerWorks /\ [Calm]_vars
<1>1. "manager" \in DOMAIN Events
  BY DEF Events
<1>2. count["manager"] = 0 /\ \A E : Counts(E) => "manager" \notin E
  <2> DEFINE old == count["manager"]
             new == count'["manager"]
  <2>1. /\ old \in Nat /\ new \in Nat /\ new >= old /\ new = 0
        /\ \A E : Counts(E) /\ "manager" \in E => new = old + 1
    BY <1>1, CountsGrow DEF TxManagerWorks
  <2> HIDE DEF old, new
  <2>2. old = 0 /\ \A E : Counts(E) => "manager" \notin E
    BY <2>1
  <2> QED BY <2>2 DEF old
<1>3. ~ManagerFails
  BY <1>2 DEF ManagerFails, SuspendFails, CommitFails, ResumeFails
<1> QED BY <1>2, <1>3 DEF TxManagerWorks, Calm

Live == {"active", "doomed", "marked"}
Over == {"rolledback", "lost"}
Dead == {"marked", "rolledback", "lost"}
Working == {"try", "body", "out", "thrown"}

\* A call works in the transaction of its caller, or in one that it has begun
\* itself and in which no other call has been made that is below it.
Nested(i) ==
  LET f == stack[i] IN
  /\ f.at = "begin" => ~f.began /\ f.parent = NoTx /\ TxOf(i) = f.entry
  /\ f.at \in Working =>
       IF f.began THEN /\ f.parent = f.entry
                       /\ f.at # "thrown" => TxOf(i) # NoTx
                       /\ TxOf(i) # NoTx => \A j \in i..Len(stack) : stack[j].entry # TxOf(i)
                  ELSE f.parent = NoTx /\ TxOf(i) = f.entry
  /\ f.at = "resume" => IF f.parent # NoTx THEN f.parent = f.entry ELSE TxOf(i) = f.entry
  /\ f.at = "return" => TxOf(i) = f.entry

\* The transactions of the thread and of all calls can still be continued.
AllLive == /\ cur # NoTx => tx[cur].status \in Live
           /\ \A i \in 1..Len(stack) : stack[i].entry # NoTx => tx[stack[i].entry].status \in Live

NInv == TInv /\ AllLive /\ \A i \in 1..Len(stack) : Nested(i)

\* What a step may do to a transaction: only the call that has begun the current one ends it.
StatusStep ==
  \A t \in TxIds :
    LET a == tx[t].status
        b == tx'[t].status
    IN \/ a = b
       \/ a = "unused" /\ b = "active"
       \/ a = "active" /\ b = "doomed"
       \/ a \in Live /\ b = "marked"
       \/ /\ t = cur /\ a \in Live
          /\ stack # <<>> /\ Top.began /\ Top.at \in Working
          /\ b \in Over \/ (a = "active" /\ b = "committed")

\* The work of a call is failed where the call returns an error or deadlocks,
\* and it is promised where the call returns a success.
HistoryStep ==
  \A t \in TxIds :
    /\ \/ tx'[t].failed = tx[t].failed
       \/ Return /\ Top.wrote = t /\ tx'[t].failed = (tx[t].failed \/ IsError(Top.result))
       \/ Deadlock /\ t = cur /\ tx'[t].status = "rolledback"
    /\ \/ tx'[t].promised = tx[t].promised
       \/ Return /\ Top.wrote = t /\ tx'[t].promised = (tx[t].promised \/ (Top.began /\ ~IsError(Top.result)))

\* Changing the status of one transaction.
LEMMA StatusChange ==
  ASSUME tx \in [TxIds -> Tx], NEW u \in TxIds, NEW s, tx' = Status(u, s)
  PROVE  /\ \A t \in TxIds : tx'[t].failed = tx[t].failed /\ tx'[t].promised = tx[t].promised
         /\ \A t \in TxIds \ {u} : tx'[t] = tx[t]
         /\ tx'[u].status = s
BY DEF Status, Tx

\* Nothing else changes the status of a transaction.
LEMMA StatusSteps ==
  ASSUME NInv, Calm
  PROVE  StatusStep /\ HistoryStep
<1> /\ tx \in [TxIds -> Tx] /\ cur \in TxIds \cup {NoTx} /\ (cur # NoTx => tx[cur].status \in Live)
    /\ (cur # NoTx => cur \in TxIds)
  BY DEF NInv, TInv, TypeOK, AllLive
<1>0. ASSUME UNCHANGED tx PROVE StatusStep /\ HistoryStep
  BY <1>0 DEF StatusStep, HistoryStep
<1>1. ASSUME NEW kind \in Kinds, NEW login \in Logins, Call(kind, login) PROVE StatusStep /\ HistoryStep
  BY <1>1, <1>0 DEF Call
<1>2. CASE Join \/ BeginFails \/ Try \/ Throws \/ Write \/ ResumeParent \/ (\E r \in Results : ReturnEca(r))
  BY <1>2, <1>0 DEF Join, BeginFails, Try, Throws, Write, ResumeParent, ReturnEca
<1>3. ASSUME NEW r \in {"ok", "error"}, BodyEnds(r) \/ Eca(r) PROVE StatusStep /\ HistoryStep
  BY <1>3, <1>0 DEF BodyEnds, Eca
<1>4. CASE Begin
  <2>1. PICK t \in TxIds : tx[t].status = "unused" /\ tx' = Status(t, "active")
    BY <1>4 DEF Begin, Fresh
  <2> QED BY <2>1, StatusChange DEF StatusStep, HistoryStep
<1>5. CASE Timeout
  <2>1. PICK t \in TxIds : tx[t].status = "active" /\ tx' = Status(t, "doomed")
    BY <1>5 DEF Timeout
  <2> QED BY <2>1, StatusChange DEF StatusStep, HistoryStep
<1>6. ASSUME NEW b \in BOOLEAN, NEW o \in Outcomes, Rollback(b, o), b = Top.began, stack # <<>>, Top.at \in Working
      PROVE  StatusStep /\ HistoryStep
  <2>1. CASE cur = NoTx
    BY <1>6, <2>1, <1>0 DEF Rollback, MarkRollback
  <2>2. CASE cur # NoTx
    <3>1. \/ UNCHANGED tx
          \/ tx' = Status(cur, "marked")
          \/ b /\ tx' = Status(cur, o)
      BY <1>6 DEF Rollback, MarkRollback
    <3>2. CASE tx' = Status(cur, "marked")
      BY <2>2, <3>2, StatusChange DEF StatusStep, HistoryStep
    <3>3. CASE b /\ tx' = Status(cur, o)
      BY <1>6, <2>2, <3>3, StatusChange DEF StatusStep, HistoryStep, Outcomes, Over
    <3> QED BY <3>1, <3>2, <3>3, <1>0
  <2> QED BY <2>1, <2>2
<1>7. CASE Deadlock
  <2>1. stack # <<>> /\ Top.began /\ Top.at \in Working
    BY <1>7 DEF Deadlock, InCall, Working
  <2>2. PICK t \in TxIds : tx[t].status = "unused" /\ tx' = [Undone EXCEPT ![t].status = "active"]
    BY <1>7 DEF Deadlock, Fresh
  <2>3. cur # NoTx => t # cur
    BY <2>2 DEF Live
  <2>4. cur = NoTx => cur \notin TxIds
    BY DEF TxIds, NoTx
  <2>u. /\ Undone \in [TxIds -> Tx]
        /\ \A u \in TxIds : u # cur => Undone[u] = tx[u]
        /\ cur # NoTx => Undone[cur].status = "rolledback" /\ Undone[cur].promised = tx[cur].promised
    BY <2>4, UndoneTypes DEF Undone, Tx
  <2> HIDE DEF Undone
  <2>5. ASSUME NEW u \in TxIds, u # t, u # cur PROVE tx'[u] = tx[u]
    BY <2>2, <2>u, <2>5
  <2>6. tx'[t].status = "active" /\ tx'[t].failed = tx[t].failed /\ tx'[t].promised = tx[t].promised
    BY <2>2, <2>3, <2>4, <2>u DEF Tx
  <2>7. cur # NoTx => tx'[cur].status = "rolledback" /\ tx'[cur].promised = tx[cur].promised
    BY <2>2, <2>3, <2>u DEF Tx
  <2> QED BY <1>7, <2>1, <2>2, <2>4, <2>5, <2>6, <2>7 DEF StatusStep, HistoryStep, Over
<1>8. CASE DeadlockThenFault
  <2>1. PICK o \in Outcomes : Rollback(TRUE, o)
    BY <1>8 DEF DeadlockThenFault
  <2> QED BY <1>6, <1>8, <2>1 DEF DeadlockThenFault, InCall, Working
<1>9. CASE CloseError
  <2>1. Top.began \in BOOLEAN /\ Top.at \in Working /\ stack # <<>>
    BY <1>9, TopIsFirst DEF CloseError, InCall, Working, NInv, TInv, TypeOK, Frame
  <2>2. PICK o \in Outcomes : Rollback(Top.began, o)
    BY <1>9 DEF CloseError, Outcomes
  <2> QED BY <2>1, <2>2, <1>6
<1>10. CASE CloseOk
  <2>1. stack # <<>> /\ Top.at \in Working
    BY <1>10 DEF CloseOk, InCall, Working
  <2>2. \/ UNCHANGED tx
        \/ Top.began /\ tx[cur].status = "active" /\ tx' = Status(cur, "committed")
        \/ Top.began /\ tx' = Status(cur, "rolledback")
    BY <1>10 DEF CloseOk, Ends, Commits
  <2>3. CASE cur = NoTx /\ ~ UNCHANGED tx
    BY <1>10, <2>3 DEF CloseOk
  <2>4. CASE cur # NoTx /\ ~ UNCHANGED tx
    BY <2>1, <2>2, <2>4, StatusChange DEF StatusStep, HistoryStep, Over
  <2> QED BY <2>3, <2>4, <1>0
<1>11. CASE Return
  <2>1. ASSUME NEW t \in TxIds
        PROVE  /\ tx'[t].status = tx[t].status
               /\ \/ tx'[t].failed = tx[t].failed
                  \/ Top.wrote = t /\ tx'[t].failed = (tx[t].failed \/ IsError(Top.result))
               /\ \/ tx'[t].promised = tx[t].promised
                  \/ /\ Top.wrote = t
                     /\ tx'[t].promised = (tx[t].promised \/ (Top.began /\ ~IsError(Top.result)))
    BY <1>11 DEF Return, Tx
  <2> QED BY <1>11, <2>1 DEF StatusStep, HistoryStep
<1> QED BY <1>1, <1>2, <1>3, <1>4, <1>5, <1>7, <1>8, <1>9, <1>10, <1>11 DEF Calm, ManagerFails, Next

\* The transaction of no call is the current one of a call that ends it, so they stay alive.
LEMMA EntriesLive ==
  ASSUME NInv, StatusStep, NEW i \in 1..Len(stack), stack[i].entry # NoTx
  PROVE  tx'[stack[i].entry].status \in Live
<1> DEFINE t == stack[i].entry
<1>0. stack \in Seq(Frame) /\ Len(stack) \in Nat /\ stack # <<>>
  BY LenProperties, EmptySeq DEF NInv, TInv, TypeOK
<1>1. t \in TxIds /\ tx[t].status \in Live
  <2>1. stack[i] \in Frame
    BY <1>0, LenProperties
  <2> QED BY <2>1 DEF NInv, AllLive, Frame
<1>2. Top.began /\ Top.at \in Working => t # cur
  <2>1. Top = stack[1] /\ 1 \in 1..Len(stack) /\ Nested(1)
    BY <1>0, TopIsFirst DEF NInv
  <2> QED BY <1>1, <2>1 DEF Nested, TxOf
<1> QED BY <1>1, <1>2 DEF StatusStep, Live

\* A step of the innermost call leaves the nesting of the others.
LEMMA TopNests ==
  ASSUME NInv, NEW f \in Frame, SetTop(f), stack # <<>>, f.entry = Top.entry
  PROVE  /\ Len(stack') = Len(stack) /\ stack'[1] = f
         /\ \A i \in 1..Len(stack) : stack'[i].entry = stack[i].entry
         /\ \A i \in 2..Len(stack) : stack'[i] = stack[i] /\ TxOf(i)' = TxOf(i) /\ Nested(i)'
<1>1. /\ Len(stack) \in Nat /\ Len(stack') = Len(stack) /\ stack'[1] = f
      /\ \A i \in 2..Len(stack) : stack'[i] = stack[i]
      /\ Top = stack[1] /\ 1 \in 1..Len(stack)
  BY TopOnly, TopIsFirst DEF NInv, TInv, TypeOK
<1>2. \A i \in 1..Len(stack) : stack'[i].entry = stack[i].entry
  BY <1>1
<1>3. ASSUME NEW i \in 2..Len(stack) PROVE TxOf(i)' = TxOf(i)
  <2>1. i - 1 \in 1..Len(stack) /\ i # 1
    BY <1>1
  <2> QED BY <1>2, <2>1 DEF TxOf
<1>4. ASSUME NEW i \in 2..Len(stack) PROVE Nested(i)'
  <2>1. Nested(i) /\ stack'[i] = stack[i] /\ TxOf(i)' = TxOf(i) /\ \A j \in i..Len(stack) : j \in 1..Len(stack)
    BY <1>1, <1>3 DEF NInv
  <2> HIDE DEF TxOf
  <2> QED BY <1>1, <1>2, <2>1 DEF Nested
<1> QED BY <1>1, <1>2, <1>3, <1>4

\* So what remains is the nesting of the innermost one, and the current transaction.
LEMMA TopStepNests ==
  ASSUME NInv, TInv', StatusStep, NEW f \in Frame, SetTop(f), stack # <<>>, f.entry = Top.entry,
         cur' # NoTx => tx'[cur'].status \in Live,
         Nested(1)'
  PROVE  NInv'
<1>1. /\ Len(stack') = Len(stack) /\ Len(stack) \in Nat
      /\ \A i \in 1..Len(stack) : stack'[i].entry = stack[i].entry
      /\ \A i \in 2..Len(stack) : Nested(i)'
  BY TopNests, LenProperties DEF NInv, TInv, TypeOK
<1>2. AllLive'
  BY <1>1, EntriesLive DEF AllLive
<1>3. \A i \in 1..Len(stack') : Nested(i)'
  BY <1>1
<1> QED BY <1>2, <1>3 DEF NInv

\* Steps that leave the transactions alone.
LEMMA PlainNests ==
  ASSUME NInv, TInv', StatusStep,
         Join \/ Try \/ Throws \/ Write \/ (\E r \in {"ok", "error"} : BodyEnds(r) \/ Eca(r))
  PROVE  NInv'
<1> stack # <<>> /\ Top \in Frame /\ Top = stack[1] /\ stack' \in Seq(Frame) /\ stack \in Seq(Frame)
  BY TopIsFirst DEF InCall, Join, Try, Throws, Write, BodyEnds, Eca, NInv, TInv, TypeOK
<1>n. Nested(1)
  BY TopIsFirst DEF NInv
<1>s. stack' # <<>> => stack'[1] \in Frame
  BY LenProperties, EmptySeq
<1>c. UNCHANGED <<tx, cur>> /\ (cur # NoTx => tx[cur].status \in Live)
  BY DEF Join, Try, Throws, Write, BodyEnds, Eca, NInv, AllLive
<1>1. ASSUME NEW f, SetTop(f), f \in Frame, f.entry = Top.entry, f.parent = Top.parent, f.began = Top.began,
             \/ Top.at \in {"try", "body", "out"} /\ f.at \in Working
             \/ Top.at = "begin" /\ f.at = "try" /\ ~f.began
      PROVE  NInv'
  <2>1. Len(stack') = Len(stack) /\ stack'[1] = f /\ \A i \in 1..Len(stack) : stack'[i].entry = stack[i].entry
    BY <1>1, TopNests
  <2>2. TxOf(1)' = TxOf(1)
    BY <1>c DEF TxOf
  <2>3. 1 \in 1..Len(stack)
    BY TopIsFirst
  <2>4. Nested(1)'
    <3>1. CASE Top.at = "begin"
      BY <1>1, <1>n, <2>1, <2>2, <3>1 DEF Nested, Working
    <3>2. CASE Top.at # "begin"
      BY <1>1, <1>n, <2>1, <2>2, <3>2 DEF Nested, Working
    <3> QED BY <3>1, <3>2
  <2> QED BY <1>1, <1>c, <2>4, TopStepNests
<1>2. CASE Join
  <2> DEFINE f == [Top EXCEPT !.at = "try"]
  <2>1. f \in Frame /\ SetTop(f) /\ f.entry = Top.entry /\ f.parent = Top.parent /\ f.began = Top.began
        /\ Top.at = "begin" /\ f.at = "try"
    BY <1>2 DEF Join, InCall, GoOn, Frame, Places
  <2> HIDE DEF f
  <2>2. ~Top.began
    BY <1>n, <2>1 DEF Nested
  <2> QED BY <2>1, <2>2, <1>1
<1>3. CASE Try
  <2> DEFINE f == [Top EXCEPT !.at = "body", !.tries = @ - 1, !.wrote = NoTx]
  <2>1. SetTop(f) /\ f.entry = Top.entry /\ f.parent = Top.parent /\ f.began = Top.began
        /\ Top.at = "try" /\ f.at \in Working
    BY <1>3 DEF Try, InCall, Frame, Working
  <2>2. f \in Frame
    <3>1. Top.tries - 1 \in 0..LockRetries
      BY <2>1, PassIsLeft DEF NInv, TInv
    <3> QED BY <3>1 DEF Frame, Places
  <2> HIDE DEF f
  <2> QED BY <2>1, <2>2, <1>1
<1>4. CASE Throws
  <2> DEFINE f == [Top EXCEPT !.at = "thrown", !.result = "thrown"]
  <2>1. f \in Frame /\ SetTop(f) /\ f.entry = Top.entry /\ f.parent = Top.parent /\ f.began = Top.began
        /\ Top.at \in {"try", "body", "out"} /\ f.at \in Working
    BY <1>4 DEF Throws, InCall, Frame, Places, Results, Working
  <2> HIDE DEF f
  <2> QED BY <2>1, <1>1
<1>5. CASE Write
  <2> DEFINE f == [Top EXCEPT !.wrote = cur]
  <2>1. SetTop(f) /\ f.entry = Top.entry /\ f.parent = Top.parent /\ f.began = Top.began
        /\ Top.at = "body" /\ f.at \in Working
    BY <1>5 DEF Write, InCall, Frame, Working
  <2>2. f \in Frame
    BY DEF Frame, NInv, TInv, TypeOK
  <2> HIDE DEF f
  <2> QED BY <2>1, <2>2, <1>1
<1>6. ASSUME NEW r \in {"ok", "error"}, BodyEnds(r) PROVE NInv'
  <2> DEFINE f == [Top EXCEPT !.at = "out", !.result = r]
  <2>1. f \in Frame /\ SetTop(f) /\ f.entry = Top.entry /\ f.parent = Top.parent /\ f.began = Top.began
        /\ Top.at = "body" /\ f.at \in Working
    BY <1>6 DEF BodyEnds, InCall, Frame, Places, Results, Working
  <2> HIDE DEF f
  <2> QED BY <2>1, <1>1
<1>7. ASSUME NEW r \in {"ok", "error"}, Eca(r) PROVE NInv'
  <2> DEFINE f == [Top EXCEPT !.result = r]
  <2>1. f \in Frame /\ SetTop(f) /\ f.entry = Top.entry /\ f.parent = Top.parent /\ f.began = Top.began
        /\ Top.at = "out" /\ f.at \in Working
    BY <1>7 DEF Eca, InCall, Frame, Results, Working
  <2> HIDE DEF f
  <2> QED BY <2>1, <1>1
<1> QED BY <1>2, <1>3, <1>4, <1>5, <1>6, <1>7

\* A transaction that was unused is not that of any call.
LEMMA FreshIsNew ==
  ASSUME NInv, NEW t \in TxIds, tx[t].status = "unused"
  PROVE  t # NoTx /\ cur # t /\ \A i \in 1..Len(stack) : stack[i].entry # t
BY DEF NInv, AllLive, Live, TxIds, NoTx

\* The innermost call begins or ends a transaction, or resumes one.
LEMMA TransactionNests ==
  ASSUME NInv, TInv', StatusStep,
         \/ Begin \/ BeginFails \/ Deadlock \/ DeadlockThenFault
         \/ CloseError \/ CloseOk \/ ResumeParent \/ (\E r \in Results : ReturnEca(r))
  PROVE  NInv'
<1> stack # <<>> /\ Top \in Frame /\ Top = stack[1] /\ stack \in Seq(Frame)
    /\ 1 \in 1..Len(stack) /\ tx \in [TxIds -> Tx]
  BY TopIsFirst DEF InCall, Begin, BeginFails, Deadlock, DeadlockThenFault,
                    CloseError, CloseOk, ResumeParent, ReturnEca, NInv, TInv, TypeOK
<1>n. Nested(1) /\ TxOf(1) = cur /\ TxOf(1)' = cur'
  BY TopIsFirst DEF NInv, TxOf
<1>a. Top.entry # NoTx => tx'[Top.entry].status \in Live
  BY EntriesLive
<1>1. ASSUME NEW f \in Frame, SetTop(f), f.entry = Top.entry,
             cur' # NoTx => tx'[cur'].status \in Live,
             f.at \in {"try", "body", "out", "thrown"} /\ f.began /\ f.parent = f.entry,
             f.at # "thrown" => cur' # NoTx,
             cur' # NoTx => \A j \in 1..Len(stack) : stack[j].entry # cur'
      PROVE  NInv'
  <2>1. Len(stack') = Len(stack) /\ stack'[1] = f /\ \A i \in 1..Len(stack) : stack'[i].entry = stack[i].entry
    BY <1>1, TopNests
  <2>2. cur' # NoTx => \A j \in 1..Len(stack') : stack'[j].entry # cur'
    BY <1>1, <2>1
  <2>3. Nested(1)'
    BY <1>1, <1>n, <2>1, <2>2 DEF Nested
  <2> QED BY <1>1, <2>3, TopStepNests
<1>2. ASSUME NEW f \in Frame, SetTop(f), f.entry = Top.entry,
             \/ f.at = "resume" /\ f.parent # NoTx /\ f.parent = f.entry
                /\ (cur' # NoTx => tx'[cur'].status \in Live)
             \/ f.at = "resume" /\ f.parent = NoTx /\ cur' = f.entry
             \/ f.at = "return" /\ cur' = f.entry
      PROVE  NInv'
  <2>1. stack'[1] = f
    BY <1>2, TopNests
  <2>2. cur' # NoTx => tx'[cur'].status \in Live
    BY <1>2, <1>a
  <2>3. Nested(1)'
    BY <1>2, <1>n, <2>1 DEF Nested, Working
  <2> QED BY <1>2, <2>2, <2>3, TopStepNests
<1>3. CASE Begin
  <2> DEFINE f == [Top EXCEPT !.at = "try", !.began = TRUE, !.parent = cur]
  <2>1. PICK t \in TxIds : tx[t].status = "unused" /\ cur' = t /\ tx' = Status(t, "active")
    BY <1>3 DEF Begin, Fresh
  <2>2. Top.at = "begin" /\ cur = Top.entry
    BY <1>3, <1>n DEF Begin, InCall, Nested
  <2>3. f \in Frame
    BY DEF Frame, Places, NInv, TInv, TypeOK
  <2>4. SetTop(f) /\ f.entry = Top.entry /\ f.at = "try" /\ f.began /\ f.parent = f.entry
    BY <1>3, <2>2 DEF Begin, Frame
  <2> HIDE DEF f
  <2>5. tx'[cur'].status \in Live
    BY <2>1, StatusChange DEF Live
  <2>6. cur' # NoTx /\ \A j \in 1..Len(stack) : stack[j].entry # cur'
    BY <2>1, FreshIsNew
  <2> QED BY <2>3, <2>4, <2>5, <2>6, <1>1
<1>4. CASE BeginFails
  <2> DEFINE f == [Top EXCEPT !.at = "resume", !.result = "thrown", !.parent = cur]
  <2>2. Top.at = "begin" /\ cur = Top.entry
    BY <1>4, <1>n DEF BeginFails, InCall, Nested
  <2>3. f \in Frame
    BY DEF Frame, Places, Results, NInv, TInv, TypeOK
  <2>4. SetTop(f) /\ f.entry = Top.entry /\ f.at = "resume" /\ f.parent = f.entry /\ cur' = NoTx
    BY <1>4, <2>2 DEF BeginFails, Frame
  <2> HIDE DEF f
  <2> QED BY <2>3, <2>4, <1>2
<1>5. CASE Deadlock
  <2> DEFINE f == [Top EXCEPT !.at = PassAfterDeadlock, !.result = "ok"]
  <2>1. PICK t \in TxIds :
          tx[t].status = "unused" /\ cur' = t /\ tx' = [Undone EXCEPT ![t].status = "active"]
    BY <1>5 DEF Deadlock, Fresh
  <2>2. Top.at = "body" /\ Top.began /\ Top.parent = Top.entry
    BY <1>5, <1>n DEF Deadlock, InCall, Nested, Working
  <2>3. f \in Frame
    BY DEF Frame, Places, Results, PassAfterDeadlock
  <2>4. SetTop(f) /\ f.entry = Top.entry /\ f.at \in {"try", "out"} /\ f.began /\ f.parent = f.entry
    BY <1>5, <2>2 DEF Deadlock, Frame, PassAfterDeadlock
  <2> HIDE DEF f
  <2>5. tx'[cur'].status \in Live
    <3>1. Undone \in [TxIds -> [status : Statuses, failed : BOOLEAN, promised : BOOLEAN]]
      BY UndoneTypes DEF Tx
    <3> QED BY <2>1, <3>1 DEF Live
  <2>6. cur' # NoTx /\ \A j \in 1..Len(stack) : stack[j].entry # cur'
    BY <2>1, FreshIsNew
  <2> QED BY <2>3, <2>4, <2>5, <2>6, <1>1
<1>6. CASE DeadlockThenFault
  <2> DEFINE f == [Top EXCEPT !.at = "thrown", !.result = "thrown"]
  <2>2. Top.at = "body" /\ Top.began /\ Top.parent = Top.entry
    BY <1>6, <1>n DEF DeadlockThenFault, InCall, Nested, Working
  <2>3. f \in Frame
    BY DEF Frame, Places, Results
  <2>4. SetTop(f) /\ f.entry = Top.entry /\ f.at = "thrown" /\ f.began /\ f.parent = f.entry /\ cur' = NoTx
    BY <1>6, <2>2 DEF DeadlockThenFault, Rollback, Frame
  <2> HIDE DEF f
  <2> QED BY <2>3, <2>4, <1>1
<1>7. ASSUME NEW f \in Frame, SetTop(f), f.entry = Top.entry, f.at = "resume", f.parent = Top.parent,
             Top.at \in Working,
             cur' = IF Top.began THEN NoTx ELSE cur
      PROVE  NInv'
  <2>1. CASE Top.began
    <3>1. Top.parent = Top.entry
      BY <1>7, <1>n, <2>1 DEF Nested
    <3> QED BY <1>7, <2>1, <3>1, <1>2
  <2>2. CASE ~Top.began
    <3>1. Top.parent = NoTx /\ cur = Top.entry
      BY <1>7, <1>n, <2>2 DEF Nested
    <3> QED BY <1>7, <2>2, <3>1, <1>2
  <2> QED BY <2>1, <2>2
<1>8. CASE CloseError
  <2> DEFINE f == [Top EXCEPT !.at = "resume"]
  <2>1. f \in Frame /\ SetTop(f) /\ f.entry = Top.entry /\ f.at = "resume" /\ f.parent = Top.parent
    BY <1>8 DEF CloseError, GoOn, Frame, Places
  <2> HIDE DEF f
  <2>2. PICK o \in Outcomes : Rollback(Top.began, o)
    BY <1>8 DEF CloseError, Outcomes
  <2>3. Top.at \in Working /\ cur' = IF Top.began THEN NoTx ELSE cur
    BY <1>8, <2>2 DEF CloseError, Rollback, InCall, Working
  <2> QED BY <2>1, <2>3, <1>7
<1>9. CASE CloseOk
  <2>1. PICK f \in Frame : SetTop(f) /\ f.entry = Top.entry /\ f.at = "resume" /\ f.parent = Top.parent
    <3> DEFINE g == [Top EXCEPT !.at = "resume"]
               h == [Top EXCEPT !.at = "resume", !.result = "thrown"]
    <3>1. g \in Frame /\ g.at = "resume" /\ g.parent = Top.parent /\ g.entry = Top.entry
      BY DEF Frame, Places
    <3>2. h \in Frame /\ h.at = "resume" /\ h.parent = Top.parent /\ h.entry = Top.entry
      BY DEF Frame, Places, Results
    <3>3. SetTop(g) \/ SetTop(h)
      BY <1>9 DEF CloseOk, Refused, GoOn
    <3> HIDE DEF g, h
    <3> QED BY <3>1, <3>2, <3>3
  <2>2. Top.at \in Working /\ cur' = IF Top.began THEN NoTx ELSE cur
    <3>1. Top.at = "out" /\ (Top.began => cur # NoTx)
      BY <1>9, <1>n DEF CloseOk, InCall, Nested, Working
    <3> QED BY <1>9, <3>1 DEF CloseOk, Working, Ends, Commits
  <2> QED BY <2>1, <2>2, <1>7
<1>10. CASE ResumeParent
  <2> DEFINE f == [Top EXCEPT !.at = "return", !.reply = Top.result]
  <2>1. f \in Frame /\ SetTop(f) /\ f.entry = Top.entry /\ f.at = "return"
    BY <1>10 DEF ResumeParent, Finish, Frame, Places
  <2> HIDE DEF f
  <2>2. cur' = Top.entry
    BY <1>10, <1>n DEF ResumeParent, InCall, Nested, Working
  <2> QED BY <2>1, <2>2, <1>2
<1>11. ASSUME NEW r \in Results, ReturnEca(r) PROVE NInv'
  <2> DEFINE f == [Top EXCEPT !.reply = r]
  <2>1. f \in Frame /\ SetTop(f) /\ f.entry = Top.entry /\ f.at = "return" /\ Top.at = "return"
    BY <1>11 DEF ReturnEca, InCall, Frame
  <2> HIDE DEF f
  <2>2. cur' = Top.entry
    BY <1>11, <1>n, <2>1 DEF ReturnEca, Nested
  <2> QED BY <2>1, <2>2, <1>2
<1> QED BY <1>3, <1>4, <1>5, <1>6, <1>8, <1>9, <1>10, <1>11

\* A call is made from the transaction in place, which is where it begins.
LEMMA CallNests ==
  ASSUME NInv, TInv', StatusStep, NEW kind \in Kinds, NEW login \in Logins, Call(kind, login)
  PROVE  NInv'
<1> DEFINE f == [at |-> "begin", kind |-> kind, login |-> login, began |-> FALSE, parent |-> NoTx,
                 tries |-> FullTries, result |-> "ok", reply |-> "ok", wrote |-> NoTx, entry |-> cur]
<1>1. f.at = "begin" /\ ~f.began /\ f.parent = NoTx /\ f.entry = cur
      /\ stack' = <<f>> \o stack /\ UNCHANGED <<tx, cur>>
  BY DEF Call
<1>2. f \in Frame
  BY DEF Frame, Places, Results, FullTries, NInv, TInv, TypeOK, Kinds
<1> HIDE DEF f
<1>3. /\ stack \in Seq(Frame) /\ Len(stack) \in Nat
      /\ Len(stack') = Len(stack) + 1 /\ stack'[1] = f
      /\ \A i \in 2..Len(stack') : stack'[i] = stack[i - 1]
  BY <1>1, <1>2, Push, LenProperties DEF NInv, TInv, TypeOK
<1>4. AllLive'
  <2>1. ASSUME NEW i \in 1..Len(stack'), stack'[i].entry # NoTx
        PROVE  tx[stack'[i].entry].status \in Live
    <3>1. CASE i = 1
      BY <1>1, <1>3, <2>1, <3>1 DEF NInv, AllLive
    <3>2. CASE i # 1
      <4>1. i - 1 \in 1..Len(stack) /\ stack'[i] = stack[i - 1]
        BY <1>3, <3>2
      <4> QED BY <2>1, <4>1 DEF NInv, AllLive
    <3> QED BY <3>1, <3>2
  <2> QED BY <1>1, <2>1 DEF NInv, AllLive
<1>5. Nested(1)'
  BY <1>1, <1>3 DEF Nested, TxOf, Working
<1>6. ASSUME NEW i \in 2..Len(stack') PROVE Nested(i)'
  <2> DEFINE k == i - 1
  <2>1. k \in 1..Len(stack) /\ Nested(k) /\ stack'[i] = stack[k]
    BY <1>3 DEF NInv
  <2>2. TxOf(i)' = TxOf(k)
    <3>1. CASE k = 1
      BY <1>1, <1>3, <3>1 DEF TxOf
    <3>2. CASE k # 1
      <4>1. i - 1 = k /\ i # 1 /\ k \in 2..Len(stack') /\ stack'[k] = stack[k - 1]
        BY <1>3, <3>2
      <4> QED BY <3>2, <4>1 DEF TxOf
    <3> QED BY <3>1, <3>2
  <2>3. ASSUME NEW j \in i..Len(stack') PROVE j - 1 \in k..Len(stack) /\ stack'[j] = stack[j - 1]
    BY <1>3
  <2> HIDE DEF TxOf, k
  <2>4. ASSUME NEW t, \A j \in k..Len(stack) : stack[j].entry # t
        PROVE  \A j \in i..Len(stack') : stack'[j].entry # t
    BY <2>3, <2>4
  <2> QED BY <2>1, <2>2, <2>4 DEF Nested
<1>7. Len(stack') \in Nat
  BY <1>3
<1> QED BY <1>3, <1>4, <1>5, <1>6, <1>7 DEF NInv

\* The caller goes on in the transaction that it had.
LEMMA ReturnNests ==
  ASSUME NInv, TInv', StatusStep, Return
  PROVE  NInv'
<1>1. InCall("return") /\ stack # <<>> /\ stack' = Tail(stack) /\ cur' = cur
  BY DEF Return, InCall
<1>2. /\ stack \in Seq(Frame) /\ Len(stack) \in Nat /\ 1 \in 1..Len(stack) /\ Top = stack[1]
      /\ Len(stack') = Len(stack) - 1
      /\ \A i \in 1..Len(stack') : stack'[i] = stack[i + 1]
  BY <1>1, Pop, TopIsFirst DEF NInv, TInv, TypeOK
<1>3. cur = Top.entry
  BY <1>1, <1>2 DEF NInv, Nested, TxOf, InCall
<1>4. AllLive'
  <2>1. cur' # NoTx => tx'[cur'].status \in Live
    BY <1>1, <1>2, <1>3, EntriesLive
  <2>2. ASSUME NEW i \in 1..Len(stack'), stack'[i].entry # NoTx
        PROVE  tx'[stack'[i].entry].status \in Live
    <3>1. i + 1 \in 1..Len(stack) /\ stack'[i] = stack[i + 1]
      BY <1>2
    <3> QED BY <2>2, <3>1, EntriesLive
  <2> QED BY <2>1, <2>2 DEF AllLive
<1>5. ASSUME NEW i \in 1..Len(stack') PROVE Nested(i)'
  <2> DEFINE k == i + 1
  <2>1. k \in 1..Len(stack) /\ Nested(k) /\ stack'[i] = stack[k]
    BY <1>2 DEF NInv
  <2>2. TxOf(i)' = TxOf(k)
    <3>1. k - 1 = i /\ k # 1 /\ TxOf(k) = stack[i].entry
      BY <1>2 DEF TxOf
    <3>2. CASE i = 1
      BY <1>1, <1>2, <1>3, <3>1, <3>2 DEF TxOf
    <3>3. CASE i # 1
      <4>1. i - 1 \in 1..Len(stack') /\ (i - 1) + 1 = i /\ stack'[i - 1] = stack[i]
        BY <1>2, <3>3
      <4> QED BY <3>1, <3>3, <4>1 DEF TxOf
    <3> QED BY <3>2, <3>3
  <2>3. ASSUME NEW j \in i..Len(stack') PROVE j + 1 \in k..Len(stack) /\ stack'[j] = stack[j + 1]
    BY <1>2
  <2> HIDE DEF TxOf, k
  <2>4. ASSUME NEW t, \A j \in k..Len(stack) : stack[j].entry # t
        PROVE  \A j \in i..Len(stack') : stack'[j].entry # t
    BY <2>3, <2>4
  <2> QED BY <2>1, <2>2, <2>4 DEF Nested
<1> QED BY <1>4, <1>5 DEF NInv

\* Every step keeps the nesting.
LEMMA NestStep == NInv /\ [Calm]_vars => NInv'
<1> SUFFICES ASSUME NInv, [Calm]_vars PROVE NInv'
  OBVIOUS
<1>t. TInv'
  BY TypeStep DEF NInv, Calm
<1>1. ASSUME UNCHANGED <<cur, stack>>, \A t \in TxIds : tx[t].status \in Live => tx'[t].status \in Live
      PROVE  NInv'
  <2>1. TInv /\ stack \in Seq(Frame) /\ cur \in TxIds \cup {NoTx}
    BY DEF NInv, TInv, TypeOK
  <2>2. \A i \in 1..Len(stack) : stack[i].entry \in TxIds \cup {NoTx}
    <3>1. \A i \in 1..Len(stack) : stack[i] \in Frame
      BY <2>1, LenProperties
    <3> QED BY <3>1 DEF Frame
  <2>3. AllLive'
    BY <1>1, <2>1, <2>2 DEF NInv, AllLive
  <2>4. ASSUME NEW i \in 1..Len(stack) PROVE Nested(i)'
    BY <1>1, <2>4 DEF NInv, Nested, TxOf
  <2> QED BY <1>1, <1>t, <2>3, <2>4 DEF NInv
<1>2. CASE UNCHANGED vars
  BY <1>1, <1>2 DEF vars
<1>3. CASE Calm
  <2>1. StatusStep
    BY <1>3, StatusSteps
  <2>2. CASE Timeout
    <3>1. PICK u \in TxIds : tx[u].status = "active" /\ tx' = Status(u, "doomed")
      BY <2>2 DEF Timeout
    <3>2. tx \in [TxIds -> Tx]
      BY DEF NInv, TInv, TypeOK
    <3>3. \A t \in TxIds : tx[t].status \in Live => tx'[t].status \in Live
      BY <3>1, <3>2, StatusChange DEF Live
    <3> QED BY <1>1, <2>2, <3>3 DEF Timeout
  <2>3. ASSUME NEW kind \in Kinds, NEW login \in Logins, Call(kind, login) PROVE NInv'
    BY <1>t, <2>1, <2>3, CallNests
  <2>4. CASE Return
    BY <1>t, <2>1, <2>4, ReturnNests
  <2>5. CASE \/ Begin \/ BeginFails \/ Deadlock \/ DeadlockThenFault
             \/ CloseError \/ CloseOk \/ ResumeParent \/ (\E r \in Results : ReturnEca(r))
    BY <1>t, <2>1, <2>5, TransactionNests
  <2>6. CASE Join \/ Try \/ Throws \/ Write \/ (\E r \in {"ok", "error"} : BodyEnds(r) \/ Eca(r))
    BY <1>t, <2>1, <2>6, PlainNests
  <2> QED BY <1>3, <2>2, <2>3, <2>4, <2>5, <2>6 DEF Calm, ManagerFails, Next
<1> QED BY <1>2, <1>3

\* In the beginning there is no call.
LEMMA InitNests == Init => NInv
<1> SUFFICES ASSUME Init PROVE NInv
  OBVIOUS
<1>1. TInv
  BY InitTypes
<1>2. Len(stack) = 0 /\ cur = NoTx
  BY DEF Init
<1> QED BY <1>1, <1>2 DEF NInv, AllLive

\* Whatever happens in a call, its caller goes on in the transaction that it
\* had, which is still there: for all depths and numbers of calls.
THEOREM CallersKeepTransaction == Spec => []CallerKeepsTransaction
<1> DEFINE Inv == TInv /\ (TxManagerWorks => NInv)
<1>1. Init => Inv
  BY InitTypes, InitNests
<1>2. Inv /\ [Next]_vars => Inv'
  BY TypeStep, CalmSteps, NestStep DEF TInv
<1>3. Inv => CallerKeepsTransaction
  <2> SUFFICES ASSUME NInv, NEW i \in DOMAIN stack
               PROVE  /\ stack[i].entry # NoTx => tx[stack[i].entry].status \in Live
                      /\ stack[i].at = "return" => TxOf(i) = stack[i].entry
    BY DEF CallerKeepsTransaction, Live
  <2>1. i \in 1..Len(stack)
    BY LenProperties DEF NInv, TInv, TypeOK
  <2> QED BY <2>1 DEF NInv, Nested, AllLive
<1> QED BY <1>1, <1>2, <1>3, PTL DEF Spec

-----------------------------------------------------------------------------
(* Failed work *)

\* What a call has written is in the transaction that it works in, or undone
\* already; once the call has closed with an error, it can only be undone.
Worked(i) ==
  LET f == stack[i] IN
  f.wrote # NoTx =>
    /\ f.at # "begin"
    /\ f.at \in Working => f.wrote = TxOf(i) \/ tx[f.wrote].status \in Over
    /\ f.at \in {"resume", "return"} /\ IsError(f.result) => tx[f.wrote].status \in Dead

FailedIsDead == \A t \in TxIds : tx[t].failed => tx[t].status \in Dead

WInv == NInv /\ FailedIsDead /\ \A i \in 1..Len(stack) : Worked(i)

\* A transaction that is marked or rolled back can no longer be committed.
LEMMA DeadStays ==
  ASSUME StatusStep, NEW t \in TxIds
  PROVE  /\ tx[t].status \in Dead => tx'[t].status \in Dead
         /\ tx[t].status \in Over => tx'[t].status \in Over
BY DEF StatusStep, Dead, Live, Over

\* Work fails only where a call returns after it has closed, or deadlocks.
LEMMA FailedStaysDead ==
  ASSUME WInv, StatusStep, HistoryStep
  PROVE  FailedIsDead'
<1> SUFFICES ASSUME NEW t \in TxIds, tx'[t].failed PROVE tx'[t].status \in Dead
  BY DEF FailedIsDead
<1>1. CASE tx[t].failed
  BY <1>1, DeadStays DEF WInv, FailedIsDead
<1>2. CASE ~tx[t].failed /\ Return /\ Top.wrote = t /\ IsError(Top.result)
  <2>1. stack # <<>> /\ Top = stack[1] /\ 1 \in 1..Len(stack) /\ Top.at = "return"
    BY <1>2, TopIsFirst DEF Return, InCall, WInv, NInv, TInv, TypeOK
  <2>2. t # NoTx
    BY DEF TxIds, NoTx
  <2>3. tx[t].status \in Dead
    BY <1>2, <2>1, <2>2 DEF WInv, Worked
  <2> QED BY <2>3, DeadStays
<1>3. CASE tx'[t].status = "rolledback"
  BY <1>3 DEF Dead
<1> QED BY <1>1, <1>2, <1>3 DEF HistoryStep

\* What a call has written stays where it is, in the steps of others.
LEMMA WorkStays ==
  ASSUME NInv, StatusStep, NEW i \in 1..Len(stack), NEW k \in 1..Len(stack'), Worked(i),
         stack'[k] = stack[i], TxOf(k)' = TxOf(i)
  PROVE  Worked(k)'
<1>1. stack[i].wrote # NoTx => stack[i].wrote \in TxIds
  <2>1. stack[i] \in Frame
    BY LenProperties DEF NInv, TInv, TypeOK
  <2> QED BY <2>1 DEF Frame
<1> HIDE DEF TxOf
<1> QED BY <1>1, DeadStays DEF Worked

\* A step of the innermost call.
LEMMA TopWorks ==
  ASSUME WInv, NInv', StatusStep, HistoryStep, NEW f \in Frame, SetTop(f), stack # <<>>, f.entry = Top.entry,
         Worked(1)'
  PROVE  WInv'
<1>1. /\ Len(stack') = Len(stack) /\ Len(stack) \in Nat
      /\ \A i \in 2..Len(stack) : stack'[i] = stack[i] /\ TxOf(i)' = TxOf(i)
  BY TopNests, LenProperties DEF WInv, NInv, TInv, TypeOK
<1>2. ASSUME NEW i \in 2..Len(stack) PROVE Worked(i)'
  BY <1>1, WorkStays DEF WInv
<1>3. FailedIsDead'
  BY FailedStaysDead
<1>4. \A i \in 1..Len(stack') : Worked(i)'
  BY <1>1, <1>2
<1> QED BY <1>3, <1>4 DEF WInv

\* The work of a call that goes on in its transaction.
LEMMA PlainWorks ==
  ASSUME WInv, NInv', StatusStep, HistoryStep,
         Join \/ Try \/ Throws \/ Write \/ (\E r \in {"ok", "error"} : BodyEnds(r) \/ Eca(r))
  PROVE  WInv'
<1> stack # <<>> /\ Top \in Frame /\ Top = stack[1] /\ 1 \in 1..Len(stack) /\ NInv /\ cur \in TxIds \cup {NoTx}
    /\ Top.tries \in 0..LockRetries
  BY TopIsFirst DEF InCall, Join, Try, Throws, Write, BodyEnds, Eca, WInv, NInv, TInv, TypeOK, Frame
<1>c. UNCHANGED <<tx, cur>> /\ TxOf(1) = cur /\ TxOf(1)' = cur
  BY DEF Join, Try, Throws, Write, BodyEnds, Eca, TxOf
<1>w. Worked(1)
  BY DEF WInv
<1>1. ASSUME NEW f \in Frame, SetTop(f), f.entry = Top.entry, f.at \in Working,
             f.wrote = NoTx \/ f.wrote = cur \/ (f.wrote = Top.wrote /\ Top.at \in Working \cup {"begin"})
      PROVE  WInv'
  <2>1. stack'[1] = f
    BY <1>1, TopNests
  <2>2. Worked(1)'
    BY <1>1, <1>c, <1>w, <2>1 DEF Worked, Working
  <2> QED BY <1>1, <2>2, TopWorks
<1>2. CASE Join
  <2> DEFINE f == [Top EXCEPT !.at = "try"]
  <2>1. f \in Frame /\ SetTop(f) /\ f.entry = Top.entry /\ f.at \in Working /\ f.wrote = Top.wrote /\ Top.at = "begin"
    BY <1>2 DEF Join, InCall, GoOn, Frame, Places, Working
  <2> HIDE DEF f
  <2> QED BY <2>1, <1>1
<1>3. CASE Try
  <2> DEFINE f == [Top EXCEPT !.at = "body", !.tries = @ - 1, !.wrote = NoTx]
  <2>1. SetTop(f) /\ f.entry = Top.entry /\ f.at \in Working /\ f.wrote = NoTx
    BY <1>3 DEF Try, InCall, Frame, Working
  <2>2. Top.tries - 1 \in 0..LockRetries
    BY <2>1, <1>3, PassIsLeft DEF Try, InCall, WInv, NInv, TInv
  <2>3. f \in Frame
    BY <2>2 DEF Frame, Places
  <2> HIDE DEF f
  <2> QED BY <2>1, <2>3, <1>1
<1>4. CASE Throws
  <2> DEFINE f == [Top EXCEPT !.at = "thrown", !.result = "thrown"]
  <2>1. f \in Frame /\ SetTop(f) /\ f.entry = Top.entry /\ f.at \in Working /\ f.wrote = Top.wrote /\ Top.at \in Working
    BY <1>4 DEF Throws, InCall, Frame, Places, Results, Working
  <2> HIDE DEF f
  <2> QED BY <2>1, <1>1
<1>5. CASE Write
  <2> DEFINE f == [Top EXCEPT !.wrote = cur]
  <2>1. SetTop(f) /\ f.entry = Top.entry /\ f.at \in Working /\ f.wrote = cur
    BY <1>5 DEF Write, InCall, Frame, Working
  <2>2. f \in Frame
    BY DEF Frame
  <2> HIDE DEF f
  <2> QED BY <2>1, <2>2, <1>1
<1>6. ASSUME NEW r \in {"ok", "error"}, BodyEnds(r) PROVE WInv'
  <2> DEFINE f == [Top EXCEPT !.at = "out", !.result = r]
  <2>1. f \in Frame /\ SetTop(f) /\ f.entry = Top.entry /\ f.at \in Working /\ f.wrote = Top.wrote /\ Top.at \in Working
    BY <1>6 DEF BodyEnds, InCall, Frame, Places, Results, Working
  <2> HIDE DEF f
  <2> QED BY <2>1, <1>1
<1>7. ASSUME NEW r \in {"ok", "error"}, Eca(r) PROVE WInv'
  <2> DEFINE f == [Top EXCEPT !.result = r]
  <2>1. f \in Frame /\ SetTop(f) /\ f.entry = Top.entry /\ f.at \in Working /\ f.wrote = Top.wrote /\ Top.at \in Working
    BY <1>7 DEF Eca, InCall, Frame, Results, Working
  <2> HIDE DEF f
  <2> QED BY <2>1, <1>1
<1> QED BY <1>2, <1>3, <1>4, <1>5, <1>6, <1>7

\* The work of a call whose transaction begins, ends or is resumed.
LEMMA TransactionWorks ==
  ASSUME WInv, NInv', StatusStep, HistoryStep,
         \/ Begin \/ BeginFails \/ Deadlock \/ DeadlockThenFault
         \/ CloseError \/ CloseOk \/ ResumeParent \/ (\E r \in Results : ReturnEca(r))
  PROVE  WInv'
<1> stack # <<>> /\ Top \in Frame /\ Top = stack[1] /\ 1 \in 1..Len(stack) /\ NInv
    /\ cur \in TxIds \cup {NoTx} /\ tx \in [TxIds -> Tx]
  BY TopIsFirst DEF InCall, Begin, BeginFails, Deadlock, DeadlockThenFault,
                    CloseError, CloseOk, ResumeParent, ReturnEca, WInv, NInv, TInv, TypeOK
<1>w. Worked(1) /\ TxOf(1) = cur /\ (Top.wrote # NoTx => Top.wrote \in TxIds)
  BY DEF WInv, TxOf, Frame
<1>1. ASSUME NEW f \in Frame, SetTop(f), f.entry = Top.entry, f.at # "begin",
             f.wrote # NoTx => /\ f.at \in Working => tx'[f.wrote].status \in Over
                               /\ IsError(f.result) => tx'[f.wrote].status \in Dead
      PROVE  WInv'
  <2>1. stack'[1] = f
    BY <1>1, TopNests
  <2>2. Worked(1)'
    BY <1>1, <2>1 DEF Worked
  <2> QED BY <1>1, <2>2, TopWorks
<1>2. ASSUME Top.wrote # NoTx, Top.at \in Working, cur # NoTx => tx'[cur].status \in Over
      PROVE  tx'[Top.wrote].status \in Over
  BY <1>2, <1>w, DeadStays DEF Worked
<1>3. CASE Begin
  <2> DEFINE f == [Top EXCEPT !.at = "try", !.began = TRUE, !.parent = cur]
  <2>1. f \in Frame /\ SetTop(f) /\ f.entry = Top.entry /\ f.at = "try" /\ f.wrote = Top.wrote
    BY <1>3 DEF Begin, Frame, Places
  <2> HIDE DEF f
  <2>2. f.wrote = NoTx
    BY <1>3, <1>w, <2>1 DEF Begin, InCall, Worked
  <2> QED BY <2>1, <2>2, <1>1
<1>4. CASE BeginFails
  <2> DEFINE f == [Top EXCEPT !.at = "resume", !.result = "thrown", !.parent = cur]
  <2>1. f \in Frame /\ SetTop(f) /\ f.entry = Top.entry /\ f.at = "resume" /\ f.wrote = Top.wrote
    BY <1>4 DEF BeginFails, Frame, Places, Results
  <2> HIDE DEF f
  <2>2. f.wrote = NoTx
    BY <1>4, <1>w, <2>1 DEF BeginFails, InCall, Worked
  <2> QED BY <2>1, <2>2, <1>1
<1>5. CASE Deadlock
  <2> DEFINE f == [Top EXCEPT !.at = PassAfterDeadlock, !.result = "ok"]
  <2>a. PassAfterDeadlock \in Places /\ PassAfterDeadlock # "begin"
    BY DEF PassAfterDeadlock, Places
  <2>b. f \in Frame /\ f.entry = Top.entry /\ f.at # "begin" /\ f.wrote = Top.wrote /\ f.result = "ok"
    BY <2>a DEF Frame, Results
  <2>c. SetTop(f)
    BY <1>5 DEF Deadlock
  <2>1. f \in Frame /\ SetTop(f) /\ f.entry = Top.entry /\ f.at # "begin" /\ f.wrote = Top.wrote /\ f.result = "ok"
    BY <2>b, <2>c
  <2> HIDE DEF f
  <2>2. cur # NoTx => tx'[cur].status \in Over
    <3>1. PICK t \in TxIds : tx[t].status = "unused" /\ tx' = [Undone EXCEPT ![t].status = "active"]
      BY <1>5 DEF Deadlock, Fresh
    <3>2. cur # t
      BY <3>1, FreshIsNew
    <3> QED BY <3>1, <3>2 DEF Tx, Undone, Over
  <2>3. Top.at \in Working
    BY <1>5 DEF Deadlock, InCall, Working
  <2> QED BY <2>1, <2>2, <2>3, <1>1, <1>2 DEF Dead, Over, IsError
<1>6. ASSUME NEW o \in Outcomes, Rollback(TRUE, o), cur # NoTx PROVE tx'[cur].status \in Over
  BY <1>6, StatusChange DEF Rollback, Outcomes, Over
<1>7. CASE DeadlockThenFault
  <2> DEFINE f == [Top EXCEPT !.at = "thrown", !.result = "thrown"]
  <2>1. f \in Frame /\ SetTop(f) /\ f.entry = Top.entry /\ f.at = "thrown" /\ f.wrote = Top.wrote
    BY <1>7 DEF DeadlockThenFault, Frame, Places, Results
  <2> HIDE DEF f
  <2>2. PICK o \in Outcomes : Rollback(TRUE, o)
    BY <1>7 DEF DeadlockThenFault
  <2>3. Top.at \in Working /\ (Top.wrote # NoTx => tx'[Top.wrote].status \in Over)
    BY <1>2, <1>6, <1>7, <2>2 DEF DeadlockThenFault, InCall, Working
  <2> QED BY <2>1, <2>3, <1>1 DEF Dead, Over
<1>8. CASE CloseError
  <2> DEFINE f == [Top EXCEPT !.at = "resume"]
  <2>1. f \in Frame /\ SetTop(f) /\ f.entry = Top.entry /\ f.at = "resume" /\ f.wrote = Top.wrote
    BY <1>8 DEF CloseError, GoOn, Frame, Places
  <2> HIDE DEF f
  <2>2. Top.at \in Working /\ Top.began \in BOOLEAN
    BY <1>8 DEF CloseError, InCall, Working, Frame
  <2>o. PICK o \in Outcomes : Rollback(Top.began, o)
    BY <1>8 DEF CloseError, Outcomes
  <2>3. cur # NoTx => tx'[cur].status \in Dead
    <3>1. CASE Top.began
      BY <2>o, <3>1, <1>6 DEF Dead, Over
    <3>2. CASE ~Top.began /\ cur # NoTx
      BY <2>o, <3>2, StatusChange DEF Rollback, MarkRollback, Dead
    <3> QED BY <2>2, <3>1, <3>2
  <2>4. f.wrote # NoTx => tx'[f.wrote].status \in Dead
    BY <2>1, <2>2, <2>3, <1>w, DeadStays DEF Worked, Dead, Over
  <2>5. f.at \notin Working /\ f.at # "begin"
    BY <2>1 DEF Working
  <2> QED BY <2>1, <2>4, <2>5, <1>1
<1>9. CASE CloseOk
  <2> DEFINE g == [Top EXCEPT !.at = "resume"]
             h == [Top EXCEPT !.at = "resume", !.result = "thrown"]
  <2>1. g \in Frame /\ g.at = "resume" /\ g.entry = Top.entry /\ g.wrote = Top.wrote /\ g.result = Top.result
    BY DEF Frame, Places
  <2>2. h \in Frame /\ h.at = "resume" /\ h.entry = Top.entry /\ h.wrote = Top.wrote
    BY DEF Frame, Places, Results
  <2>3. SetTop(g) \/ (SetTop(h) /\ Ends("rolledback"))
    BY <1>9 DEF CloseOk, Refused, GoOn
  <2> HIDE DEF g, h
  <2>4. ~IsError(Top.result) /\ Top.at \in Working
    BY <1>9 DEF CloseOk, InCall, Working
  <2>5. CASE SetTop(g)
    <3>1. ~IsError(g.result)
      BY <2>1, <2>4
    <3>2. g.at \notin Working /\ g.at # "begin"
      BY <2>1 DEF Working
    <3> QED BY <2>1, <2>5, <3>1, <3>2, <1>1
  <2>6. CASE SetTop(h) /\ Ends("rolledback")
    <3>1. cur # NoTx => tx'[cur].status \in Over
      BY <2>6, StatusChange DEF Ends, Over
    <3>2. h.wrote # NoTx => tx'[h.wrote].status \in Over
      BY <2>2, <2>4, <3>1, <1>2
    <3> QED BY <2>2, <2>6, <3>2, <1>1 DEF Dead, Over
  <2> QED BY <2>3, <2>5, <2>6
<1>10. CASE ResumeParent \/ (\E r \in Results : ReturnEca(r))
  <2>1. PICK f \in Frame : /\ SetTop(f) /\ f.entry = Top.entry /\ f.at = "return" /\ f.wrote = Top.wrote
                           /\ f.result = Top.result /\ Top.at \in {"resume", "return"}
    <3>1. CASE ResumeParent
      <4> DEFINE g == [Top EXCEPT !.at = "return", !.reply = Top.result]
      <4>1. g \in Frame /\ SetTop(g) /\ g.entry = Top.entry /\ g.at = "return" /\ g.wrote = Top.wrote
            /\ g.result = Top.result /\ Top.at = "resume"
        BY <3>1 DEF ResumeParent, Finish, InCall, Frame, Places
      <4> HIDE DEF g
      <4> QED BY <4>1
    <3>2. ASSUME NEW r \in Results, ReturnEca(r)
          PROVE  \E f \in Frame : /\ SetTop(f) /\ f.entry = Top.entry /\ f.at = "return" /\ f.wrote = Top.wrote
                                  /\ f.result = Top.result /\ Top.at \in {"resume", "return"}
      <4> DEFINE g == [Top EXCEPT !.reply = r]
      <4>1. g \in Frame /\ SetTop(g) /\ g.entry = Top.entry /\ g.at = "return" /\ g.wrote = Top.wrote
            /\ g.result = Top.result /\ Top.at = "return"
        BY <3>2 DEF ReturnEca, InCall, Frame
      <4> HIDE DEF g
      <4> QED BY <4>1
    <3> QED BY <1>10, <3>1, <3>2
  <2>2. f.wrote # NoTx /\ IsError(f.result) => tx'[f.wrote].status \in Dead
    BY <2>1, <1>w, DeadStays DEF Worked
  <2>3. f.at \notin Working /\ f.at # "begin"
    BY <2>1 DEF Working
  <2> QED BY <2>1, <2>2, <2>3, <1>1
<1> QED BY <1>3, <1>4, <1>5, <1>7, <1>8, <1>9, <1>10

\* A new call has done no work, and the work of the others stays.
LEMMA CallWorks ==
  ASSUME WInv, NInv', StatusStep, HistoryStep, NEW kind \in Kinds, NEW login \in Logins, Call(kind, login)
  PROVE  WInv'
<1> DEFINE f == [at |-> "begin", kind |-> kind, login |-> login, began |-> FALSE, parent |-> NoTx,
                 tries |-> FullTries, result |-> "ok", reply |-> "ok", wrote |-> NoTx, entry |-> cur]
<1>1. f.wrote = NoTx /\ f.entry = cur /\ stack' = <<f>> \o stack /\ UNCHANGED cur /\ NInv
  BY DEF Call, WInv
<1>2. f \in Frame
  BY DEF Frame, Places, Results, FullTries, WInv, NInv, TInv, TypeOK, Kinds
<1> HIDE DEF f
<1>3. /\ stack \in Seq(Frame) /\ Len(stack) \in Nat
      /\ Len(stack') = Len(stack) + 1 /\ stack'[1] = f
      /\ \A i \in 2..Len(stack') : stack'[i] = stack[i - 1]
  BY <1>1, <1>2, Push, LenProperties DEF NInv, TInv, TypeOK
<1>4. ASSUME NEW i \in 1..Len(stack') PROVE Worked(i)'
  <2>1. CASE i = 1
    BY <1>1, <1>3, <2>1 DEF Worked
  <2>2. CASE i # 1
    <3> DEFINE k == i - 1
    <3>1. k \in 1..Len(stack) /\ Worked(k) /\ stack'[i] = stack[k]
      BY <1>3, <2>2 DEF WInv
    <3>2. TxOf(i)' = TxOf(k)
      <4>1. CASE k = 1
        BY <1>1, <1>3, <2>2, <4>1 DEF TxOf
      <4>2. CASE k # 1
        <5>1. i - 1 = k /\ i # 1 /\ k \in 2..Len(stack') /\ stack'[k] = stack[k - 1]
          BY <1>3, <2>2, <4>2
        <5> QED BY <4>2, <5>1 DEF TxOf
      <4> QED BY <4>1, <4>2
    <3> HIDE DEF k
    <3> QED BY <1>1, <3>1, <3>2, WorkStays
  <2> QED BY <2>1, <2>2
<1>5. FailedIsDead'
  BY FailedStaysDead
<1> QED BY <1>4, <1>5 DEF WInv

\* The work of a call that returns is that of its caller's transaction.
LEMMA ReturnWorks ==
  ASSUME WInv, NInv', StatusStep, HistoryStep, Return
  PROVE  WInv'
<1>1. InCall("return") /\ stack # <<>> /\ stack' = Tail(stack) /\ cur' = cur /\ NInv
  BY DEF Return, InCall, WInv
<1>2. /\ stack \in Seq(Frame) /\ Len(stack) \in Nat /\ 1 \in 1..Len(stack) /\ Top = stack[1]
      /\ Len(stack') = Len(stack) - 1
      /\ \A i \in 1..Len(stack') : stack'[i] = stack[i + 1]
  BY <1>1, Pop, TopIsFirst DEF NInv, TInv, TypeOK
<1>3. cur = Top.entry
  BY <1>1, <1>2 DEF NInv, Nested, TxOf, InCall
<1>4. ASSUME NEW i \in 1..Len(stack') PROVE Worked(i)'
  <2> DEFINE k == i + 1
  <2>1. k \in 1..Len(stack) /\ Worked(k) /\ stack'[i] = stack[k]
    BY <1>2 DEF WInv
  <2>2. TxOf(i)' = TxOf(k)
    <3>1. k - 1 = i /\ k # 1 /\ TxOf(k) = stack[i].entry
      BY <1>2 DEF TxOf
    <3>2. CASE i = 1
      BY <1>1, <1>2, <1>3, <3>1, <3>2 DEF TxOf
    <3>3. CASE i # 1
      <4>1. i - 1 \in 1..Len(stack') /\ (i - 1) + 1 = i /\ stack'[i - 1] = stack[i]
        BY <1>2, <3>3
      <4> QED BY <3>1, <3>3, <4>1 DEF TxOf
    <3> QED BY <3>2, <3>3
  <2> HIDE DEF k
  <2> QED BY <1>1, <2>1, <2>2, WorkStays
<1>5. FailedIsDead'
  BY FailedStaysDead
<1> QED BY <1>4, <1>5 DEF WInv

\* Every step keeps failed work undone.
LEMMA WorkStep == WInv /\ [Calm]_vars => WInv'
<1> SUFFICES ASSUME WInv, [Calm]_vars PROVE WInv'
  OBVIOUS
<1>n. NInv'
  BY NestStep DEF WInv
<1>1. CASE UNCHANGED vars
  BY <1>1, <1>n DEF vars, WInv, FailedIsDead, Worked, TxOf
<1>2. CASE Calm
  <2>1. StatusStep /\ HistoryStep
    BY <1>2, StatusSteps DEF WInv
  <2>2. CASE Timeout
    <3>1. stack' = stack /\ cur' = cur
      BY <2>2 DEF Timeout
    <3>2. ASSUME NEW i \in 1..Len(stack') PROVE Worked(i)'
      <4>1. TxOf(i)' = TxOf(i) /\ i \in 1..Len(stack) /\ stack'[i] = stack[i]
        BY <3>1 DEF TxOf
      <4> QED BY <2>1, <4>1, WorkStays DEF WInv
    <3>3. FailedIsDead'
      BY <2>1, FailedStaysDead
    <3> QED BY <1>n, <3>2, <3>3 DEF WInv
  <2>3. ASSUME NEW kind \in Kinds, NEW login \in Logins, Call(kind, login) PROVE WInv'
    BY <1>n, <2>1, <2>3, CallWorks
  <2>4. CASE Return
    BY <1>n, <2>1, <2>4, ReturnWorks
  <2>5. CASE \/ Begin \/ BeginFails \/ Deadlock \/ DeadlockThenFault
             \/ CloseError \/ CloseOk \/ ResumeParent \/ (\E r \in Results : ReturnEca(r))
    BY <1>n, <2>1, <2>5, TransactionWorks
  <2>6. CASE Join \/ Try \/ Throws \/ Write \/ (\E r \in {"ok", "error"} : BodyEnds(r) \/ Eca(r))
    BY <1>n, <2>1, <2>6, PlainWorks
  <2> QED BY <1>2, <2>2, <2>3, <2>4, <2>5, <2>6 DEF Calm, ManagerFails, Next
<1> QED BY <1>1, <1>2

\* What a call has written and then reported an error about is never committed,
\* whatever its callers make of the error: for all depths and numbers of calls.
THEOREM FailuresAreUndone == Spec => []FailedWorkIsUndone
<1> DEFINE Inv == TInv /\ (TxManagerWorks => WInv)
<1>1. Init => Inv
  <2> SUFFICES ASSUME Init PROVE Inv
    OBVIOUS
  <2>1. Len(stack) = 0 /\ FailedIsDead
    BY DEF Init, FailedIsDead, UnusedTx
  <2> QED BY <2>1, InitTypes, InitNests DEF WInv
<1>2. Inv /\ [Next]_vars => Inv'
  BY TypeStep, CalmSteps, WorkStep DEF TInv
<1>3. Inv => FailedWorkIsUndone
  BY DEF WInv, FailedIsDead, FailedWorkIsUndone, Dead
<1> QED BY <1>1, <1>2, <1>3, PTL DEF Spec

-----------------------------------------------------------------------------
(* Promised work *)

Deadlocks == count["deadlocks"]

\* A call that began its transaction still works in it until it closes, and a
\* success is then committed.  The passes that a call has used are deadlocks.
Promising(i) ==
  LET f == stack[i] IN
  /\ f.at \in {"begin", "try"} => f.tries + Deadlocks >= LockRetries
  /\ f.at = "body" => f.tries + 1 + Deadlocks >= LockRetries
  /\ f.at = "thrown" => IsError(f.result)
  /\ f.began /\ f.wrote # NoTx =>
       /\ f.at \in {"body", "out"} => f.wrote = TxOf(i)
       /\ f.at \in {"resume", "return"} /\ ~IsError(f.result) => tx[f.wrote].status = "committed"

PromisesKept == \A t \in TxIds : tx[t].promised => tx[t].status = "committed"

SInv == WInv /\ PromisesKept /\ \A i \in 1..Len(stack) : Promising(i)

\* The deadlocks are counted.
LEMMA DeadlocksGrow ==
  ASSUME TInv, Next
  PROVE  Deadlocks \in Nat /\ Deadlocks' \in Nat /\ Deadlocks' >= Deadlocks
<1>1. "deadlocks" \in DOMAIN Events
  BY DEF Events
<1> QED BY <1>1, CountsGrow DEF Deadlocks, TInv

\* Where a deadlock is reported, passes are left.
LEMMA PassesLeft ==
  ASSUME SInv, Deadlock, MaxDeadlocks < LockRetries
  PROVE  Top.tries > 0 /\ Deadlocks' = Deadlocks + 1
<1>1. "deadlocks" \in DOMAIN Events /\ Counts({"deadlocks"}) /\ Next
  BY DEF Events, Deadlock, Next
<1>2. Deadlocks \in Nat /\ Deadlocks < MaxDeadlocks
  BY <1>1, CountsGrow DEF Counts, Events, Deadlocks, SInv, WInv, NInv, TInv
<1>3. Deadlocks' = Deadlocks + 1
  BY <1>1, CountsGrow DEF Deadlocks, SInv, WInv, NInv, TInv
<1>4. stack # <<>> /\ Top.at = "body" /\ Top = stack[1] /\ 1 \in 1..Len(stack) /\ Top.tries \in 0..LockRetries
  BY TopIsFirst DEF Deadlock, InCall, SInv, WInv, NInv, TInv, TypeOK, Frame
<1>5. Top.tries + 1 + Deadlocks >= LockRetries
  BY <1>4 DEF SInv, Promising
<1> QED BY <1>2, <1>3, <1>4, <1>5

\* What was promised stays committed, and what is promised now is committed.
LEMMA PromisedStaysCommitted ==
  ASSUME SInv, StatusStep, HistoryStep
  PROVE  PromisesKept'
<1> SUFFICES ASSUME NEW t \in TxIds, tx'[t].promised PROVE tx'[t].status = "committed"
  BY DEF PromisesKept
<1>1. tx[t].status = "committed" => tx'[t].status = "committed"
  BY DEF StatusStep, Live
<1>2. CASE tx[t].promised
  BY <1>1, <1>2 DEF SInv, PromisesKept
<1>3. CASE ~tx[t].promised /\ Return /\ Top.wrote = t /\ Top.began /\ ~IsError(Top.result)
  <2>1. stack # <<>> /\ Top = stack[1] /\ 1 \in 1..Len(stack) /\ Top.at = "return"
    BY <1>3, TopIsFirst DEF Return, InCall, SInv, WInv, NInv, TInv, TypeOK
  <2>2. t # NoTx
    BY DEF TxIds, NoTx
  <2> QED BY <1>1, <1>3, <2>1, <2>2 DEF SInv, Promising
<1> QED BY <1>2, <1>3 DEF HistoryStep

\* The other calls keep what they have promised.
LEMMA PromisesStay ==
  ASSUME SInv, StatusStep, Deadlocks \in Nat, Deadlocks' \in Nat, Deadlocks' >= Deadlocks,
         NEW i \in 1..Len(stack), NEW k \in 1..Len(stack'), Promising(i),
         stack'[k] = stack[i], TxOf(k)' = TxOf(i)
  PROVE  Promising(k)'
<1>1. (stack[i].wrote # NoTx => stack[i].wrote \in TxIds) /\ stack[i].tries \in 0..LockRetries
  <2>1. stack[i] \in Frame
    BY LenProperties DEF SInv, WInv, NInv, TInv, TypeOK
  <2> QED BY <2>1 DEF Frame
<1>2. \A t \in TxIds : tx[t].status = "committed" => tx'[t].status = "committed"
  BY DEF StatusStep, Live
<1> DEFINE f == stack[i]
<1>3. stack'[k] = f /\ (f.wrote # NoTx => f.wrote \in TxIds) /\ f.tries \in Nat
  BY <1>1
<1> HIDE DEF TxOf, Deadlocks
<1>4. /\ f.at \in {"begin", "try"} => f.tries + Deadlocks >= LockRetries
      /\ f.at = "body" => f.tries + 1 + Deadlocks >= LockRetries
  BY DEF Promising
<1>5. /\ f.at = "thrown" => IsError(f.result)
      /\ f.began /\ f.wrote # NoTx =>
           /\ f.at \in {"body", "out"} => f.wrote = TxOf(i)
           /\ f.at \in {"resume", "return"} /\ ~IsError(f.result) => tx[f.wrote].status = "committed"
  BY DEF Promising
<1> HIDE DEF f
<1>6. /\ f.at \in {"begin", "try"} => f.tries + Deadlocks' >= LockRetries
      /\ f.at = "body" => f.tries + 1 + Deadlocks' >= LockRetries
  BY <1>3, <1>4
<1>7. /\ f.at = "thrown" => IsError(f.result)
      /\ f.began /\ f.wrote # NoTx =>
           /\ f.at \in {"body", "out"} => f.wrote = TxOf(k)'
           /\ f.at \in {"resume", "return"} /\ ~IsError(f.result) => tx'[f.wrote].status = "committed"
  BY <1>2, <1>3, <1>5
<1> QED BY <1>3, <1>6, <1>7 DEF Promising

\* A step of the innermost call.
LEMMA TopPromises ==
  ASSUME SInv, WInv', StatusStep, HistoryStep, Deadlocks \in Nat, Deadlocks' \in Nat, Deadlocks' >= Deadlocks,
         NEW f \in Frame, SetTop(f), stack # <<>>, f.entry = Top.entry,
         f.at = "begin" => FALSE,
         f.at = "try" => f.tries + Deadlocks' >= LockRetries,
         f.at = "body" => f.tries + 1 + Deadlocks' >= LockRetries,
         f.at = "thrown" => IsError(f.result),
         f.began /\ f.wrote # NoTx =>
           /\ f.at \in {"body", "out"} => f.wrote = cur'
           /\ f.at \in {"resume", "return"} /\ ~IsError(f.result) => tx'[f.wrote].status = "committed"
  PROVE  SInv'
<1>1. /\ Len(stack') = Len(stack) /\ Len(stack) \in Nat /\ stack'[1] = f
      /\ \A i \in 2..Len(stack) : stack'[i] = stack[i] /\ TxOf(i)' = TxOf(i)
  BY TopNests, LenProperties DEF SInv, WInv, NInv, TInv, TypeOK
<1>2. ASSUME NEW i \in 2..Len(stack) PROVE Promising(i)'
  <2>1. i \in 1..Len(stack) /\ i \in 1..Len(stack') /\ Promising(i)
    BY <1>1 DEF SInv
  <2> QED BY <1>1, <2>1, PromisesStay
<1>3. PromisesKept'
  BY PromisedStaysCommitted
<1>4. Promising(1)'
  <2>1. TxOf(1)' = cur'
    BY DEF TxOf
  <2> HIDE DEF Deadlocks, TxOf
  <2> QED BY <1>1, <2>1 DEF Promising
<1>5. \A i \in 1..Len(stack') : Promising(i)'
  BY <1>1, <1>2, <1>4
<1> QED BY <1>3, <1>5 DEF SInv

\* What the innermost call has promised, in each of its steps.
LEMMA StepPromises ==
  ASSUME SInv, WInv', StatusStep, HistoryStep, MaxDeadlocks < LockRetries,
         Deadlocks \in Nat, Deadlocks' \in Nat, Deadlocks' >= Deadlocks,
         \/ Join \/ Try \/ Throws \/ Write \/ (\E r \in {"ok", "error"} : BodyEnds(r) \/ Eca(r))
         \/ Begin \/ BeginFails \/ Deadlock \/ DeadlockThenFault
         \/ CloseError \/ CloseOk \/ ResumeParent \/ (\E r \in Results : ReturnEca(r))
  PROVE  SInv'
<1> stack # <<>> /\ Top \in Frame /\ Top = stack[1] /\ 1 \in 1..Len(stack) /\ NInv
    /\ cur \in TxIds \cup {NoTx} /\ tx \in [TxIds -> Tx] /\ Top.tries \in 0..LockRetries
  BY TopIsFirst DEF InCall, Join, Try, Throws, Write, BodyEnds, Eca,
                    Begin, BeginFails, Deadlock, DeadlockThenFault,
                    CloseError, CloseOk, ResumeParent, ReturnEca, SInv, WInv, NInv, TInv, TypeOK, Frame
<1>p. Promising(1) /\ Nested(1) /\ TxOf(1) = cur
  BY DEF SInv, NInv, TxOf
<1> USE DEF Frame, InCall, GoOn
<1> HIDE DEF Deadlocks
<1>1. CASE Join
  <2> DEFINE f == [Top EXCEPT !.at = "try"]
  <2>1. f \in Frame /\ SetTop(f) /\ f.entry = Top.entry /\ f.at = "try" /\ f.tries = Top.tries /\ Top.at = "begin"
    BY <1>1 DEF Join, Places
  <2> HIDE DEF f
  <2>2. f.tries + Deadlocks' >= LockRetries
    BY <1>p, <2>1 DEF Promising
  <2> QED BY <2>1, <2>2, TopPromises
<1>2. CASE Try
  <2> DEFINE f == [Top EXCEPT !.at = "body", !.tries = @ - 1, !.wrote = NoTx]
  <2>1. SetTop(f) /\ f.entry = Top.entry /\ f.at = "body" /\ f.tries = Top.tries - 1 /\ f.wrote = NoTx /\ Top.at = "try"
    BY <1>2 DEF Try
  <2>2. Top.tries - 1 \in 0..LockRetries
    BY <2>1, PassIsLeft DEF NInv, TInv
  <2>3. f \in Frame
    BY <2>2 DEF Places
  <2> HIDE DEF f
  <2>4. f.tries + 1 + Deadlocks' >= LockRetries
    BY <1>p, <2>1 DEF Promising
  <2> QED BY <2>1, <2>3, <2>4, TopPromises
<1>3. CASE Throws
  <2> DEFINE f == [Top EXCEPT !.at = "thrown", !.result = "thrown"]
  <2>1. f \in Frame /\ SetTop(f) /\ f.entry = Top.entry /\ f.at = "thrown" /\ IsError(f.result)
    BY <1>3 DEF Throws, Places, Results, IsError
  <2> HIDE DEF f
  <2> QED BY <2>1, TopPromises
<1>4. CASE Write
  <2> DEFINE f == [Top EXCEPT !.wrote = cur]
  <2>1. SetTop(f) /\ f.entry = Top.entry /\ f.at = "body" /\ f.tries = Top.tries /\ f.wrote = cur /\ cur' = cur /\ Top.at = "body"
    BY <1>4 DEF Write
  <2>2. f \in Frame
    OBVIOUS
  <2> HIDE DEF f
  <2>3. f.tries + 1 + Deadlocks' >= LockRetries
    BY <1>p, <2>1 DEF Promising
  <2> QED BY <2>1, <2>2, <2>3, TopPromises
<1>5. ASSUME NEW r \in {"ok", "error"}, BodyEnds(r) PROVE SInv'
  <2> DEFINE f == [Top EXCEPT !.at = "out", !.result = r]
  <2>1. f \in Frame /\ SetTop(f) /\ f.entry = Top.entry /\ f.at = "out" /\ cur' = cur
        /\ f.wrote = Top.wrote /\ f.began = Top.began /\ Top.at = "body"
    BY <1>5 DEF BodyEnds, Places, Results
  <2> HIDE DEF f
  <2>2. f.began /\ f.wrote # NoTx => f.wrote = cur'
    BY <1>p, <2>1 DEF Promising
  <2> QED BY <2>1, <2>2, TopPromises
<1>6. ASSUME NEW r \in {"ok", "error"}, Eca(r) PROVE SInv'
  <2> DEFINE f == [Top EXCEPT !.result = r]
  <2>1. f \in Frame /\ SetTop(f) /\ f.entry = Top.entry /\ f.at = "out" /\ cur' = cur
        /\ f.wrote = Top.wrote /\ f.began = Top.began /\ Top.at = "out"
    BY <1>6 DEF Eca, Results
  <2> HIDE DEF f
  <2>2. f.began /\ f.wrote # NoTx => f.wrote = cur'
    BY <1>p, <2>1 DEF Promising
  <2> QED BY <2>1, <2>2, TopPromises
<1>7. CASE Begin
  <2> DEFINE f == [Top EXCEPT !.at = "try", !.began = TRUE, !.parent = cur]
  <2>1. f \in Frame /\ SetTop(f) /\ f.entry = Top.entry /\ f.at = "try" /\ f.tries = Top.tries /\ Top.at = "begin"
    BY <1>7 DEF Begin, Places
  <2> HIDE DEF f
  <2>2. f.tries + Deadlocks' >= LockRetries
    BY <1>p, <2>1 DEF Promising
  <2> QED BY <2>1, <2>2, TopPromises
<1>8. CASE BeginFails
  <2> DEFINE f == [Top EXCEPT !.at = "resume", !.result = "thrown", !.parent = cur]
  <2>1. f \in Frame /\ SetTop(f) /\ f.entry = Top.entry /\ f.at = "resume" /\ f.began = Top.began /\ Top.at = "begin"
    BY <1>8 DEF BeginFails, Places, Results
  <2> HIDE DEF f
  <2>2. ~f.began
    BY <1>p, <2>1 DEF Nested
  <2> QED BY <2>1, <2>2, TopPromises
<1>9. CASE Deadlock
  <2> DEFINE f == [Top EXCEPT !.at = PassAfterDeadlock, !.result = "ok"]
  <2>1. Top.tries > 0 /\ Deadlocks' = Deadlocks + 1 /\ Top.at = "body"
    BY <1>9, PassesLeft DEF Deadlock
  <2>2. PassAfterDeadlock = "try"
    BY <2>1 DEF PassAfterDeadlock
  <2>3. f \in Frame /\ SetTop(f) /\ f.entry = Top.entry /\ f.at = "try" /\ f.tries = Top.tries
    BY <1>9, <2>2 DEF Deadlock, Places, Results
  <2> HIDE DEF f
  <2>4. f.tries + Deadlocks' >= LockRetries
    BY <1>p, <2>1, <2>3 DEF Promising
  <2> QED BY <2>3, <2>4, TopPromises
<1>10. CASE DeadlockThenFault
  <2> DEFINE f == [Top EXCEPT !.at = "thrown", !.result = "thrown"]
  <2>1. f \in Frame /\ SetTop(f) /\ f.entry = Top.entry /\ f.at = "thrown" /\ IsError(f.result)
    BY <1>10 DEF DeadlockThenFault, Places, Results, IsError
  <2> HIDE DEF f
  <2> QED BY <2>1, TopPromises
<1>11. CASE CloseError
  <2> DEFINE f == [Top EXCEPT !.at = "resume"]
  <2>1. f \in Frame /\ SetTop(f) /\ f.entry = Top.entry /\ f.at = "resume" /\ f.result = Top.result
    BY <1>11 DEF CloseError, Places
  <2> HIDE DEF f
  <2>2. IsError(f.result)
    BY <1>11, <1>p, <2>1 DEF CloseError, Promising
  <2> QED BY <2>1, <2>2, TopPromises
<1>12. CASE CloseOk
  <2> DEFINE g == [Top EXCEPT !.at = "resume"]
             h == [Top EXCEPT !.at = "resume", !.result = "thrown"]
  <2>1. g \in Frame /\ g.at = "resume" /\ g.entry = Top.entry /\ g.wrote = Top.wrote /\ g.began = Top.began
    BY DEF Places
  <2>2. h \in Frame /\ h.at = "resume" /\ h.entry = Top.entry /\ IsError(h.result)
    BY DEF Places, Results, IsError
  <2>3. \/ SetTop(g) /\ ~Top.began
        \/ SetTop(g) /\ Ends("committed")
        \/ SetTop(h)
    <3>1. Top.began => cur # NoTx
      BY <1>12, <1>p DEF CloseOk, Nested, Working
    <3> QED BY <1>12, <3>1 DEF CloseOk, Commits, Refused
  <2>4. Top.at = "out"
    BY <1>12 DEF CloseOk
  <2> HIDE DEF g, h
  <2>5. CASE SetTop(g) /\ ~Top.began
    BY <2>1, <2>5, TopPromises
  <2>6. CASE SetTop(g) /\ Ends("committed")
    <3>1. cur # NoTx => tx'[cur].status = "committed"
      BY <2>6, StatusChange DEF Ends
    <3>2. g.began /\ g.wrote # NoTx => tx'[g.wrote].status = "committed"
      BY <1>p, <2>1, <2>4, <3>1 DEF Promising
    <3> QED BY <2>1, <2>6, <3>2, TopPromises
  <2>7. CASE SetTop(h)
    BY <2>2, <2>7, TopPromises
  <2> QED BY <2>3, <2>5, <2>6, <2>7
<1>13. CASE ResumeParent
  <2> DEFINE f == [Top EXCEPT !.at = "return", !.reply = Top.result]
  <2>1. f \in Frame /\ SetTop(f) /\ f.entry = Top.entry /\ f.at = "return" /\ f.result = Top.result
        /\ f.wrote = Top.wrote /\ f.began = Top.began /\ Top.at = "resume" /\ UNCHANGED tx
    BY <1>13 DEF ResumeParent, Finish, Places
  <2> HIDE DEF f
  <2>2. f.began /\ f.wrote # NoTx /\ ~IsError(f.result) => tx'[f.wrote].status = "committed"
    BY <1>p, <2>1 DEF Promising
  <2> QED BY <2>1, <2>2, TopPromises
<1>14. ASSUME NEW r \in Results, ReturnEca(r) PROVE SInv'
  <2> DEFINE f == [Top EXCEPT !.reply = r]
  <2>1. f \in Frame /\ SetTop(f) /\ f.entry = Top.entry /\ f.at = "return" /\ f.result = Top.result
        /\ f.wrote = Top.wrote /\ f.began = Top.began /\ Top.at = "return" /\ UNCHANGED tx
    BY <1>14 DEF ReturnEca
  <2> HIDE DEF f
  <2>2. f.began /\ f.wrote # NoTx /\ ~IsError(f.result) => tx'[f.wrote].status = "committed"
    BY <1>p, <2>1 DEF Promising
  <2> QED BY <2>1, <2>2, TopPromises
<1> QED BY <1>1, <1>2, <1>3, <1>4, <1>5, <1>6, <1>7, <1>8, <1>9, <1>10, <1>11, <1>12, <1>13, <1>14

\* The calls that are left when one is made or returns.
LEMMA ShiftPromises ==
  ASSUME SInv, WInv', StatusStep, HistoryStep, Deadlocks \in Nat, Deadlocks' \in Nat, Deadlocks' >= Deadlocks,
         Return \/ \E kind \in Kinds, login \in Logins : Call(kind, login)
  PROVE  SInv'
<1>0. NInv /\ stack \in Seq(Frame) /\ Len(stack) \in Nat
  BY LenProperties DEF SInv, WInv, NInv, TInv, TypeOK
<1>d. \A n \in Nat : LockRetries + n >= LockRetries
  OBVIOUS
<1>1. PromisesKept'
  BY PromisedStaysCommitted
<1>2. ASSUME NEW kind \in Kinds, NEW login \in Logins, Call(kind, login) PROVE SInv'
  <2> DEFINE f == [at |-> "begin", kind |-> kind, login |-> login, began |-> FALSE, parent |-> NoTx,
                   tries |-> FullTries, result |-> "ok", reply |-> "ok", wrote |-> NoTx, entry |-> cur]
  <2>1. f.at = "begin" /\ ~f.began /\ f.entry = cur /\ f.tries = LockRetries
        /\ stack' = <<f>> \o stack /\ UNCHANGED cur
    BY <1>2 DEF Call, FullTries
  <2>2. f \in Frame
    BY <1>0 DEF Frame, Places, Results, FullTries, NInv, TInv, TypeOK, Kinds
  <2> HIDE DEF f
  <2>3. /\ Len(stack') = Len(stack) + 1 /\ stack'[1] = f
        /\ \A i \in 2..Len(stack') : stack'[i] = stack[i - 1]
    BY <1>0, <2>1, <2>2, Push
  <2>4. ASSUME NEW i \in 1..Len(stack') PROVE Promising(i)'
    <3>1. CASE i = 1
      <4> HIDE DEF Deadlocks
      <4>1. LockRetries + Deadlocks' >= LockRetries
        BY <1>d
      <4> QED BY <2>1, <2>3, <3>1, <4>1 DEF Promising
    <3>2. CASE i # 1
      <4> DEFINE k == i - 1
      <4>1. k \in 1..Len(stack) /\ Promising(k) /\ stack'[i] = stack[k]
        BY <1>0, <2>3, <3>2 DEF SInv
      <4>2. TxOf(i)' = TxOf(k)
        <5>1. CASE k = 1
          BY <2>1, <2>3, <3>2, <5>1 DEF TxOf
        <5>2. CASE k # 1
          <6>1. i - 1 = k /\ i # 1 /\ k \in 2..Len(stack') /\ stack'[k] = stack[k - 1]
            BY <1>0, <2>3, <3>2, <5>2
          <6> QED BY <5>2, <6>1 DEF TxOf
        <5> QED BY <5>1, <5>2
      <4> HIDE DEF k
      <4> QED BY <4>1, <4>2, PromisesStay
    <3> QED BY <3>1, <3>2
  <2> QED BY <1>1, <2>4 DEF SInv
<1>3. CASE Return
  <2>1. InCall("return") /\ stack # <<>> /\ stack' = Tail(stack) /\ cur' = cur
    BY <1>3 DEF Return, InCall
  <2>2. /\ 1 \in 1..Len(stack) /\ Top = stack[1] /\ Len(stack') = Len(stack) - 1
        /\ \A i \in 1..Len(stack') : stack'[i] = stack[i + 1]
    BY <1>0, <2>1, Pop, TopIsFirst
  <2>3. cur = Top.entry
    BY <1>0, <2>1, <2>2 DEF NInv, Nested, TxOf, InCall
  <2>4. ASSUME NEW i \in 1..Len(stack') PROVE Promising(i)'
    <3> DEFINE k == i + 1
    <3>1. k \in 1..Len(stack) /\ Promising(k) /\ stack'[i] = stack[k]
      BY <1>0, <2>2 DEF SInv
    <3>2. TxOf(i)' = TxOf(k)
      <4>1. k - 1 = i /\ k # 1 /\ TxOf(k) = stack[i].entry
        BY <1>0, <2>2 DEF TxOf
      <4>2. CASE i = 1
        BY <2>1, <2>2, <2>3, <4>1, <4>2 DEF TxOf
      <4>3. CASE i # 1
        <5>1. i - 1 \in 1..Len(stack') /\ (i - 1) + 1 = i /\ stack'[i - 1] = stack[i]
          BY <1>0, <2>2, <4>3
        <5> QED BY <4>1, <4>3, <5>1 DEF TxOf
      <4> QED BY <4>2, <4>3
    <3> HIDE DEF k
    <3> QED BY <3>1, <3>2, PromisesStay
  <2> QED BY <1>1, <2>4 DEF SInv
<1> QED BY <1>2, <1>3

\* Every step keeps the promises.
LEMMA PromiseStep == MaxDeadlocks < LockRetries /\ SInv /\ [Calm]_vars => SInv'
<1> SUFFICES ASSUME MaxDeadlocks < LockRetries, SInv, [Calm]_vars PROVE SInv'
  OBVIOUS
<1>w. WInv'
  BY WorkStep DEF SInv
<1>1. CASE UNCHANGED vars
  BY <1>1, <1>w DEF vars, SInv, PromisesKept, Promising, TxOf, Deadlocks
<1>2. CASE Calm
  <2>1. StatusStep /\ HistoryStep
    BY <1>2, StatusSteps DEF SInv, WInv
  <2>2. Deadlocks \in Nat /\ Deadlocks' \in Nat /\ Deadlocks' >= Deadlocks
    BY <1>2, DeadlocksGrow DEF SInv, WInv, NInv, Calm
  <2>3. CASE Timeout
    <3>1. stack' = stack /\ cur' = cur
      BY <2>3 DEF Timeout
    <3>2. ASSUME NEW i \in 1..Len(stack') PROVE Promising(i)'
      <4>1. TxOf(i)' = TxOf(i) /\ i \in 1..Len(stack) /\ stack'[i] = stack[i] /\ Promising(i)
        BY <3>1 DEF TxOf, SInv
      <4> QED BY <2>1, <2>2, <4>1, PromisesStay
    <3>3. PromisesKept'
      BY <2>1, PromisedStaysCommitted
    <3> QED BY <1>w, <3>2, <3>3 DEF SInv
  <2>4. CASE Return \/ \E kind \in Kinds, login \in Logins : Call(kind, login)
    BY <1>w, <2>1, <2>2, <2>4, ShiftPromises
  <2>5. CASE \/ Join \/ Try \/ Throws \/ Write \/ (\E r \in {"ok", "error"} : BodyEnds(r) \/ Eca(r))
             \/ Begin \/ BeginFails \/ Deadlock \/ DeadlockThenFault
             \/ CloseError \/ CloseOk \/ ResumeParent \/ (\E r \in Results : ReturnEca(r))
    BY <1>w, <2>1, <2>2, <2>5, StepPromises
  <2> QED BY <1>2, <2>3, <2>4, <2>5 DEF Calm, ManagerFails, Next
<1> QED BY <1>1, <1>2

\* A call that began its transaction and reports success has committed its
\* work, if deadlocks are fewer than the passes of a call (with as many the
\* code reports a success that it has not committed).
THEOREM SuccessesAreCommitted == MaxDeadlocks < LockRetries => (Spec => []SuccessIsCommitted)
<1> SUFFICES ASSUME MaxDeadlocks < LockRetries PROVE Spec => []SuccessIsCommitted
  OBVIOUS
<1> DEFINE Inv == TInv /\ (TxManagerWorks => SInv)
<1>1. Init => Inv
  <2> SUFFICES ASSUME Init PROVE Inv
    OBVIOUS
  <2>1. Len(stack) = 0 /\ FailedIsDead /\ PromisesKept
    BY DEF Init, FailedIsDead, PromisesKept, UnusedTx
  <2> QED BY <2>1, InitTypes, InitNests DEF WInv, SInv
<1>2. Inv /\ [Next]_vars => Inv'
  BY TypeStep, CalmSteps, PromiseStep DEF TInv
<1>3. Inv => SuccessIsCommitted
  BY DEF SInv, PromisesKept, SuccessIsCommitted
<1> QED BY <1>1, <1>2, <1>3, PTL DEF Spec

-----------------------------------------------------------------------------
(* Causes of rollback *)

\* The saved causes are those of the calls with a suspended transaction, by
\* their place in the stack.
CausesBy(by) ==
  /\ by \in [DOMAIN causes -> DOMAIN stack]
  /\ \A i, j \in DOMAIN causes : i < j => by[i] < by[j]
  /\ \A k \in DOMAIN stack : HasSuspended(stack[k]) <=> \E i \in DOMAIN causes : by[i] = k
  /\ \A i \in DOMAIN causes : causes[i] => tx[stack[by[i]].parent].status = "marked"
CausesKept == \E by : CausesBy(by)

\* The cause of the thread is that of the transaction in place.
CauseInPlace == cause => cur # NoTx /\ tx[cur].status = "marked"

CInv == NInv /\ CauseInPlace /\ CausesKept

\* A suspended transaction that is marked stays so: only the current one is ended.
LEMMA SuspendedStayMarked ==
  ASSUME NInv, StatusStep, NEW i \in 1..Len(stack), HasSuspended(stack[i]),
         tx[stack[i].parent].status = "marked"
  PROVE  tx'[stack[i].parent].status = "marked"
<1>1. stack[i] \in Frame
  BY LenProperties DEF NInv, TInv, TypeOK
<1>2. stack[i].parent = stack[i].entry /\ stack[i].entry # NoTx /\ stack[i].entry \in TxIds
  <2>1. Nested(i) /\ stack[i].at \in Places /\ stack[i].parent \in TxIds \cup {NoTx}
    BY <1>1 DEF NInv, Frame
  <2>2. stack[i].parent # NoTx /\ stack[i].at # "return"
    BY DEF HasSuspended
  <2>3. stack[i].parent = stack[i].entry
    BY <2>1, <2>2 DEF Nested, Working, Places
  <2> QED BY <2>1, <2>2, <2>3
<1>3. tx'[stack[i].parent].status \in Live
  BY <1>2, EntriesLive
<1> QED BY <1>2, <1>3 DEF StatusStep, Live, Over

\* What every step needs of the stack and the saved causes.
LEMMA CauseDomains ==
  ASSUME TypeOK
  PROVE  /\ DOMAIN stack = 1..Len(stack) /\ Len(stack) \in Nat
         /\ DOMAIN causes = 1..Len(causes) /\ Len(causes) \in Nat
         /\ \A i \in DOMAIN causes : causes[i] \in BOOLEAN
BY LenProperties, ElementOfSeq DEF TypeOK

\* The innermost call neither suspends nor resumes.
LEMMA CausesStay ==
  ASSUME NInv, StatusStep, CausesKept, TypeOK', stack # <<>>, NEW f \in Frame, SetTop(f),
         HasSuspended(f) <=> HasSuspended(Top), f.parent = Top.parent, UNCHANGED causes
  PROVE  CausesKept'
<1> TypeOK
  BY DEF NInv, TInv
<1>1. PICK by : CausesBy(by)
  BY DEF CausesKept
<1>2. /\ DOMAIN stack = 1..Len(stack) /\ DOMAIN causes' = DOMAIN causes /\ DOMAIN stack' = DOMAIN stack
      /\ Len(stack) \in Nat /\ stack'[1] = f /\ Top = stack[1] /\ 1 \in DOMAIN stack
      /\ \A i \in 2..Len(stack) : stack'[i] = stack[i]
  BY CauseDomains, TopOnly, TopIsFirst, LenProperties DEF TypeOK
<1>3. ASSUME NEW k \in DOMAIN stack
      PROVE  /\ stack'[k].parent = stack[k].parent
             /\ HasSuspended(stack'[k]) <=> HasSuspended(stack[k])
  <2>1. CASE k = 1
    BY <2>1, <1>2
  <2>2. CASE k # 1
    <3>1. stack'[k] = stack[k]
      BY <1>2, <2>2
    <3> QED BY <3>1
  <2> QED BY <2>1, <2>2
<1>4. ASSUME NEW i \in DOMAIN causes, causes[i]
      PROVE  tx'[stack'[by[i]].parent].status = "marked"
  <2>1. by[i] \in 1..Len(stack) /\ HasSuspended(stack[by[i]]) /\ tx[stack[by[i]].parent].status = "marked"
    BY <1>1, <1>2, <1>4 DEF CausesBy
  <2> QED BY <2>1, <1>2, <1>3, SuspendedStayMarked
<1>5. /\ by \in [DOMAIN causes' -> DOMAIN stack']
      /\ \A i, j \in DOMAIN causes' : i < j => by[i] < by[j]
  BY <1>1, <1>2 DEF CausesBy
<1>6. \A k \in DOMAIN stack' : HasSuspended(stack'[k]) <=> \E i \in DOMAIN causes' : by[i] = k
  BY <1>1, <1>2, <1>3 DEF CausesBy
<1>7. \A i \in DOMAIN causes' : causes'[i] => tx'[stack'[by[i]].parent].status = "marked"
  BY <1>2, <1>4
<1> QED BY <1>5, <1>6, <1>7 DEF CausesKept, CausesBy

\* The innermost call suspends the transaction in place, with its cause.
LEMMA CausesGrow ==
  ASSUME NInv, StatusStep, CausesKept, TypeOK', stack # <<>>, NEW f \in Frame, SetTop(f),
         HasSuspended(f), ~HasSuspended(Top), causes' = <<cause>> \o causes,
         cause => tx'[f.parent].status = "marked"
  PROVE  CausesKept'
<1> TypeOK
  BY DEF NInv, TInv
<1>1. PICK by : CausesBy(by)
  BY DEF CausesKept
<1>2. /\ DOMAIN stack = 1..Len(stack) /\ DOMAIN stack' = DOMAIN stack
      /\ Len(stack) \in Nat /\ stack'[1] = f /\ Top = stack[1] /\ 1 \in DOMAIN stack
      /\ \A i \in 2..Len(stack) : stack'[i] = stack[i]
  BY CauseDomains, TopOnly, TopIsFirst, LenProperties DEF TypeOK
<1>3. /\ DOMAIN causes = 1..Len(causes) /\ Len(causes) \in Nat
      /\ DOMAIN causes' = 1..Len(causes) + 1 /\ causes'[1] = cause
      /\ \A i \in 2..Len(causes) + 1 : causes'[i] = causes[i - 1]
  <2>1. <<cause>> \in Seq(BOOLEAN) /\ Len(<<cause>>) = 1 /\ <<cause>>[1] = cause /\ causes \in Seq(BOOLEAN)
    BY DEF TypeOK
  <2>2. /\ Len(causes') = Len(causes) + 1 /\ causes'[1] = cause
        /\ \A i \in 2..Len(causes) + 1 : causes'[i] = causes[i - 1]
    BY <2>1, ConcatProperties, LenProperties
  <2>3. DOMAIN causes' = 1..Len(causes')
    BY LenProperties DEF TypeOK
  <2> QED BY <2>1, <2>2, <2>3, CauseDomains
<1> DEFINE by2 == [i \in 1..Len(causes) + 1 |-> IF i = 1 THEN 1 ELSE by[i - 1]]
<1>4. ASSUME NEW i \in DOMAIN causes' PROVE i = 1 \/ (i # 1 /\ i - 1 \in DOMAIN causes)
  BY <1>3
<1>5. ASSUME NEW i \in DOMAIN causes, NEW k, k = i + 1
      PROVE  k \in DOMAIN causes' /\ k # 1 /\ k - 1 = i /\ by2[k] = by[i]
  BY <1>3, <1>5
<1>6. ASSUME NEW i \in DOMAIN causes PROVE by[i] \in 2..Len(stack) /\ stack'[by[i]] = stack[by[i]]
  <2>1. by[i] \in 1..Len(stack) /\ HasSuspended(stack[by[i]])
    BY <1>1, <1>2 DEF CausesBy
  <2> QED BY <2>1, <1>2
<1>7. by2 \in [DOMAIN causes' -> DOMAIN stack']
  BY <1>2, <1>3, <1>4, <1>6
<1>8. ASSUME NEW i \in DOMAIN causes', NEW j \in DOMAIN causes', i < j PROVE by2[i] < by2[j]
  <2>1. j # 1 /\ j - 1 \in DOMAIN causes /\ by2[j] = by[j - 1]
    BY <1>3, <1>8
  <2>2. CASE i = 1
    BY <2>1, <2>2, <1>2, <1>3, <1>6
  <2>3. CASE i # 1
    <3>1. i - 1 \in DOMAIN causes /\ by2[i] = by[i - 1] /\ i - 1 < j - 1
      BY <1>3, <1>4, <1>8, <2>3
    <3> QED BY <2>1, <3>1, <1>1 DEF CausesBy
  <2> QED BY <2>2, <2>3
<1>9. ASSUME NEW k \in DOMAIN stack'
      PROVE  HasSuspended(stack'[k]) <=> \E i \in DOMAIN causes' : by2[i] = k
  <2>1. CASE k = 1
    <3>1. 1 \in DOMAIN causes' /\ by2[1] = 1
      BY <1>3
    <3> QED BY <2>1, <3>1, <1>2
  <2>2. CASE k # 1
    <3>1. stack'[k] = stack[k] /\ k \in DOMAIN stack
      BY <1>2, <2>2
    <3>2. ASSUME NEW i \in DOMAIN causes, by[i] = k PROVE \E l \in DOMAIN causes' : by2[l] = k
      <4>1. i + 1 \in DOMAIN causes' /\ by2[i + 1] = by[i]
        BY <1>5
      <4> QED BY <4>1, <3>2
    <3>3. ASSUME NEW l \in DOMAIN causes', by2[l] = k PROVE \E i \in DOMAIN causes : by[i] = k
      <4>1. l # 1 /\ by2[l] = by[l - 1]
        BY <1>3, <2>2, <3>3
      <4> QED BY <4>1, <1>4, <3>3
    <3> HIDE DEF by2
    <3> QED BY <3>1, <3>2, <3>3, <1>1 DEF CausesBy
  <2> QED BY <2>1, <2>2
<1>10. ASSUME NEW i \in DOMAIN causes', causes'[i]
       PROVE  tx'[stack'[by2[i]].parent].status = "marked"
  <2>1. CASE i = 1
    BY <2>1, <1>2, <1>3, <1>10
  <2>2. CASE i # 1
    <3> DEFINE j == i - 1
    <3>1. j \in DOMAIN causes /\ by2[i] = by[j] /\ causes'[i] = causes[j]
      BY <2>2, <1>3
    <3> HIDE DEF by2, j
    <3>2. by[j] \in 1..Len(stack) /\ HasSuspended(stack[by[j]]) /\ tx[stack[by[j]].parent].status = "marked"
      BY <3>1, <1>1, <1>2, <1>10 DEF CausesBy
    <3> QED BY <3>1, <3>2, <1>6, SuspendedStayMarked
  <2> QED BY <2>1, <2>2
<1> HIDE DEF by2
<1> QED BY <1>7, <1>8, <1>9, <1>10 DEF CausesKept, CausesBy

\* The innermost call has a suspended transaction: the first cause is its own,
\* and it resumes both.
LEMMA CausesShrink ==
  ASSUME NInv, StatusStep, CausesKept, TypeOK', stack # <<>>, NEW f \in Frame, SetTop(f),
         ~HasSuspended(f), HasSuspended(Top), causes' = Tail(causes)
  PROVE  CausesKept' /\ (Head(causes) => tx[Top.parent].status = "marked") /\ Head(causes) \in BOOLEAN
<1> TypeOK
  BY DEF NInv, TInv
<1>1. PICK by : CausesBy(by)
  BY DEF CausesKept
<1>2. /\ DOMAIN stack = 1..Len(stack) /\ DOMAIN stack' = DOMAIN stack
      /\ Len(stack) \in Nat /\ stack'[1] = f /\ Top = stack[1] /\ 1 \in DOMAIN stack
      /\ \A i \in 2..Len(stack) : stack'[i] = stack[i]
  BY CauseDomains, TopOnly, TopIsFirst, LenProperties DEF TypeOK
<1>3. DOMAIN causes = 1..Len(causes) /\ Len(causes) \in Nat
  BY CauseDomains
<1>4. 1 \in DOMAIN causes /\ by[1] = 1
  <2>1. PICK i \in DOMAIN causes : by[i] = 1
    BY <1>1, <1>2 DEF CausesBy
  <2>2. 1 \in DOMAIN causes /\ by[1] \in 1..Len(stack)
    BY <2>1, <1>1, <1>2, <1>3 DEF CausesBy
  <2>3. i # 1 => by[1] < by[i]
    BY <2>1, <2>2, <1>1, <1>3 DEF CausesBy
  <2> QED BY <2>1, <2>2, <2>3
<1>5. /\ causes # <<>> /\ Head(causes) = causes[1] /\ causes[1] \in BOOLEAN
      /\ DOMAIN causes' = 1..Len(causes) - 1
      /\ \A i \in 1..Len(causes) - 1 : causes'[i] = causes[i + 1]
  <2>1. causes \in Seq(BOOLEAN) /\ causes # <<>>
    BY <1>4, EmptySeq, LenProperties DEF TypeOK
  <2>2. causes[1] \in BOOLEAN
    BY <1>4, CauseDomains
  <2>3. DOMAIN causes' = 1..Len(causes')
    BY LenProperties DEF TypeOK
  <2> QED BY <2>1, <2>2, <2>3, HeadTailProperties
<1>6. Head(causes) => tx[Top.parent].status = "marked"
  BY <1>1, <1>2, <1>4, <1>5 DEF CausesBy
<1> DEFINE by2 == [i \in 1..Len(causes) - 1 |-> by[i + 1]]
<1>7. ASSUME NEW i \in DOMAIN causes'
      PROVE  /\ i + 1 \in DOMAIN causes /\ i + 1 # 1 /\ by2[i] = by[i + 1] /\ causes'[i] = causes[i + 1]
             /\ by[i + 1] \in 2..Len(stack) /\ stack'[by[i + 1]] = stack[by[i + 1]]
  <2>1. i + 1 \in DOMAIN causes /\ 1 < i + 1 /\ by2[i] = by[i + 1] /\ causes'[i] = causes[i + 1]
    BY <1>3, <1>5
  <2>2. by[1] < by[i + 1] /\ by[i + 1] \in 1..Len(stack)
    BY <2>1, <1>1, <1>2, <1>4 DEF CausesBy
  <2>3. by[i + 1] \in 2..Len(stack)
    BY <2>2, <1>2, <1>4
  <2> QED BY <2>1, <2>3, <1>2, <1>3
<1>8. by2 \in [DOMAIN causes' -> DOMAIN stack']
  BY <1>2, <1>5, <1>7
<1>9. ASSUME NEW i \in DOMAIN causes', NEW j \in DOMAIN causes', i < j PROVE by2[i] < by2[j]
  <2>1. i + 1 < j + 1
    BY <1>5, <1>9
  <2> QED BY <2>1, <1>1, <1>7 DEF CausesBy
<1>10. ASSUME NEW k \in DOMAIN stack'
       PROVE  HasSuspended(stack'[k]) <=> \E i \in DOMAIN causes' : by2[i] = k
  <2>1. CASE k = 1
    <3>1. ASSUME NEW i \in DOMAIN causes' PROVE by2[i] # 1
      BY <1>2, <1>7
    <3> QED BY <2>1, <3>1, <1>2
  <2>2. CASE k # 1
    <3>1. stack'[k] = stack[k] /\ k \in DOMAIN stack
      BY <1>2, <2>2
    <3>2. ASSUME NEW i \in DOMAIN causes, by[i] = k PROVE \E l \in DOMAIN causes' : by2[l] = k
      <4>1. i - 1 \in DOMAIN causes' /\ (i - 1) + 1 = i
        BY <1>3, <1>4, <1>5, <2>2, <3>2
      <4> QED BY <4>1, <1>7, <3>2
    <3>3. ASSUME NEW l \in DOMAIN causes', by2[l] = k PROVE \E i \in DOMAIN causes : by[i] = k
      BY <1>7, <3>3
    <3> HIDE DEF by2
    <3> QED BY <3>1, <3>2, <3>3, <1>1 DEF CausesBy
  <2> QED BY <2>1, <2>2
<1>11. ASSUME NEW i \in DOMAIN causes', causes'[i]
       PROVE  tx'[stack'[by2[i]].parent].status = "marked"
  <2> DEFINE j == i + 1
  <2>1. /\ j \in DOMAIN causes /\ by2[i] = by[j] /\ causes[j]
        /\ by[j] \in 1..Len(stack) /\ stack'[by[j]] = stack[by[j]]
    BY <1>7, <1>11, <1>2
  <2> HIDE DEF by2, j
  <2>2. HasSuspended(stack[by[j]]) /\ tx[stack[by[j]].parent].status = "marked"
    BY <2>1, <1>1, <1>2 DEF CausesBy
  <2> QED BY <2>1, <2>2, SuspendedStayMarked
<1> HIDE DEF by2
<1> QED BY <1>5, <1>6, <1>8, <1>9, <1>10, <1>11 DEF CausesKept, CausesBy

\* A new call leaves the others, and the causes of theirs.
LEMMA CallCauses ==
  ASSUME CInv, NInv', StatusStep, NEW kind \in Kinds, NEW login \in Logins, Call(kind, login)
  PROVE  CInv'
<1> DEFINE f == [at |-> "begin", kind |-> kind, login |-> login, began |-> FALSE, parent |-> NoTx,
                 tries |-> FullTries, result |-> "ok", reply |-> "ok", wrote |-> NoTx, entry |-> cur]
<1>1. /\ NInv /\ TypeOK /\ TypeOK' /\ ~HasSuspended(f) /\ stack' = <<f>> \o stack
      /\ UNCHANGED <<tx, cur, cause, causes>>
  BY DEF Call, CInv, NInv, TInv, HasSuspended
<1>2. f \in Frame
  BY <1>1 DEF Frame, Places, Results, FullTries, TypeOK, Kinds
<1> HIDE DEF f
<1>3. /\ DOMAIN stack = 1..Len(stack) /\ Len(stack) \in Nat /\ DOMAIN stack' = 1..Len(stack) + 1
      /\ stack'[1] = f /\ \A i \in 2..Len(stack) + 1 : stack'[i] = stack[i - 1]
  <2>1. Len(stack') = Len(stack) + 1 /\ stack'[1] = f /\ \A i \in 2..Len(stack') : stack'[i] = stack[i - 1]
    BY <1>1, <1>2, Push DEF TypeOK
  <2>2. DOMAIN stack' = 1..Len(stack')
    BY <1>1, LenProperties DEF TypeOK
  <2> QED BY <2>1, <2>2, <1>1, CauseDomains
<1>4. PICK by : CausesBy(by)
  BY DEF CInv, CausesKept
<1>5. DOMAIN causes = 1..Len(causes) /\ Len(causes) \in Nat
  BY <1>1, CauseDomains
<1> DEFINE by2 == [i \in DOMAIN causes |-> by[i] + 1]
<1>6. ASSUME NEW i \in DOMAIN causes
      PROVE  /\ by[i] \in 1..Len(stack) /\ by2[i] = by[i] + 1
             /\ by2[i] \in 2..Len(stack) + 1 /\ stack'[by2[i]] = stack[by[i]]
  <2>1. by[i] \in 1..Len(stack) /\ by2[i] = by[i] + 1
    BY <1>3, <1>4 DEF CausesBy
  <2>2. by2[i] \in 2..Len(stack) + 1 /\ by2[i] - 1 = by[i]
    BY <2>1, <1>3
  <2> HIDE DEF by2
  <2> QED BY <2>1, <2>2, <1>3
<1>7. by2 \in [DOMAIN causes -> DOMAIN stack']
  <2>1. \A i \in DOMAIN causes : by[i] + 1 \in DOMAIN stack'
    BY <1>3, <1>6
  <2> QED BY <2>1
<1>8. ASSUME NEW i \in DOMAIN causes, NEW j \in DOMAIN causes, i < j PROVE by2[i] < by2[j]
  <2>1. by[i] < by[j]
    BY <1>4, <1>8 DEF CausesBy
  <2> HIDE DEF by2
  <2> QED BY <2>1, <1>3, <1>6
<1>9. ASSUME NEW k \in DOMAIN stack'
      PROVE  HasSuspended(stack'[k]) <=> \E i \in DOMAIN causes : by2[i] = k
  <2> HIDE DEF by2
  <2>1. CASE k = 1
    <3>1. ASSUME NEW i \in DOMAIN causes PROVE by2[i] # 1
      BY <1>3, <1>6
    <3> QED BY <2>1, <3>1, <1>1, <1>3
  <2>2. CASE k # 1
    <3> DEFINE l == k - 1
    <3>1. l \in DOMAIN stack /\ stack'[k] = stack[l] /\ k = l + 1 /\ l \in Int
      BY <1>3, <2>2
    <3> HIDE DEF l
    <3>2. ASSUME NEW i \in DOMAIN causes PROVE by[i] = l <=> by2[i] = k
      BY <1>3, <1>6, <3>1
    <3>3. HasSuspended(stack[l]) <=> \E i \in DOMAIN causes : by[i] = l
      BY <1>4, <3>1 DEF CausesBy
    <3> QED BY <3>1, <3>2, <3>3
  <2> QED BY <2>1, <2>2
<1>10. ASSUME NEW i \in DOMAIN causes, causes[i] PROVE tx[stack'[by2[i]].parent].status = "marked"
  <2>1. tx[stack[by[i]].parent].status = "marked"
    BY <1>4, <1>10 DEF CausesBy
  <2> HIDE DEF by2
  <2> QED BY <2>1, <1>6
<1> HIDE DEF by2
<1>11. CausesKept'
  <2>1. causes' = causes /\ tx' = tx
    BY <1>1
  <2>2. /\ by2 \in [DOMAIN causes' -> DOMAIN stack']
        /\ \A i, j \in DOMAIN causes' : i < j => by2[i] < by2[j]
    BY <2>1, <1>7, <1>8
  <2>3. \A k \in DOMAIN stack' : HasSuspended(stack'[k]) <=> \E i \in DOMAIN causes' : by2[i] = k
    BY <2>1, <1>9
  <2>4. \A i \in DOMAIN causes' : causes'[i] => tx'[stack'[by2[i]].parent].status = "marked"
    BY <2>1, <1>10
  <2> QED BY <2>2, <2>3, <2>4 DEF CausesKept, CausesBy
<1> QED BY <1>1, <1>11 DEF CInv, CauseInPlace

\* A call that returns has resumed what it had suspended.
LEMMA ReturnCauses ==
  ASSUME CInv, NInv', StatusStep, Return
  PROVE  CInv'
<1>1. /\ NInv /\ TypeOK /\ TypeOK' /\ stack # <<>> /\ stack' = Tail(stack) /\ ~HasSuspended(Top)
      /\ UNCHANGED <<cur, cause, causes>>
  BY DEF Return, CInv, NInv, TInv, HasSuspended, InCall
<1>2. \A t \in TxIds : tx'[t].status = tx[t].status
  BY <1>1 DEF Return, Tx, TypeOK
<1>3. /\ DOMAIN stack = 1..Len(stack) /\ Len(stack) \in Nat /\ DOMAIN stack' = 1..Len(stack) - 1
      /\ stack[1] = Top /\ 1 \in DOMAIN stack
      /\ \A i \in 1..Len(stack) - 1 : stack'[i] = stack[i + 1]
  <2>1. Len(stack') = Len(stack) - 1 /\ \A i \in 1..Len(stack') : stack'[i] = stack[i + 1]
    BY <1>1, Pop DEF TypeOK
  <2>2. DOMAIN stack' = 1..Len(stack')
    BY <1>1, LenProperties DEF TypeOK
  <2> QED BY <2>1, <2>2, <1>1, CauseDomains, TopIsFirst DEF TypeOK
<1>4. PICK by : CausesBy(by)
  BY DEF CInv, CausesKept
<1>5. DOMAIN causes = 1..Len(causes) /\ Len(causes) \in Nat
  BY <1>1, CauseDomains
<1> DEFINE by2 == [i \in DOMAIN causes |-> by[i] - 1]
<1>6. ASSUME NEW i \in DOMAIN causes
      PROVE  /\ by[i] \in 2..Len(stack) /\ by2[i] = by[i] - 1
             /\ by2[i] \in 1..Len(stack) - 1 /\ stack'[by2[i]] = stack[by[i]]
  <2>1. by[i] \in 1..Len(stack) /\ by2[i] = by[i] - 1 /\ HasSuspended(stack[by[i]])
    BY <1>3, <1>4 DEF CausesBy
  <2>2. by[i] # 1
    BY <2>1, <1>1, <1>3
  <2>3. by[i] \in 2..Len(stack) /\ by2[i] \in 1..Len(stack) - 1 /\ by2[i] + 1 = by[i]
    BY <2>1, <2>2, <1>3
  <2> HIDE DEF by2
  <2> QED BY <2>1, <2>3, <1>3
<1>7. by2 \in [DOMAIN causes -> DOMAIN stack']
  <2>1. \A i \in DOMAIN causes : by[i] - 1 \in DOMAIN stack'
    BY <1>3, <1>6
  <2> QED BY <2>1
<1>8. ASSUME NEW i \in DOMAIN causes, NEW j \in DOMAIN causes, i < j PROVE by2[i] < by2[j]
  <2>1. by[i] < by[j]
    BY <1>4, <1>8 DEF CausesBy
  <2> HIDE DEF by2
  <2> QED BY <2>1, <1>3, <1>6
<1>9. ASSUME NEW k \in DOMAIN stack'
      PROVE  HasSuspended(stack'[k]) <=> \E i \in DOMAIN causes : by2[i] = k
  <2> HIDE DEF by2
  <2> DEFINE l == k + 1
  <2>1. l \in DOMAIN stack /\ stack'[k] = stack[l] /\ k = l - 1 /\ l \in Int
    BY <1>3
  <2> HIDE DEF l
  <2>2. ASSUME NEW i \in DOMAIN causes PROVE by[i] = l <=> by2[i] = k
    BY <1>3, <1>6, <2>1
  <2>3. HasSuspended(stack[l]) <=> \E i \in DOMAIN causes : by[i] = l
    BY <1>4, <2>1 DEF CausesBy
  <2> QED BY <2>1, <2>2, <2>3
<1>10. ASSUME NEW i \in DOMAIN causes, causes[i] PROVE tx'[stack'[by2[i]].parent].status = "marked"
  <2>1. tx[stack[by[i]].parent].status = "marked" /\ HasSuspended(stack[by[i]]) /\ by[i] \in 1..Len(stack)
    BY <1>3, <1>4, <1>10 DEF CausesBy
  <2>2. tx'[stack[by[i]].parent].status = "marked"
    BY <2>1, <1>1, SuspendedStayMarked
  <2> HIDE DEF by2
  <2> QED BY <2>2, <1>6
<1> HIDE DEF by2
<1>11. CausesKept'
  BY <1>1, <1>7, <1>8, <1>9, <1>10 DEF CausesKept, CausesBy
<1>12. CauseInPlace'
  BY <1>1, <1>2 DEF CInv, CauseInPlace, TypeOK
<1> QED BY <1>11, <1>12 DEF CInv

\* Steps that leave the transactions alone.
LEMMA PlainCauses ==
  ASSUME CInv, NInv', StatusStep,
         Join \/ Try \/ Throws \/ Write \/ (\E r \in {"ok", "error"} : BodyEnds(r) \/ Eca(r))
  PROVE  CInv'
<1> stack # <<>> /\ Top \in Frame /\ Top = stack[1] /\ TypeOK /\ TypeOK' /\ NInv /\ CausesKept /\ CauseInPlace
  BY TopIsFirst DEF InCall, Join, Try, Throws, Write, BodyEnds, Eca, CInv, NInv, TInv, TypeOK
<1>0. ASSUME NEW f \in Frame, SetTop(f), f.parent = Top.parent, f.at # "return", Top.at # "return",
             UNCHANGED <<tx, cur, cause, causes>>
      PROVE  CInv'
  <2>1. CausesKept'
    BY <1>0, CausesStay DEF HasSuspended
  <2> QED BY <1>0, <2>1 DEF CInv, CauseInPlace
<1> USE DEF InCall, GoOn
<1>1. CASE Join
  <2> DEFINE f == [Top EXCEPT !.at = "try"]
  <2>1. f \in Frame
    BY DEF Frame, Places
  <2>2. SetTop(f) /\ f.parent = Top.parent /\ f.at # "return" /\ Top.at = "begin"
        /\ UNCHANGED <<tx, cur, cause, causes>>
    BY <1>1 DEF Join, Frame
  <2> HIDE DEF f
  <2> QED BY <1>0, <2>1, <2>2
<1>2. CASE Try
  <2> DEFINE f == [Top EXCEPT !.at = "body", !.tries = @ - 1, !.wrote = NoTx]
  <2>1. Top.tries \in 0..LockRetries /\ Top.tries > 0 /\ LockRetries \in Nat
    BY <1>2, TopIsFirst DEF Try, NInv, TInv, TriesLeft, Frame, TypeOK
  <2>2. f \in Frame
    <3>1. Top.tries - 1 \in 0..LockRetries
      BY <2>1
    <3> QED BY <3>1 DEF Frame, Places
  <2>3. SetTop(f) /\ f.parent = Top.parent /\ f.at = "body" /\ Top.at = "try"
        /\ UNCHANGED <<tx, cur, cause, causes>>
    BY <1>2 DEF Try, Frame
  <2> HIDE DEF f
  <2> QED BY <1>0, <2>2, <2>3
<1>3. CASE Throws
  <2> DEFINE f == [Top EXCEPT !.at = "thrown", !.result = "thrown"]
  <2>1. f \in Frame
    BY DEF Frame, Places, Results
  <2>2. SetTop(f) /\ f.parent = Top.parent /\ f.at # "return" /\ Top.at # "return"
        /\ UNCHANGED <<tx, cur, cause, causes>>
    BY <1>3 DEF Throws, Frame
  <2> HIDE DEF f
  <2> QED BY <1>0, <2>1, <2>2
<1>4. CASE Write
  <2> DEFINE f == [Top EXCEPT !.wrote = cur]
  <2>1. f \in Frame
    BY DEF Frame, TypeOK
  <2>2. SetTop(f) /\ f.parent = Top.parent /\ f.at # "return" /\ Top.at = "body"
        /\ UNCHANGED <<tx, cur, cause, causes>>
    BY <1>4 DEF Write, Frame
  <2> HIDE DEF f
  <2> QED BY <1>0, <2>1, <2>2
<1>5. ASSUME NEW r \in {"ok", "error"}, BodyEnds(r) PROVE CInv'
  <2> DEFINE f == [Top EXCEPT !.at = "out", !.result = r]
  <2>1. f \in Frame
    BY DEF Frame, Places, Results
  <2>2. SetTop(f) /\ f.parent = Top.parent /\ f.at # "return" /\ Top.at = "body"
        /\ UNCHANGED <<tx, cur, cause, causes>>
    BY <1>5 DEF BodyEnds, Frame
  <2> HIDE DEF f
  <2> QED BY <1>0, <2>1, <2>2
<1>6. ASSUME NEW r \in {"ok", "error"}, Eca(r) PROVE CInv'
  <2> DEFINE f == [Top EXCEPT !.result = r]
  <2>1. f \in Frame
    BY DEF Frame, Results
  <2>2. SetTop(f) /\ f.parent = Top.parent /\ f.at # "return" /\ Top.at = "out"
        /\ UNCHANGED <<tx, cur, cause, causes>>
    BY <1>6 DEF Eca, Frame
  <2> HIDE DEF f
  <2> QED BY <1>0, <2>1, <2>2
<1> QED BY <1>1, <1>2, <1>3, <1>4, <1>5, <1>6

\* A transaction is ended with its cause, or marked with one.
LEMMA RollbackCauses ==
  ASSUME CauseInPlace, TypeOK, NEW b \in BOOLEAN, NEW o \in Outcomes, Rollback(b, o)
  PROVE  CauseInPlace'
<1> tx \in [TxIds -> Tx] /\ cur \in TxIds \cup {NoTx}
  BY DEF TypeOK
<1>1. CASE b
  BY <1>1 DEF Rollback, CauseInPlace
<1>2. CASE ~b
  <2>1. CASE cur # NoTx /\ tx[cur].status # "marked"
    <3>1. tx' = Status(cur, "marked") /\ cur' = cur
      BY <1>2, <2>1 DEF Rollback, MarkRollback
    <3> QED BY <2>1, <3>1, StatusChange DEF CauseInPlace
  <2>2. CASE ~(cur # NoTx /\ tx[cur].status # "marked")
    BY <1>2, <2>2 DEF Rollback, MarkRollback, CauseInPlace
  <2> QED BY <2>1, <2>2
<1> QED BY <1>1, <1>2

\* Steps of the innermost call that begin, end or resume a transaction.
LEMMA TransactionCauses ==
  ASSUME CInv, NInv', StatusStep,
         \/ Begin \/ BeginFails \/ Deadlock \/ DeadlockThenFault
         \/ CloseError \/ CloseOk \/ ResumeParent \/ (\E r \in Results : ReturnEca(r))
  PROVE  CInv'
<1> stack # <<>> /\ Top \in Frame /\ Top = stack[1] /\ TypeOK /\ TypeOK' /\ NInv /\ CausesKept /\ CauseInPlace
    /\ cur \in TxIds \cup {NoTx} /\ tx \in [TxIds -> Tx] /\ 1 \in 1..Len(stack) /\ Nested(1)
  BY TopIsFirst DEF InCall, Begin, BeginFails, Deadlock, DeadlockThenFault,
                    CloseError, CloseOk, ResumeParent, ReturnEca, CInv, NInv, TInv, TypeOK
<1>0. ASSUME NEW f \in Frame, SetTop(f), f.parent = Top.parent, f.at # "return", Top.at # "return",
             UNCHANGED causes, CauseInPlace'
      PROVE  CInv'
  <2>1. CausesKept'
    BY <1>0, CausesStay DEF HasSuspended
  <2> QED BY <1>0, <2>1 DEF CInv
<1>1. ASSUME NEW f \in Frame, SetTop(f), f.parent = cur, f.at # "return", InCall("begin"),
             IF cur # NoTx THEN Suspends ELSE UNCHANGED <<cause, causes>>
      PROVE  CausesKept' /\ ~cause'
  <2>1. Top.parent = NoTx /\ ~HasSuspended(Top)
    BY <1>1 DEF Nested, InCall, HasSuspended
  <2>2. CASE cur = NoTx
    BY <1>1, <2>1, <2>2, CausesStay DEF HasSuspended, CauseInPlace, TypeOK
  <2>3. CASE cur # NoTx
    <3>1. HasSuspended(f) /\ causes' = <<cause>> \o causes /\ ~cause'
      BY <1>1, <2>3 DEF HasSuspended, Suspends
    <3>2. cause => tx'[f.parent].status = "marked"
      <4>1. cur \in TxIds /\ Top.at = "begin"
        BY <1>1, <2>3 DEF InCall
      <4>2. Top.at \notin Working
        BY <4>1 DEF Working
      <4> QED BY <1>1, <2>3, <4>1, <4>2 DEF CauseInPlace, StatusStep
    <3> QED BY <1>1, <2>1, <3>1, <3>2, CausesGrow
  <2> QED BY <2>2, <2>3
<1>2. CASE Begin
  <2> DEFINE f == [Top EXCEPT !.at = "try", !.began = TRUE, !.parent = cur]
  <2>1. f \in Frame
    BY DEF Frame, Places
  <2>2. SetTop(f) /\ f.parent = cur /\ f.at = "try"
    BY <1>2 DEF Begin, Frame
  <2> HIDE DEF f
  <2>3. CausesKept' /\ ~cause'
    BY <1>1, <1>2, <2>1, <2>2 DEF Begin
  <2> QED BY <2>3 DEF CInv, CauseInPlace
<1>3. CASE BeginFails
  <2> DEFINE f == [Top EXCEPT !.at = "resume", !.result = "thrown", !.parent = cur]
  <2>1. f \in Frame
    BY DEF Frame, Places, Results
  <2>2. SetTop(f) /\ f.parent = cur /\ f.at = "resume"
    BY <1>3 DEF BeginFails, Frame
  <2> HIDE DEF f
  <2>3. CausesKept' /\ ~cause'
    BY <1>1, <1>3, <2>1, <2>2 DEF BeginFails
  <2> QED BY <2>3 DEF CInv, CauseInPlace
<1>4. CASE Deadlock
  <2> DEFINE f == [Top EXCEPT !.at = PassAfterDeadlock, !.result = "ok"]
  <2>1. f \in Frame
    BY DEF Frame, Places, Results, PassAfterDeadlock
  <2>2. SetTop(f) /\ f.parent = Top.parent /\ f.at \in {"try", "out"} /\ Top.at = "body"
    BY <1>4 DEF Deadlock, Frame, PassAfterDeadlock, InCall
  <2> HIDE DEF f
  <2>3. CauseInPlace' /\ UNCHANGED causes
    BY <1>4 DEF Deadlock, CauseInPlace
  <2> QED BY <1>0, <2>1, <2>2, <2>3
<1>5. CASE DeadlockThenFault
  <2> DEFINE f == [Top EXCEPT !.at = "thrown", !.result = "thrown"]
  <2>1. f \in Frame
    BY DEF Frame, Places, Results
  <2>o. PICK o \in Outcomes : Rollback(TRUE, o)
    BY <1>5 DEF DeadlockThenFault
  <2>2. CauseInPlace'
    BY <2>o, RollbackCauses
  <2>3. SetTop(f) /\ f.parent = Top.parent /\ f.at # "return" /\ Top.at = "body" /\ UNCHANGED causes
    BY <1>5 DEF DeadlockThenFault, InCall, Frame
  <2> HIDE DEF f
  <2> QED BY <1>0, <2>1, <2>2, <2>3
<1>6. CASE CloseError
  <2> DEFINE f == [Top EXCEPT !.at = "resume"]
  <2>1. f \in Frame
    BY DEF Frame, Places
  <2>o. PICK o \in Outcomes : Rollback(Top.began, o)
    BY <1>6 DEF CloseError, Outcomes
  <2>2. CauseInPlace'
    BY <2>o, RollbackCauses DEF Frame
  <2>3. SetTop(f) /\ f.parent = Top.parent /\ f.at # "return" /\ Top.at # "return" /\ UNCHANGED causes
    BY <1>6 DEF CloseError, InCall, GoOn, Frame
  <2> HIDE DEF f
  <2> QED BY <1>0, <2>1, <2>2, <2>3
<1>7. CASE CloseOk
  <2>1. CauseInPlace' /\ UNCHANGED causes /\ Top.at = "out"
    BY <1>7 DEF CloseOk, Ends, CauseInPlace, InCall
  <2> DEFINE f == [Top EXCEPT !.at = "resume"]
             g == [Top EXCEPT !.at = "resume", !.result = "thrown"]
  <2>2. SetTop(f) \/ SetTop(g)
    BY <1>7 DEF CloseOk, GoOn, Refused
  <2>3. /\ f \in Frame /\ f.parent = Top.parent /\ f.at # "return"
        /\ g \in Frame /\ g.parent = Top.parent /\ g.at # "return"
    BY DEF Frame, Places, Results
  <2> HIDE DEF f, g
  <2> QED BY <1>0, <2>1, <2>2, <2>3
<1>8. CASE ResumeParent
  <2> DEFINE f == [Top EXCEPT !.at = "return", !.reply = Top.result]
  <2>1. f \in Frame
    BY DEF Frame, Places
  <2>2. SetTop(f) /\ f.parent = Top.parent /\ ~HasSuspended(f) /\ Top.at = "resume" /\ UNCHANGED tx
    BY <1>8 DEF ResumeParent, Frame, Finish, InCall, HasSuspended
  <2> HIDE DEF f
  <2>3. CASE Top.parent = NoTx
    <3>1. UNCHANGED <<cur, cause, causes>> /\ ~HasSuspended(Top)
      BY <1>8, <2>3 DEF ResumeParent, HasSuspended
    <3>2. CausesKept'
      BY <2>1, <2>2, <3>1, CausesStay
    <3> QED BY <2>2, <3>1, <3>2 DEF CInv, CauseInPlace
  <2>4. CASE Top.parent # NoTx
    <3>1. HasSuspended(Top) /\ cur' = Top.parent /\ cause' = Head(causes) /\ causes' = Tail(causes)
      BY <1>8, <2>2, <2>4 DEF ResumeParent, HasSuspended
    <3>2. CausesKept' /\ (Head(causes) => tx[Top.parent].status = "marked")
      BY <2>1, <2>2, <3>1, CausesShrink
    <3> QED BY <2>2, <2>4, <3>1, <3>2 DEF CInv, CauseInPlace
  <2> QED BY <2>3, <2>4
<1>9. ASSUME NEW r \in Results, ReturnEca(r) PROVE CInv'
  <2> DEFINE f == [Top EXCEPT !.reply = r]
  <2>1. f \in Frame
    BY DEF Frame
  <2>2. SetTop(f) /\ f.parent = Top.parent /\ ~HasSuspended(f) /\ ~HasSuspended(Top)
        /\ UNCHANGED <<tx, cur, cause, causes>>
    BY <1>9 DEF ReturnEca, Frame, InCall, HasSuspended
  <2> HIDE DEF f
  <2>3. CausesKept'
    BY <2>1, <2>2, CausesStay
  <2> QED BY <2>2, <2>3 DEF CInv, CauseInPlace
<1> QED BY <1>2, <1>3, <1>4, <1>5, <1>6, <1>7, <1>8, <1>9

\* Every step keeps the causes with their transactions.
LEMMA CauseStep == CInv /\ [Calm]_vars => CInv'
<1> SUFFICES ASSUME CInv, [Calm]_vars PROVE CInv'
  OBVIOUS
<1>n. NInv /\ NInv' /\ TypeOK
  BY NestStep DEF CInv, NInv, TInv
<1>1. CASE UNCHANGED vars
  BY <1>1, <1>n DEF CInv, CauseInPlace, CausesKept, CausesBy, vars
<1>2. CASE Calm
  <2>1. StatusStep
    BY <1>2, <1>n, StatusSteps
  <2>2. CASE Timeout
    <3>1. PICK u \in TxIds : tx[u].status = "active" /\ tx' = Status(u, "doomed")
      BY <2>2 DEF Timeout
    <3>2. \A t \in TxIds : tx[t].status = "marked" => tx'[t].status = "marked"
      BY <3>1, <1>n, StatusChange DEF TypeOK
    <3>3. UNCHANGED <<cur, cause, causes, stack>>
      BY <2>2 DEF Timeout
    <3>4. CauseInPlace'
      BY <1>n, <3>2, <3>3 DEF CInv, CauseInPlace, TypeOK
    <3>5. PICK by : CausesBy(by)
      BY DEF CInv, CausesKept
    <3>6. ASSUME NEW i \in DOMAIN causes, causes[i] PROVE tx'[stack[by[i]].parent].status = "marked"
      <4>1. by[i] \in 1..Len(stack) /\ HasSuspended(stack[by[i]]) /\ tx[stack[by[i]].parent].status = "marked"
        BY <1>n, <3>5, <3>6, CauseDomains DEF CausesBy
      <4> QED BY <4>1, <2>1, <1>n, SuspendedStayMarked
    <3>7. CausesBy(by)'
      BY <3>3, <3>5, <3>6 DEF CausesBy
    <3> QED BY <1>n, <3>4, <3>7 DEF CInv, CausesKept
  <2>3. ASSUME NEW kind \in Kinds, NEW login \in Logins, Call(kind, login) PROVE CInv'
    BY <1>n, <2>1, <2>3, CallCauses
  <2>4. CASE Return
    BY <1>n, <2>1, <2>4, ReturnCauses
  <2>5. CASE \/ Begin \/ BeginFails \/ Deadlock \/ DeadlockThenFault
             \/ CloseError \/ CloseOk \/ ResumeParent \/ (\E r \in Results : ReturnEca(r))
    BY <1>n, <2>1, <2>5, TransactionCauses
  <2>6. CASE Join \/ Try \/ Throws \/ Write \/ (\E r \in {"ok", "error"} : BodyEnds(r) \/ Eca(r))
    BY <1>n, <2>1, <2>6, PlainCauses
  <2> QED BY <1>2, <2>2, <2>3, <2>4, <2>5, <2>6 DEF Calm, ManagerFails, Next
<1> QED BY <1>1, <1>2

\* In the beginning no cause is saved.
LEMMA InitCauses == Init => CInv
<1> SUFFICES ASSUME Init PROVE CInv
  OBVIOUS
<1>1. NInv /\ TypeOK
  BY InitNests DEF NInv, TInv
<1>2. stack = <<>> /\ causes = <<>> /\ DOMAIN stack = 1..0 /\ DOMAIN causes = 1..0
  BY <1>1, CauseDomains DEF Init
<1>3. CausesBy([i \in 1..0 |-> 1])
  BY <1>2 DEF CausesBy
<1> QED BY <1>1, <1>3 DEF Init, CInv, CausesKept, CauseInPlace

\* The cause for which work is refused is always that of the transaction in
\* place, however deep transactions are suspended under it and however they end.
THEOREM CausesFollow == Spec => []CauseFollowsTransaction
<1> DEFINE Inv == TInv /\ (TxManagerWorks => CInv)
<1>1. Init => Inv
  BY InitTypes, InitCauses
<1>2. Inv /\ [Next]_vars => Inv'
  BY TypeStep, CalmSteps, CauseStep DEF TInv
<1>3. Inv => CauseFollowsTransaction
  BY DEF CInv, CauseInPlace, CausesKept, CausesBy, CauseFollowsTransaction
<1> QED BY <1>1, <1>2, <1>3, PTL DEF Spec
=============================================================================
