---------------------------- MODULE SequenceBank ----------------------------
(***************************************************************************)
(* Primary keys from a shared sequence: SequenceUtil and its inner class   *)
(* SequenceBank (framework/entity/.../entity/util/SequenceUtil.java).      *)
(* Every server instance, and every delegator in it, keeps a bank of ids   *)
(* in memory and refills it from one row of SequenceValueItem, which the   *)
(* refill locks, reads and increments in a transaction of its own, on a    *)
(* connection of its own: that of its caller, suspended, keeps another one.*)
(*                                                                         *)
(* The methods of a bank are synchronized on it, so a bank does one thing  *)
(* at a time; different banks meet at the row only.                        *)
(***************************************************************************)
EXTENDS Naturals, FiniteSets

CONSTANTS
  Banks,            \* the SequenceBank objects for one sequence name
  NoBank, NoRow,
  PoolOf,           \* the connection pool that the instance of a bank has
  PoolSize,         \* pool-maxsize
  BankSize,         \* the entity's sequence-bank-size
  DefaultBankSize,  \* 10
  MaxBankSize,      \* 5000
  StartSeqId,       \* 10000
  MaxStagger,       \* the largest staggerMax that callers pass
  MaxFills          \* bound: refills that are begun

ASSUME BanksAssumption == NoBank \notin Banks
ASSUME PoolAssumption == PoolSize \in Nat
ASSUME RowAssumption == NoRow \notin Nat
ASSUME SizesAssumption ==
  /\ BankSize \in Nat \ {0} /\ DefaultBankSize \in Nat \ {0} /\ MaxBankSize \in Nat \ {0}
  /\ StartSeqId \in Nat
  /\ MaxStagger \in 1..MaxBankSize
ASSUME FillsAssumption == MaxFills \in Nat

VARIABLES
  row,      \* SequenceValueItem.seqId as committed; NoRow before the first insert
  lockedBy, \* the bank whose transaction holds the row (or its insertion)
  curSeqId, maxSeqId, \* per bank
  fill,     \* per bank: where fillBank is, for which stagger, and for whom
  fills,    \* how many refills were begun
  issued, answers  \* history: the ids handed out, and the calls answered with one

vars == <<row, lockedBy, curSeqId, maxSeqId, fill, fills, issued, answers>>

-----------------------------------------------------------------------------

Staggers == 1..MaxStagger
Steps == {"idle", "connect", "lock", "insert", "select", "increment", "filled"}
Fill == [at : Steps, stagger : Staggers, refresh : BOOLEAN,
         inTx : BOOLEAN]  \* the suspended transaction of the caller has a connection
Idle == [at |-> "idle", stagger |-> 1, refresh |-> FALSE, inTx |-> FALSE]

\* Ids a refill for this stagger takes from the row.
FillSize_NoStagger(s) == IF BankSize <= MaxBankSize THEN BankSize ELSE MaxBankSize
FillSize(s) == LET wanted == IF s > 1 THEN s * DefaultBankSize ELSE BankSize
               IN  IF wanted <= MaxBankSize THEN wanted ELSE MaxBankSize

\* The bank can answer from memory.
Serves(b, s) == curSeqId[b] + s <= maxSeqId[b]

At(b, step) == fill[b].at = step
Goto(b, step) == fill' = [fill EXCEPT ![b].at = step]

\* A connection of the pool is free.
Connected(b) == fill[b].at \in {"lock", "insert", "select", "increment"}
HasFree(b) == LET sharing == {c \in Banks : PoolOf[c] = PoolOf[b]}
              IN Cardinality({c \in sharing : fill[c].inTx}) + Cardinality({c \in sharing : Connected(c)})
                   < PoolSize

\* What the row says to the transaction that holds it.
RowValue_NoStart == row
RowValue == IF row = NoRow THEN StartSeqId ELSE row

Init == /\ row = NoRow
        /\ lockedBy = NoBank
        /\ curSeqId = [b \in Banks |-> 0]
        /\ maxSeqId = [b \in Banks |-> 0]
        /\ fill = [b \in Banks |-> Idle]
        /\ fills = 0
        /\ issued = {}
        /\ answers = 0

-----------------------------------------------------------------------------
(* The callers *)

\* Hands out curSeqId and moves on by the stagger.
Issue(b, s) == /\ issued' = issued \cup {curSeqId[b]}
               /\ answers' = answers + 1
               /\ curSeqId' = [curSeqId EXCEPT ![b] = @ + s]

\* getNextSeqId with ids left.  The stagger is drawn at random.
GetFromBank(b, s) ==
  /\ At(b, "idle") /\ Serves(b, s)
  /\ Issue(b, s)
  /\ UNCHANGED <<row, lockedBy, maxSeqId, fill, fills>>

\* getNextSeqId without: fillBank begins.  It suspends the caller's transaction.
GetNeedsFill(b, s, inTx) ==
  /\ At(b, "idle") /\ ~Serves(b, s) /\ fills < MaxFills
  /\ inTx => HasFree(b)
  /\ fill' = [fill EXCEPT ![b] = [at |-> "connect", stagger |-> s, refresh |-> FALSE, inTx |-> inTx]]
  /\ fills' = fills + 1
  /\ UNCHANGED <<row, lockedBy, curSeqId, maxSeqId, issued, answers>>

\* forceBankRefresh, after createSetNextSeqId met a duplicate key (stagger 1).
ForceRefresh(b, inTx) ==
  /\ At(b, "idle") /\ fills < MaxFills
  /\ inTx => HasFree(b)
  /\ curSeqId' = [curSeqId EXCEPT ![b] = maxSeqId[b]]
  /\ fill' = [fill EXCEPT ![b] = [at |-> "connect", stagger |-> 1, refresh |-> TRUE, inTx |-> inTx]]
  /\ fills' = fills + 1
  /\ UNCHANGED <<row, lockedBy, maxSeqId, issued, answers>>

\* Back from fillBank: getNextSeqId checks again and answers with an id or
\* with null.
Answer(b) ==
  LET s == fill[b].stagger IN
  /\ At(b, "filled")
  /\ IF ~fill[b].refresh /\ Serves(b, s) THEN Issue(b, s)
                                         ELSE UNCHANGED <<curSeqId, issued, answers>>
  /\ fill' = [fill EXCEPT ![b] = Idle]
  /\ UNCHANGED <<row, lockedBy, maxSeqId, fills>>

-----------------------------------------------------------------------------
(* fillBank *)

\* The refill's transaction takes a connection, or waits for one.
Connect(b) ==
  /\ At(b, "connect") /\ HasFree(b)
  /\ Goto(b, "lock")
  /\ UNCHANGED <<row, lockedBy, curSeqId, maxSeqId, fills, issued, answers>>

\* 1: an update without changes locks the row.  It waits while another
\* transaction holds it; it touches no row when there is none, and may miss
\* one that another transaction has inserted and not committed.
LockRow_NoLock(b) ==
  /\ At(b, "lock")
  /\ Goto(b, IF row # NoRow THEN "select" ELSE "insert")
  /\ UNCHANGED <<row, lockedBy, curSeqId, maxSeqId, fills, issued, answers>>
LockRow(b) ==
  /\ At(b, "lock")
  /\ \/ row # NoRow /\ lockedBy = NoBank /\ lockedBy' = b /\ Goto(b, "select")
     \/ row = NoRow /\ Goto(b, "insert") /\ UNCHANGED lockedBy
  /\ UNCHANGED <<row, curSeqId, maxSeqId, fills, issued, answers>>

\* 1bis: the insert waits for a concurrent one.  If that one has committed
\* this one fails, and the update is run again.
InsertRow(b) ==
  /\ At(b, "insert") /\ lockedBy = NoBank
  /\ lockedBy' = b
  /\ Goto(b, "select")
  /\ UNCHANGED <<row, curSeqId, maxSeqId, fills, issued, answers>>

\* 2: the locked row is read, straight into curSeqId.
SelectRow(b) ==
  /\ At(b, "select")
  /\ curSeqId' = [curSeqId EXCEPT ![b] = RowValue]
  /\ Goto(b, "increment")
  /\ UNCHANGED <<row, lockedBy, maxSeqId, fills, issued, answers>>

\* 3: the row is incremented and the transaction commits.
Increment(b) ==
  LET size == FillSize(fill[b].stagger) IN
  /\ At(b, "increment")
  /\ row' = RowValue + size
  /\ lockedBy' = IF lockedBy = b THEN NoBank ELSE lockedBy
  /\ maxSeqId' = [maxSeqId EXCEPT ![b] = curSeqId[b] + size]
  /\ Goto(b, "filled")
  /\ UNCHANGED <<curSeqId, fills, issued, answers>>

\* An exception anywhere in the transaction rolls it back (also when the
\* commit itself fails, which may have reached the database or not) and
\* empties the bank.  Waiting for a connection ends with one after
\* pool-sleeptime.
EmptyBank_KeepsMax(b) == curSeqId' = [curSeqId EXCEPT ![b] = 0] /\ UNCHANGED maxSeqId
EmptyBank(b) == /\ curSeqId' = [curSeqId EXCEPT ![b] = 0]
                /\ maxSeqId' = [maxSeqId EXCEPT ![b] = 0]
FillFails_PoolWaits(b) ==
  /\ Connected(b)
  /\ UNCHANGED row
  /\ lockedBy' = IF lockedBy = b THEN NoBank ELSE lockedBy
  /\ EmptyBank(b)
  /\ fill' = [fill EXCEPT ![b] = Idle]
  /\ UNCHANGED <<fills, issued, answers>>
FillFails(b) ==
  /\ At(b, "connect") \/ Connected(b)
  /\ \/ UNCHANGED row
     \/ At(b, "increment") /\ row' = RowValue + FillSize(fill[b].stagger)
  /\ lockedBy' = IF lockedBy = b THEN NoBank ELSE lockedBy
  /\ EmptyBank(b)
  /\ fill' = [fill EXCEPT ![b] = Idle]
  /\ UNCHANGED <<fills, issued, answers>>

\* The process ends, or refreshSequencer drops the bank: a new one is empty.
Discard(b) ==
  /\ lockedBy' = IF lockedBy = b THEN NoBank ELSE lockedBy
  /\ curSeqId' = [curSeqId EXCEPT ![b] = 0]
  /\ maxSeqId' = [maxSeqId EXCEPT ![b] = 0]
  /\ fill' = [fill EXCEPT ![b] = Idle]
  /\ UNCHANGED <<row, fills, issued, answers>>

-----------------------------------------------------------------------------

FillStep(b) == Connect(b) \/ LockRow(b) \/ InsertRow(b) \/ SelectRow(b) \/ Increment(b) \/ Answer(b)

Next == \E b \in Banks :
          \/ \E s \in Staggers : GetFromBank(b, s) \/ \E inTx \in BOOLEAN : GetNeedsFill(b, s, inTx)
          \/ \E inTx \in BOOLEAN : ForceRefresh(b, inTx)
          \/ FillStep(b)
          \/ FillFails(b) \/ Discard(b)

Spec == Init /\ [][Next]_vars

\* The database grants a lock to every transaction that keeps asking for it; the
\* pool promises a free connection to nobody, but gives up.
PoolGivesUp(b) == At(b, "connect") /\ FillFails(b)
FairSpec == Spec /\ \A b \in Banks : /\ WF_vars(FillStep(b)) /\ SF_vars(LockRow(b) \/ InsertRow(b))
                                     /\ WF_vars(PoolGivesUp(b))

-----------------------------------------------------------------------------
(* Properties *)

\* Every variable keeps its type.
TypeOK == /\ row \in Nat \cup {NoRow}
          /\ lockedBy \in Banks \cup {NoBank}
          /\ curSeqId \in [Banks -> Nat]
          /\ maxSeqId \in [Banks -> Nat]
          /\ fill \in [Banks -> Fill]
          /\ fills \in Nat
          /\ issued \subseteq Nat
          /\ answers \in Nat

\* No id is handed out twice, by whichever banks, after whatever failures of
\* a refill: the sequence implements the abstract source of ids.
Source == INSTANCE IdSource
IdsAreUnique == Source!Spec

\* What two banks may still hand out never overlaps, whatever each of them is
\* doing, and nothing of it has been handed out: the ranges come from disjoint
\* increments of the row.
Unissued(b) == curSeqId[b] .. (maxSeqId[b] - 1)
BanksAreDisjoint ==
  \A b, c \in Banks :
    /\ b # c => Unissued(b) \cap Unissued(c) = {}
    /\ Unissued(b) \cap issued = {}

\* A refill that came back without an error has enough ids for the caller it
\* was made for: null is answered after errors only.
FilledBankServes ==
  \A b \in Banks : At(b, "filled") => Serves(b, fill[b].stagger)

\* A caller that waits for a refill gets its answer, although the banks
\* compete for the row, refills fail, and callers can hold all connections of the
\* pool from which their refills need one.
EveryFillEnds == \A b \in Banks : ~At(b, "idle") ~> At(b, "idle")
=============================================================================
