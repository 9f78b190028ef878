------------------------ MODULE SequenceBank_proofs ------------------------
(***************************************************************************)
(* Proofs about SequenceBank, for every number of banks, every bank size   *)
(* and every number of refills.                                            *)
(*                                                                         *)
(* The argument: a bank works on the row only while it holds it, so what   *)
(* it read is what it increments; every range taken ends at or below the   *)
(* committed row and begins where all earlier ones have ended.             *)
(***************************************************************************)
EXTENDS SequenceBank, TLAPS

USE BanksAssumption, RowAssumption, SizesAssumption, FillsAssumption

\* The bank whose refill is between the lock and the commit holds the row,
\* and nobody else does.
LockFollowsStep ==
  \A b \in Banks : lockedBy = b <=> fill[b].at \in {"select", "increment"}

\* What was read under the lock is what the row still says.
ReadIsCurrent == \A b \in Banks : At(b, "increment") => curSeqId[b] = RowValue

\* No bank reaches beyond the committed row, and no id beyond it is out.
BelowRow == /\ \A b \in Banks : maxSeqId[b] <= RowValue
            /\ \A n \in issued : n < RowValue

\* BanksAreDisjoint is preserved only together with the four facts above it.
IInv == /\ TypeOK
        /\ LockFollowsStep
        /\ ReadIsCurrent
        /\ BelowRow
        /\ BanksAreDisjoint
        /\ FilledBankServes

-----------------------------------------------------------------------------
(* The size of a refill *)

\* A stagger times the default bank size is no less than the stagger.
LEMMA StaggerTimesDefault ==
  ASSUME NEW s \in Staggers
  PROVE  s * DefaultBankSize \in Nat /\ s <= s * DefaultBankSize
<1>1. \A i, j \in Nat : i * j \in Nat
  OBVIOUS
<1>2. \A i \in Nat, j \in Nat \ {0} : i <= i * j
  <2> SUFFICES ASSUME NEW i \in Nat, NEW j \in Nat \ {0} PROVE i <= i * j
    OBVIOUS
  <2>1. j - 1 \in Nat /\ i * (j - 1) \in Nat
    BY <1>1
  <2>2. i * j = i + i * (j - 1)
    OBVIOUS
  <2> QED BY <2>1, <2>2
<1> QED BY <1>1, <1>2 DEF Staggers

\* A refill takes a natural number of ids, and enough for its stagger.
LEMMA FillSizeCovers ==
  ASSUME NEW s \in Staggers
  PROVE  FillSize(s) \in Nat /\ s <= FillSize(s)
<1> DEFINE wanted == IF s > 1 THEN s * DefaultBankSize ELSE BankSize
<1>1. wanted \in Nat /\ s <= wanted
  BY StaggerTimesDefault DEF Staggers
<1>2. s <= MaxBankSize
  BY DEF Staggers
<1>3. FillSize(s) = IF wanted <= MaxBankSize THEN wanted ELSE MaxBankSize
  BY DEF FillSize
<1> HIDE DEF wanted
<1> QED BY <1>1, <1>2, <1>3

-----------------------------------------------------------------------------
(* Types *)

\* Handing out an id keeps the types of what it changes.
LEMMA IssueTypes ==
  ASSUME TypeOK, NEW b \in Banks, NEW s \in Staggers, Issue(b, s)
  PROVE  /\ curSeqId' \in [Banks -> Nat]
         /\ issued' \subseteq Nat
         /\ answers' \in Nat
<1>1. curSeqId[b] \in Nat /\ s \in Nat
  BY DEF TypeOK, Staggers
<1>2. curSeqId' \in [Banks -> Nat]
  BY <1>1 DEF TypeOK, Issue
<1>3. issued' \subseteq Nat
  BY <1>1 DEF TypeOK, Issue
<1>4. answers' \in Nat
  BY DEF TypeOK, Issue
<1> QED BY <1>2, <1>3, <1>4

\* Every step keeps the types.
LEMMA TypeStep == TypeOK /\ [Next]_vars => TypeOK'
<1> SUFFICES ASSUME TypeOK, [Next]_vars PROVE TypeOK'
  OBVIOUS
<1> USE DEF TypeOK, Fill, Steps
<1>r. RowValue \in Nat
  BY DEF RowValue
<1>1. CASE UNCHANGED vars
  BY <1>1 DEF vars
<1>2. ASSUME NEW b \in Banks, NEW s \in Staggers, GetFromBank(b, s) PROVE TypeOK'
  BY <1>2, IssueTypes DEF GetFromBank
<1>6. ASSUME NEW b \in Banks, NEW s \in Staggers, NEW inTx \in BOOLEAN, GetNeedsFill(b, s, inTx)
      PROVE  TypeOK'
  BY <1>6 DEF GetNeedsFill
<1>3. ASSUME NEW b \in Banks, NEW inTx \in BOOLEAN, ForceRefresh(b, inTx) PROVE TypeOK'
  BY <1>3 DEF ForceRefresh, Staggers
<1>4. ASSUME NEW b \in Banks, FillStep(b) PROVE TypeOK'
  <2>1. CASE Connect(b) \/ LockRow(b)
    BY <2>1 DEF Connect, LockRow, Goto
  <2>2. CASE InsertRow(b)
    BY <2>2 DEF InsertRow, Goto
  <2>3. CASE SelectRow(b)
    BY <2>3, <1>r DEF SelectRow, Goto
  <2>4. CASE Increment(b)
    <3>1. FillSize(fill[b].stagger) \in Nat
      BY FillSizeCovers
    <3> QED BY <2>4, <3>1, <1>r DEF Increment, Goto
  <2>5. CASE Answer(b)
    <3>1. Idle \in Fill
      BY DEF Idle, Staggers
    <3>2. fill' \in [Banks -> Fill]
      BY <2>5, <3>1 DEF Answer
    <3>3. /\ curSeqId' \in [Banks -> Nat]
          /\ issued' \subseteq Nat
          /\ answers' \in Nat
      BY <2>5, IssueTypes DEF Answer
    <3> QED BY <2>5, <3>2, <3>3 DEF Answer
  <2> QED BY <1>4, <2>1, <2>2, <2>3, <2>4, <2>5 DEF FillStep
<1>5. ASSUME NEW b \in Banks, FillFails(b) \/ Discard(b) PROVE TypeOK'
  <2>1. FillSize(fill[b].stagger) \in Nat
    BY FillSizeCovers
  <2>2. Idle \in Fill
    BY DEF Idle, Staggers
  <2>3. CASE FillFails(b)
    BY <2>1, <2>2, <2>3, <1>r DEF FillFails, EmptyBank
  <2>4. CASE Discard(b)
    BY <2>2, <2>4 DEF Discard
  <2> QED BY <1>5, <2>3, <2>4
<1> QED BY <1>1, <1>2, <1>3, <1>4, <1>5, <1>6 DEF Next

\* TypeOK holds in every reachable state.
THEOREM TypeCorrect == Spec => []TypeOK
<1>1. Init => TypeOK
  BY DEF Init, TypeOK, Fill, Steps, Idle, Staggers
<1> QED BY <1>1, TypeStep, PTL DEF Spec

-----------------------------------------------------------------------------
(* The lock *)

Gets(b) == \E s \in Staggers : GetFromBank(b, s) \/ \E inTx \in BOOLEAN : GetNeedsFill(b, s, inTx)
Refreshes(b) == \E inTx \in BOOLEAN : ForceRefresh(b, inTx)
BankStep(b) == Gets(b) \/ Refreshes(b) \/ FillStep(b) \/ FillFails(b) \/ Discard(b)

\* A step of one bank leaves the others alone.
LEMMA OthersKeep ==
  ASSUME TypeOK, NEW b \in Banks, BankStep(b), NEW c \in Banks \ {b}
  PROVE  fill'[c] = fill[c] /\ curSeqId'[c] = curSeqId[c] /\ maxSeqId'[c] = maxSeqId[c]
<1> USE DEF TypeOK
<1>1. CASE Gets(b)
  BY <1>1 DEF Gets, GetFromBank, GetNeedsFill, Issue
<1>2. CASE Refreshes(b)
  BY <1>2 DEF Refreshes, ForceRefresh
<1>3. CASE FillStep(b)
  BY <1>3 DEF FillStep, Connect, LockRow, InsertRow, SelectRow, Increment, Answer, Goto, Issue
<1>4. CASE FillFails(b) \/ Discard(b)
  BY <1>4 DEF FillFails, EmptyBank, Discard
<1> QED BY <1>1, <1>2, <1>3, <1>4 DEF BankStep

\* The lock is taken with the step to "select" and given back with the step
\* after "increment".
LEMMA LockStep ==
  ASSUME TypeOK, LockFollowsStep, NEW b \in Banks, BankStep(b)
  PROVE  LockFollowsStep'
<1>1. /\ lockedBy' = b <=> fill'[b].at \in {"select", "increment"}
      /\ lockedBy' = lockedBy \/ (lockedBy \in {b, NoBank} /\ lockedBy' \in {b, NoBank})
  <2> USE DEF TypeOK, LockFollowsStep, At
  <2>1. CASE Gets(b)
    BY <2>1 DEF Gets, GetFromBank, GetNeedsFill
  <2>2. CASE Refreshes(b)
    BY <2>2 DEF Refreshes, ForceRefresh
  <2>3. CASE Connect(b) \/ LockRow(b) \/ InsertRow(b)
    BY <2>3 DEF Connect, LockRow, InsertRow, Goto, Fill
  <2>4. CASE SelectRow(b) \/ Increment(b)
    BY <2>4 DEF SelectRow, Increment, Goto, Fill
  <2>5. CASE Answer(b)
    BY <2>5 DEF Answer, Idle
  <2>6. CASE FillFails(b) \/ Discard(b)
    BY <2>6 DEF FillFails, Discard, Idle
  <2> QED BY <2>1, <2>2, <2>3, <2>4, <2>5, <2>6 DEF BankStep, FillStep
<1>2. ASSUME NEW c \in Banks \ {b}
      PROVE  lockedBy' = c <=> fill'[c].at \in {"select", "increment"}
  BY <1>1, <1>2, OthersKeep DEF LockFollowsStep, TypeOK
<1> QED BY <1>1, <1>2 DEF LockFollowsStep

\* The row changes under the lock only, so what was read stays current.
LEMMA ReadStep ==
  ASSUME TypeOK, LockFollowsStep, ReadIsCurrent, NEW b \in Banks, BankStep(b)
  PROVE  ReadIsCurrent'
<1>1. row' = row \/ At(b, "increment")
  <2>1. CASE Gets(b)
    BY <2>1 DEF Gets, GetFromBank, GetNeedsFill
  <2>2. CASE Refreshes(b)
    BY <2>2 DEF Refreshes, ForceRefresh
  <2>3. CASE FillStep(b)
    BY <2>3 DEF FillStep, Connect, LockRow, InsertRow, SelectRow, Increment, Answer
  <2>4. CASE FillFails(b) \/ Discard(b)
    BY <2>4 DEF FillFails, Discard
  <2> QED BY <2>1, <2>2, <2>3, <2>4 DEF BankStep
<1>2. ASSUME At(b, "increment")' PROVE curSeqId'[b] = RowValue'
  <2> USE DEF TypeOK, Fill, At
  <2>1. SelectRow(b)
    <3>1. CASE Gets(b)
      BY <1>2, <3>1 DEF Gets, GetFromBank, GetNeedsFill
    <3>2. CASE Refreshes(b)
      BY <1>2, <3>2 DEF Refreshes, ForceRefresh
    <3>3. CASE Connect(b) \/ LockRow(b) \/ InsertRow(b) \/ Increment(b)
      BY <1>2, <3>3 DEF Connect, LockRow, InsertRow, Increment, Goto
    <3>4. CASE Answer(b) \/ FillFails(b) \/ Discard(b)
      BY <1>2, <3>4 DEF Answer, FillFails, Discard, Idle
    <3> QED BY <3>1, <3>2, <3>3, <3>4 DEF BankStep, FillStep
  <2> QED BY <2>1 DEF SelectRow, RowValue
<1>3. ASSUME NEW c \in Banks \ {b}, At(c, "increment")' PROVE curSeqId'[c] = RowValue'
  <2>1. At(c, "increment") /\ curSeqId'[c] = curSeqId[c]
    BY <1>3, OthersKeep DEF At
  <2>2. row' = row
    BY <1>1, <2>1 DEF LockFollowsStep, At
  <2> QED BY <2>1, <2>2 DEF ReadIsCurrent, RowValue
<1> QED BY <1>2, <1>3 DEF ReadIsCurrent

-----------------------------------------------------------------------------
(* The ranges *)

\* What a step may do to the range a bank may still hand out: keep it or give
\* it up, hand out its first id, or replace it by what the row is raised by.
Keeps(b) == /\ RowValue <= RowValue' /\ maxSeqId'[b] <= maxSeqId[b]
            /\ Unissued(b)' \subseteq Unissued(b)
            /\ UNCHANGED <<issued, answers>>
HandsOut(b) == /\ RowValue' = RowValue /\ maxSeqId'[b] = maxSeqId[b]
               /\ curSeqId[b] \in Unissued(b)
               /\ Unissued(b)' \subseteq Unissued(b) \ {curSeqId[b]}
               /\ issued' = issued \cup {curSeqId[b]}
               /\ answers' = answers + 1
Takes(b) == /\ RowValue <= RowValue' /\ maxSeqId'[b] = RowValue'
            /\ Unissued(b)' = RowValue .. (RowValue' - 1)
            /\ UNCHANGED <<issued, answers>>

\* An answer with an id takes the first of the bank's range.
LEMMA IssueHandsOut ==
  ASSUME TypeOK, NEW b \in Banks, NEW s \in Staggers,
         Serves(b, s), Issue(b, s), UNCHANGED <<row, maxSeqId>>
  PROVE  HandsOut(b)
<1>1. /\ curSeqId[b] \in Nat /\ maxSeqId[b] \in Nat /\ s \in Nat \ {0}
      /\ curSeqId[b] + s <= maxSeqId[b]
      /\ curSeqId'[b] = curSeqId[b] + s /\ maxSeqId'[b] = maxSeqId[b]
  BY DEF TypeOK, Staggers, Serves, Issue
<1>2. curSeqId[b] \in Unissued(b)
  BY <1>1 DEF Unissued
<1>3. Unissued(b)' \subseteq Unissued(b) \ {curSeqId[b]}
  BY <1>1 DEF Unissued
<1> QED BY <1>1, <1>2, <1>3 DEF HandsOut, Issue, RowValue

\* An emptied bank has nothing left to hand out.
LEMMA EmptyKeeps ==
  ASSUME TypeOK, NEW b \in Banks, curSeqId'[b] = 0, maxSeqId'[b] = 0,
         RowValue <= RowValue', UNCHANGED <<issued, answers>>
  PROVE  Keeps(b)
BY DEF TypeOK, Keeps, Unissued

\* Every step of a bank is one of the three.
LEMMA StepKinds ==
  ASSUME IInv, NEW b \in Banks, BankStep(b)
  PROVE  Keeps(b) \/ HandsOut(b) \/ Takes(b)
<1> TypeOK
  BY DEF IInv
<1>r. RowValue \in Nat /\ curSeqId[b] \in Nat /\ maxSeqId[b] \in Nat
  BY DEF TypeOK, RowValue
<1>u. ASSUME UNCHANGED <<curSeqId, maxSeqId, row, issued, answers>> PROVE Keeps(b)
  BY <1>u, <1>r DEF Keeps, Unissued, RowValue
<1>z. FillSize(fill[b].stagger) \in Nat
  BY FillSizeCovers DEF TypeOK, Fill
<1>1. ASSUME NEW s \in Staggers, GetFromBank(b, s) PROVE HandsOut(b)
  BY <1>1, IssueHandsOut DEF GetFromBank
<1>2. ASSUME NEW s \in Staggers, NEW inTx \in BOOLEAN, GetNeedsFill(b, s, inTx) PROVE Keeps(b)
  BY <1>2, <1>u DEF GetNeedsFill
<1>3. CASE Refreshes(b)
  <2>1. curSeqId'[b] = maxSeqId[b] /\ maxSeqId'[b] = maxSeqId[b] /\ row' = row
    BY <1>3 DEF Refreshes, ForceRefresh, TypeOK
  <2>2. Unissued(b)' = {}
    BY <2>1, <1>r DEF Unissued
  <2> QED BY <1>3, <2>1, <2>2, <1>r DEF Keeps, Refreshes, ForceRefresh, RowValue
<1>4. CASE Connect(b) \/ LockRow(b) \/ InsertRow(b)
  BY <1>4, <1>u DEF Connect, LockRow, InsertRow
<1>5. CASE SelectRow(b)
  <2>1. curSeqId'[b] = RowValue /\ maxSeqId'[b] = maxSeqId[b] /\ row' = row
    BY <1>5 DEF SelectRow, TypeOK
  <2>2. maxSeqId[b] <= RowValue
    BY DEF IInv, BelowRow
  <2>3. Unissued(b)' = {}
    BY <2>1, <2>2, <1>r DEF Unissued
  <2> QED BY <1>5, <2>1, <2>3, <1>r DEF Keeps, SelectRow, RowValue
<1>6. CASE Increment(b)
  <2> DEFINE size == FillSize(fill[b].stagger)
  <2>1. curSeqId[b] = RowValue
    BY <1>6 DEF Increment, IInv, ReadIsCurrent
  <2>2. row' = RowValue + size /\ RowValue' = RowValue + size
    BY <1>6, <1>r, <1>z DEF Increment, RowValue
  <2>3. curSeqId'[b] = RowValue /\ maxSeqId'[b] = RowValue + size
    BY <1>6, <2>1 DEF Increment, TypeOK
  <2> QED BY <1>6, <2>2, <2>3, <1>r, <1>z DEF Takes, Unissued, Increment
<1>7. CASE Answer(b)
  <2>1. fill[b].stagger \in Staggers
    BY DEF TypeOK, Fill
  <2>2. CASE ~fill[b].refresh /\ Serves(b, fill[b].stagger)
    <3>1. Issue(b, fill[b].stagger) /\ UNCHANGED <<row, maxSeqId>>
      BY <1>7, <2>2 DEF Answer
    <3> QED BY <2>1, <2>2, <3>1, IssueHandsOut
  <2>3. CASE ~(~fill[b].refresh /\ Serves(b, fill[b].stagger))
    BY <1>7, <2>3, <1>u DEF Answer
  <2> QED BY <2>2, <2>3
<1>8. CASE FillFails(b)
  <2>1. RowValue <= RowValue'
    <3>1. CASE row' = row
      BY <3>1, <1>r DEF RowValue
    <3>2. CASE row' = RowValue + FillSize(fill[b].stagger)
      <4>1. RowValue + FillSize(fill[b].stagger) \in Nat
        BY <1>r, <1>z
      <4>2. RowValue' = RowValue + FillSize(fill[b].stagger)
        BY <3>2, <4>1 DEF RowValue
      <4> QED BY <4>2, <1>r, <1>z
    <3> QED BY <1>8, <3>1, <3>2 DEF FillFails
  <2>2. curSeqId'[b] = 0 /\ maxSeqId'[b] = 0
    BY <1>8 DEF FillFails, EmptyBank, TypeOK
  <2> QED BY <1>8, <2>1, <2>2, EmptyKeeps DEF FillFails
<1>9. CASE Discard(b)
  <2>1. curSeqId'[b] = 0 /\ maxSeqId'[b] = 0 /\ RowValue' = RowValue
    BY <1>9 DEF Discard, TypeOK, RowValue
  <2> QED BY <1>9, <2>1, <1>r, EmptyKeeps DEF Discard
<1> QED BY <1>1, <1>2, <1>3, <1>4, <1>5, <1>6, <1>7, <1>8, <1>9 DEF BankStep, Gets, FillStep

\* A range that is kept, shrunk or taken anew stays below the row.
LEMMA BelowRowStep ==
  ASSUME IInv, TypeOK', NEW b \in Banks, BankStep(b)
  PROVE  BelowRow'
<1>1. /\ RowValue \in Nat /\ RowValue' \in Nat /\ curSeqId[b] \in Nat
      /\ issued \subseteq Nat
      /\ \A c \in Banks : maxSeqId[c] \in Nat /\ maxSeqId'[c] \in Nat
  BY DEF IInv, TypeOK, RowValue
<1>2. RowValue <= RowValue' /\ maxSeqId'[b] <= RowValue'
  <2>1. maxSeqId[b] <= RowValue
    BY DEF IInv, BelowRow
  <2>2. CASE Keeps(b) \/ HandsOut(b)
    BY <1>1, <2>1, <2>2 DEF Keeps, HandsOut
  <2>3. CASE Takes(b)
    BY <1>1, <2>3 DEF Takes
  <2> QED BY <2>2, <2>3, StepKinds
<1>3. ASSUME NEW c \in Banks PROVE maxSeqId'[c] <= RowValue'
  <2>1. CASE c = b
    BY <1>2, <2>1
  <2>2. CASE c # b
    <3>1. maxSeqId'[c] = maxSeqId[c]
      BY <2>2, OthersKeep DEF IInv
    <3>2. maxSeqId[c] <= RowValue
      BY DEF IInv, BelowRow
    <3> QED BY <1>1, <1>2, <3>1, <3>2
  <2> QED BY <2>1, <2>2
<1>4. ASSUME NEW n \in issued' PROVE n < RowValue'
  <2>1. CASE n \in issued
    <3>1. n < RowValue
      BY <2>1 DEF IInv, BelowRow
    <3> QED BY <1>1, <1>2, <2>1, <3>1
  <2>2. CASE n \notin issued
    <3>1. HandsOut(b) /\ n = curSeqId[b]
      BY <1>4, <2>2, StepKinds DEF Keeps, HandsOut, Takes
    <3>2. n < maxSeqId[b] /\ maxSeqId[b] <= RowValue
      BY <1>1, <3>1 DEF HandsOut, Unissued, IInv, BelowRow
    <3> QED BY <1>1, <1>2, <3>1, <3>2
  <2> QED BY <2>1, <2>2
<1> QED BY <1>3, <1>4 DEF BelowRow

\* A step leaves the range of another bank as it is.
LEMMA OtherRange ==
  ASSUME TypeOK, NEW b \in Banks, BankStep(b), NEW c \in Banks \ {b}
  PROVE  Unissued(c)' = Unissued(c)
BY OthersKeep DEF Unissued

\* Ranges stay disjoint from each other and from what was handed out: a new
\* one begins where all others, and all ids handed out, have ended.
LEMMA DisjointStep ==
  ASSUME IInv, TypeOK', NEW b \in Banks, BankStep(b)
  PROVE  BanksAreDisjoint'
<1>1. /\ RowValue \in Nat /\ RowValue' \in Nat
      /\ issued \subseteq Nat
      /\ \A c \in Banks : curSeqId[c] \in Nat /\ maxSeqId[c] \in Nat
  BY DEF IInv, TypeOK, RowValue
<1>2. \A c \in Banks : \A n \in Unissued(c) : n \in Nat /\ n < RowValue
  BY <1>1 DEF Unissued, IInv, BelowRow
<1>3. \A n \in issued : n < RowValue
  BY DEF IInv, BelowRow
<1>o. \A c \in Banks \ {b} : Unissued(c)' = Unissued(c)
  BY OtherRange DEF IInv
<1>i. BanksAreDisjoint
  BY DEF IInv
<1>4. CASE Keeps(b)
  <2>1. Unissued(b)' \subseteq Unissued(b) /\ issued' = issued
    BY <1>4 DEF Keeps
  <2> QED BY <1>o, <1>i, <2>1 DEF BanksAreDisjoint
<1>5. CASE HandsOut(b)
  <2>1. /\ Unissued(b)' \subseteq Unissued(b) \ {curSeqId[b]}
        /\ curSeqId[b] \in Unissued(b)
        /\ issued' = issued \cup {curSeqId[b]}
    BY <1>5 DEF HandsOut
  <2> QED BY <1>o, <1>i, <2>1 DEF BanksAreDisjoint
<1>6. CASE Takes(b)
  <2>1. issued' = issued /\ \A n \in Unissued(b)' : RowValue <= n /\ n \in Nat
    BY <1>1, <1>6 DEF Takes
  <2>2. \A n \in Unissued(b)' : n \notin issued /\ \A c \in Banks : n \notin Unissued(c)
    BY <1>1, <1>2, <1>3, <2>1
  <2> QED BY <1>o, <1>i, <2>1, <2>2 DEF BanksAreDisjoint
<1> QED BY <1>4, <1>5, <1>6, StepKinds

\* A refill that comes back has enough ids for its stagger, and nothing takes
\* them before its caller does.
LEMMA ServesStep ==
  ASSUME IInv, NEW b \in Banks, BankStep(b)
  PROVE  FilledBankServes'
<1> TypeOK
  BY DEF IInv
<1>1. ASSUME NEW c \in Banks \ {b}, At(c, "filled")' PROVE Serves(c, fill[c].stagger)'
  BY <1>1, OthersKeep DEF IInv, FilledBankServes, At, Serves
<1>2. ASSUME At(b, "filled")' PROVE Increment(b)
  <2> USE DEF TypeOK, Fill, At
  <2>1. CASE Gets(b)
    BY <1>2, <2>1 DEF Gets, GetFromBank, GetNeedsFill
  <2>2. CASE Refreshes(b)
    BY <1>2, <2>2 DEF Refreshes, ForceRefresh
  <2>3. CASE Connect(b) \/ LockRow(b) \/ InsertRow(b) \/ SelectRow(b)
    BY <1>2, <2>3 DEF Connect, LockRow, InsertRow, SelectRow, Goto
  <2>4. CASE Answer(b) \/ FillFails(b) \/ Discard(b)
    BY <1>2, <2>4 DEF Answer, FillFails, Discard, Idle
  <2> QED BY <2>1, <2>2, <2>3, <2>4 DEF BankStep, FillStep
<1>3. ASSUME Increment(b) PROVE Serves(b, fill[b].stagger)'
  <2>1. /\ fill'[b].stagger = fill[b].stagger /\ fill[b].stagger \in Staggers
        /\ curSeqId'[b] = curSeqId[b] /\ curSeqId[b] \in Nat
        /\ maxSeqId'[b] = curSeqId[b] + FillSize(fill[b].stagger)
    BY <1>3 DEF Increment, Goto, TypeOK, Fill
  <2>2. FillSize(fill[b].stagger) \in Nat /\ fill[b].stagger <= FillSize(fill[b].stagger)
    BY <2>1, FillSizeCovers
  <2> QED BY <2>1, <2>2 DEF Serves, Staggers
<1> QED BY <1>1, <1>2, <1>3 DEF FilledBankServes

-----------------------------------------------------------------------------
(* The theorems *)

\* The initial banks are empty, and nothing was handed out.
LEMMA InitIInv == Init => IInv
<1> SUFFICES ASSUME Init PROVE IInv
  OBVIOUS
<1> USE DEF Init, Idle
<1>1. TypeOK
  BY DEF TypeOK, Fill, Steps, Staggers
<1>2. LockFollowsStep /\ ReadIsCurrent /\ FilledBankServes
  BY DEF LockFollowsStep, ReadIsCurrent, FilledBankServes, At
<1>3. BelowRow
  BY DEF BelowRow, RowValue
<1>4. BanksAreDisjoint
  BY DEF BanksAreDisjoint, Unissued
<1> QED BY <1>1, <1>2, <1>3, <1>4 DEF IInv

\* IInv is inductive.
LEMMA StepIInv == IInv /\ [Next]_vars => IInv'
<1> SUFFICES ASSUME IInv, [Next]_vars PROVE IInv'
  OBVIOUS
<1>t. TypeOK'
  BY TypeStep DEF IInv
<1>1. CASE UNCHANGED vars
  BY <1>1 DEF vars, IInv, TypeOK, LockFollowsStep, ReadIsCurrent, BelowRow, BanksAreDisjoint,
              FilledBankServes, RowValue, Unissued, Serves, At
<1>2. ASSUME NEW b \in Banks, BankStep(b) PROVE IInv'
  <2>1. LockFollowsStep' /\ ReadIsCurrent'
    BY <1>2, LockStep, ReadStep DEF IInv
  <2>2. BelowRow' /\ BanksAreDisjoint' /\ FilledBankServes'
    BY <1>2, <1>t, BelowRowStep, DisjointStep, ServesStep
  <2> QED BY <1>t, <2>1, <2>2 DEF IInv
<1> QED BY <1>1, <1>2 DEF Next, BankStep, Gets, Refreshes

\* IInv holds in every reachable state.
THEOREM Inductive == Spec => []IInv
BY InitIInv, StepIInv, PTL DEF Spec

\* What banks may still hand out never overlaps and was not handed out.
THEOREM Disjoint == Spec => []BanksAreDisjoint
<1>1. IInv => BanksAreDisjoint
  BY DEF IInv
<1> QED BY <1>1, Inductive, PTL

\* A refill without an error has enough ids for the caller it was made for.
THEOREM FillServes == Spec => []FilledBankServes
<1>1. IInv => FilledBankServes
  BY DEF IInv
<1> QED BY <1>1, Inductive, PTL

\* The banks together implement the source of ids: no id is handed out twice.
THEOREM Unique == Spec => IdsAreUnique
<1>1. Init => Source!Init
  BY DEF Init, Source!Init
<1>2. IInv /\ IInv' /\ [Next]_vars => [Source!Answer]_<<issued, answers>>
  <2> SUFFICES ASSUME IInv, IInv', [Next]_vars
               PROVE  Source!Answer \/ UNCHANGED <<issued, answers>>
    OBVIOUS
  <2>1. CASE UNCHANGED vars
    BY <2>1 DEF vars
  <2>2. ASSUME NEW b \in Banks, BankStep(b)
        PROVE  Source!Answer \/ UNCHANGED <<issued, answers>>
    <3>1. CASE Keeps(b) \/ Takes(b)
      BY <3>1 DEF Keeps, Takes
    <3>2. CASE HandsOut(b)
      <4>1. curSeqId[b] \notin issued
        BY <3>2 DEF HandsOut, IInv, BanksAreDisjoint
      <4>2. issued' \ issued = {curSeqId[b]} /\ curSeqId[b] \in issued'
        BY <3>2, <4>1 DEF HandsOut
      <4> QED BY <3>2, <4>2 DEF HandsOut, Source!Answer, IInv, TypeOK
    <3> QED BY <2>2, <3>1, <3>2, StepKinds
  <2> QED BY <2>1, <2>2 DEF Next, BankStep, Gets, Refreshes
<1> QED BY <1>1, <1>2, Inductive, PTL DEF Spec, IdsAreUnique, Source!Spec
=============================================================================
