------------------------------ MODULE IdSource ------------------------------
(***************************************************************************)
(* What callers of getNextSeqId rely on: every answer is an id that nobody *)
(* was given before.  Ids need not be consecutive nor ordered between      *)
(* callers, and some are never handed out.                                 *)
(***************************************************************************)
EXTENDS Naturals

VARIABLES issued,  \* the ids that were handed out
          answers  \* how many calls have been answered with an id

Init == issued = {} /\ answers = 0

Answer == /\ issued' \subseteq Nat
          /\ issued \subseteq issued'
          /\ \E n \in issued' : issued' \ issued = {n}
          /\ answers' = answers + 1

Spec == Init /\ [][Answer]_<<issued, answers>>
=============================================================================
