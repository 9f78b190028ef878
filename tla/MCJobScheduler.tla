--------------------------- MODULE MCJobScheduler ---------------------------
(* Small instances of JobScheduler for TLC.  The instances are               *)
(* interchangeable where no fairness is stated.                              *)
EXTENDS JobScheduler, TLC

Symmetry == Permutations(Instances)

Once == [recurs |-> FALSE, maxRecur |-> -1, maxRetry |-> 0, retry |-> 0]
AsyncRetryOnce == [recurs |-> FALSE, maxRecur |-> -1, maxRetry |-> 1, retry |-> Null]
Again == [recurs |-> TRUE, maxRecur |-> 1, maxRetry |-> 0, retry |-> 0]
Twice == [recurs |-> TRUE, maxRecur |-> 1, maxRetry |-> 1, retry |-> 0]

MC_Jobs2 == 1..2
MC_Jobs3 == 1..3
MC_Jobs6 == 1..6
MC_OneCopy == {1}
MC_TwoCopies == {1, 2}
MC_Once == {Once}
MC_Again == {Again}
MC_Mixed == {AsyncRetryOnce, Twice}
MC_NoAdmin == {}
MC_Cancel == {"cancel", "cancelRetries"}
MC_Reset == {"reset"}
=============================================================================
