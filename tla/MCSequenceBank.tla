--------------------------- MODULE MCSequenceBank ---------------------------
(* A small instance of SequenceBank: three banks that compete for one row.   *)
(* Two of them are in one instance, and draw from its pool of connections.   *)
EXTENDS SequenceBank

CONSTANT b3

Instances == [b \in Banks |-> IF b = b3 THEN 2 ELSE 1]
=============================================================================
