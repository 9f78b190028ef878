--------------------------- MODULE MCServiceCalls ---------------------------
(* A small instance of ServiceCalls: one thread, a few calls within calls.   *)
EXTENDS ServiceCalls
=============================================================================
