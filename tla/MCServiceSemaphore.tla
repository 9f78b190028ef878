------------------------- MODULE MCServiceSemaphore -------------------------
(* Small instances of ServiceSemaphore; their constants are in the           *)
(* configurations.                                                           *)
EXTENDS ServiceSemaphore, TLC
=============================================================================
