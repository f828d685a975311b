-------------------------- MODULE MCFaultCoordinator --------------------------
(* The coordinator of one page with a few faulting threads.  Generations    *)
(* wrap after two values, far below 2^64, so every run of the counter wraps. *)
EXTENDS FaultCoordinator

CONSTANTS t1, t2, t3, ok
MCThreads == {t1, t2, t3}
MCResults == {ok}
=============================================================================
