---------------------------- MODULE MCHybridLatch ----------------------------
(* Three threads on one latch whose shared count saturates at two holders   *)
(* and whose version wraps after two exclusive sections.                    *)
EXTENDS HybridLatch, TLC

CONSTANTS t1, t2, t3
MCThreads == {t1, t2, t3}
ThreadSymmetry == Permutations(MCThreads)
=============================================================================
