---------------------------- MODULE MCSessTable ----------------------------
(* SessTable with small constants for TLC.  Threads are interchangeable.    *)
EXTENDS SessTable, TLC

Symmetry == Permutations(Thread)
============================================================================
