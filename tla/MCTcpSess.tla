----------------------------- MODULE MCTcpSess -----------------------------
(* TcpSess with small constants for TLC.  Application threads and sessions  *)
(* are interchangeable.                                                     *)
EXTENDS TcpSess, TLC

Symmetry == Permutations(Thread) \cup Permutations(Sess)
============================================================================
