-------------------------- MODULE MCDevLifecycle --------------------------
(* DevLifecycle is finite as it is.                                         *)
EXTENDS DevLifecycle
============================================================================
