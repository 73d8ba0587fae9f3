----------------------------- MODULE MCRxPath -----------------------------
(* A small instance of RxPath: a mailbox of one usable slot, so that data    *)
(* are refused, and reads that take less or more than one message.           *)
EXTENDS RxPath

MCRecvLens == {1, 3}
MCEnv == {"timeout", "reset", "close", "dontwait"}
============================================================================
