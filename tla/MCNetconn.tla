----------------------------- MODULE MCNetconn -----------------------------
(* Two threads and one or two sockets.                                       *)
EXTENDS Netconn

MCWriteLens == {1, 3}
MCAlone  == {}
MCShared == {"sem"}
============================================================================
