--------------------------- MODULE MCFireReport ---------------------------
(* FireReport with a small ring for TLC.                                    *)
EXTENDS FireReport
============================================================================
