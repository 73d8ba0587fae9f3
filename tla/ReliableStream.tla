-------------------------- MODULE ReliableStream --------------------------
(* What the receive path of a session promises to the exchange and to the    *)
(* application: segments 1, 2, 3, ... are taken over in order, those that    *)
(* were taken over are acknowledged and delivered, each once and in order,   *)
(* and none is acknowledged or delivered before it was taken over.           *)
EXTENDS Integers, Sequences

VARIABLES
    sent,       \* number of segments the exchange has sent
    taken,      \* number of segments the host has taken over
    acked,      \* number of segments the exchange knows to be taken over
    delivered   \* the segments the application has read, in its order

vars == <<sent, taken, acked, delivered>>

Init == sent = 0 /\ taken = 0 /\ acked = 0 /\ delivered = <<>>

Send ==
    /\ sent' = sent + 1
    /\ UNCHANGED <<taken, acked, delivered>>

Take ==
    /\ taken < sent
    /\ taken' \in (taken + 1)..sent
    /\ UNCHANGED <<sent, acked, delivered>>

Acknowledge ==
    /\ acked < taken
    /\ acked' \in (acked + 1)..taken
    /\ UNCHANGED <<sent, taken, delivered>>

Deliver ==
    /\ \E n \in 1..(taken - Len(delivered)) :
         delivered' = delivered \o [i \in 1..n |-> Len(delivered) + i]
    /\ UNCHANGED <<sent, taken, acked>>

Next == Send \/ Take \/ Acknowledge \/ Deliver

Spec == Init /\ [][Next]_vars
============================================================================
