---------------------------- MODULE FireReport ----------------------------
(* Reports of HW fires to the user (EkaFireReportThread.cpp,                *)
(* EkaUserReportQ.cpp, the report part of EkaServThread.cpp).               *)
(*                                                                          *)
(* The FPGA describes a fire twice: the packet goes to the epmFeedback DMA  *)
(* channel, the report to the epmReport channel.  ServThread mirrors the    *)
(* packet into lwIP (module TcpSess) and pushes a copy to EkaUserReportQ;   *)
(* the FireReport thread takes a report, waits for its packet in the queue, *)
(* and calls the user back with both.  push() and pop() hold mtx, isEmpty() *)
(* does not, although it writes qLen.  on_error() ends the process.         *)
(*                                                                          *)
(* The FPGA and the user's callback are external.  Faulty variants of some  *)
(* definitions stand directly above them, no part of the specification.     *)
EXTENDS Integers, Sequences

CONSTANTS
    Q_ELEMS,        \* slots of the ring (64K)
    MaxPending,     \* bound: fires the user has not been told of
    MaxFires,       \* bound: fires
    MaxOthers,      \* bound: application sends and exception reports, each
    Env             \* what may go wrong: "writeError", "stop"

ASSUME QAssumption ==
    /\ Q_ELEMS \in Nat /\ Q_ELEMS > 1
    /\ MaxPending \in Nat /\ MaxFires \in Nat /\ MaxOthers \in Nat
    /\ Env \subseteq {"writeError", "stop"}

VARIABLES
    servThreadActive, fireReportThreadActive,   \* EkaDev flags
    epmFeedback, epmReport,                     \* DMA channels, FIFO
    fires, sends, exceptions,                   \* what the FPGA has done
    qElem, rdPtr, wrPtr, rdCnt, wrCnt, qLen,    \* EkaUserReportQ
    mtx,                                        \* its mutex is held
    serv,                                       \* ServThread
    rep,                                        \* FireReport thread
    delivered,                                  \* packets the user got
    err                                         \* on_error() that was called

flags  == <<servThreadActive, fireReportThreadActive>>
hwVars == <<fires, sends, exceptions>>
qVars  == <<qElem, rdPtr, wrPtr, rdCnt, wrCnt, qLen, mtx>>
vars   == <<flags, epmFeedback, epmReport, hwVars, qVars, serv, rep, delivered, err>>

Running == err = "none"

Init ==
    /\ servThreadActive = TRUE /\ fireReportThreadActive = TRUE
    /\ epmFeedback = <<>> /\ epmReport = <<>>
    /\ fires = 0 /\ sends = 0 /\ exceptions = 0
    /\ qElem = [i \in 0..(Q_ELEMS - 1) |-> 0]
    /\ rdPtr = 0 /\ wrPtr = 0 /\ rdCnt = 0 /\ wrCnt = 0 /\ qLen = 0
    /\ mtx = FALSE
    /\ serv = "idle"
    /\ rep = [pc |-> "idle"]
    /\ delivered = <<>>
    /\ err = "none"

----------------------------------------------------------------------------
(* The FPGA.  A packet of a fire has report_en set, a packet of an          *)
(* application send has not; index counts the packets with a report.        *)

Fire ==
    /\ Running
    /\ fires < MaxFires /\ fires - Len(delivered) < MaxPending
    /\ fires' = fires + 1
    /\ epmFeedback' = Append(epmFeedback, [report_en |-> TRUE, index |-> fires + 1])
    /\ epmReport' = Append(epmReport, [type |-> "FIRE", index |-> fires + 1])
    /\ UNCHANGED <<flags, sends, exceptions, qVars, serv, rep, delivered, err>>

AppSend ==
    /\ Running /\ sends < MaxOthers
    /\ sends' = sends + 1
    /\ epmFeedback' = Append(epmFeedback, [report_en |-> FALSE, index |-> 0])
    /\ UNCHANGED <<flags, epmReport, fires, exceptions, qVars, serv, rep, delivered, err>>

Exception ==
    /\ Running /\ exceptions < MaxOthers
    /\ exceptions' = exceptions + 1
    /\ epmReport' = Append(epmReport, [type |-> "EXCEPTION", index |-> 0])
    /\ UNCHANGED <<flags, epmFeedback, fires, sends, qVars, serv, rep, delivered, err>>

----------------------------------------------------------------------------
(* ServThread after SKIP_LWIP_DUMMY, and push().                            *)

next(curr) == (curr + 1) % Q_ELEMS

\* isFull(): the length it has just stored in qLen, read back.
isFullEarly == qLen = Q_ELEMS - 2
isFull == qLen = Q_ELEMS - 1

\* The dummy write is over; a packet without report_en is done.
ServTake ==
    /\ Running
    /\ serv = "idle" /\ servThreadActive /\ epmFeedback # <<>>
    /\ IF Head(epmFeedback).report_en
       THEN serv' = "push" /\ UNCHANGED epmFeedback
       ELSE epmFeedback' = Tail(epmFeedback) /\ UNCHANGED serv
    /\ UNCHANGED <<flags, epmReport, hwVars, qVars, rep, delivered, err>>

\* lwip_write() failed: the packet is consumed without a report.
ServWriteError ==
    /\ Running /\ "writeError" \in Env
    /\ serv = "idle" /\ servThreadActive /\ epmFeedback # <<>>
    /\ epmFeedback' = Tail(epmFeedback)
    /\ serv' = "terminated"
    /\ UNCHANGED <<flags, epmReport, hwVars, qVars, rep, delivered, err>>

PushLock ==
    /\ Running
    /\ serv = "push" /\ ~mtx
    /\ mtx' = TRUE
    /\ qLen' = wrCnt - rdCnt
    /\ serv' = "full"
    /\ UNCHANGED <<flags, epmFeedback, epmReport, hwVars, qElem, rdPtr, wrPtr,
                   rdCnt, wrCnt, rep, delivered, err>>

PushCheck ==
    /\ Running
    /\ serv = "full"
    /\ IF isFull
       THEN err' = "full" /\ UNCHANGED <<wrPtr, qElem, serv>>
       ELSE /\ wrPtr' = next(wrPtr)
            /\ qElem' = [qElem EXCEPT ![next(wrPtr)] = Head(epmFeedback).index]
            /\ serv' = "count"
            /\ UNCHANGED err
    /\ UNCHANGED <<flags, epmFeedback, epmReport, hwVars, rdPtr, rdCnt, wrCnt,
                   qLen, mtx, rep, delivered>>

PushCount ==
    /\ Running
    /\ serv = "count"
    /\ wrCnt' = wrCnt + 1
    /\ serv' = "unlock"
    /\ UNCHANGED <<flags, epmFeedback, epmReport, hwVars, qElem, rdPtr, wrPtr,
                   rdCnt, qLen, mtx, rep, delivered, err>>

\* The end of push(), and epmFeedback->next().
PushUnlock ==
    /\ Running
    /\ serv = "unlock"
    /\ qLen' = wrCnt - rdCnt
    /\ mtx' = FALSE
    /\ epmFeedback' = Tail(epmFeedback)
    /\ serv' = "idle"
    /\ UNCHANGED <<flags, epmReport, hwVars, qElem, rdPtr, wrPtr, rdCnt, wrCnt,
                   rep, delivered, err>>

ServExit ==
    /\ Running
    /\ serv = "idle" /\ ~servThreadActive
    /\ serv' = "terminated"
    /\ UNCHANGED <<flags, epmFeedback, epmReport, hwVars, qVars, rep, delivered, err>>

----------------------------------------------------------------------------
(* The FireReport thread: ekaFireReportThread(), processBCSFireReport(),    *)
(* pushFiredPkt(), pop().                                                   *)

\* A FIRE report needs its packet, an EXCEPTION report none.
RepTake ==
    /\ Running
    /\ rep.pc = "idle" /\ fireReportThreadActive /\ epmReport # <<>>
    /\ rep' = [pc |-> IF Head(epmReport).type = "FIRE" THEN "spin" ELSE "callback"]
    /\ UNCHANGED <<flags, epmFeedback, epmReport, hwVars, qVars, serv, delivered, err>>

\* while (*fireReportThreadActive && q->isEmpty()): the flag, then the loads
\* of the unlocked isEmpty().
RepSpinForever ==
    /\ Running
    /\ rep.pc = "spin"
    /\ err' = IF rdCnt > wrCnt THEN "order" ELSE err
    /\ rep' = [pc |-> "store", len |-> wrCnt - rdCnt]
    /\ UNCHANGED <<flags, epmFeedback, epmReport, hwVars, qVars, serv, delivered>>

RepSpin ==
    /\ Running
    /\ rep.pc = "spin"
    /\ IF fireReportThreadActive
       THEN /\ err' = IF rdCnt > wrCnt THEN "order" ELSE err
            /\ rep' = [pc |-> "store", len |-> wrCnt - rdCnt]
       ELSE rep' = [pc |-> "pop"] /\ UNCHANGED err
    /\ UNCHANGED <<flags, epmFeedback, epmReport, hwVars, qVars, serv, delivered>>

IsEmptyStore ==
    /\ Running
    /\ rep.pc = "store"
    /\ qLen' = rep.len
    /\ rep' = [pc |-> "load"]
    /\ UNCHANGED <<flags, epmFeedback, epmReport, hwVars, qElem, rdPtr, wrPtr,
                   rdCnt, wrCnt, mtx, serv, delivered, err>>

IsEmptyLoadKeepsOne ==
    /\ Running
    /\ rep.pc = "load"
    /\ rep' = [pc |-> IF qLen <= 1 THEN "spin" ELSE "pop"]
    /\ UNCHANGED <<flags, epmFeedback, epmReport, hwVars, qVars, serv, delivered, err>>

IsEmptyLoad ==
    /\ Running
    /\ rep.pc = "load"
    /\ rep' = [pc |-> IF qLen = 0 THEN "spin" ELSE "pop"]
    /\ UNCHANGED <<flags, epmFeedback, epmReport, hwVars, qVars, serv, delivered, err>>

PopKeepsPtr ==
    /\ Running
    /\ rep.pc = "pop" /\ ~mtx /\ rdCnt < wrCnt
    /\ rdCnt' = rdCnt + 1
    /\ qLen' = wrCnt - rdCnt - 1
    /\ rep' = [pc |-> "match"]
    /\ UNCHANGED <<flags, epmFeedback, epmReport, hwVars, qElem, rdPtr, wrPtr,
                   wrCnt, mtx, serv, delivered, err>>

\* pop() reads and writes nothing that push() does not lock: one step.
Pop ==
    /\ Running
    /\ rep.pc = "pop" /\ ~mtx
    /\ IF wrCnt = rdCnt
       THEN err' = "empty" /\ qLen' = 0 /\ UNCHANGED <<rdPtr, rdCnt, rep>>
       ELSE /\ rdPtr' = next(rdPtr)
            /\ rdCnt' = rdCnt + 1
            /\ qLen' = wrCnt - rdCnt - 1
            /\ rep' = [pc |-> "match"]
            /\ UNCHANGED err
    /\ UNCHANGED <<flags, epmFeedback, epmReport, hwVars, qElem, wrPtr, wrCnt,
                   mtx, serv, delivered>>

\* The packet in the slot must be the one the report is about.
RepMatch ==
    /\ Running
    /\ rep.pc = "match"
    /\ IF qElem[rdPtr] # Head(epmReport).index
       THEN err' = "mismatch" /\ UNCHANGED rep
       ELSE rep' = [pc |-> "callback"] /\ UNCHANGED err
    /\ UNCHANGED <<flags, epmFeedback, epmReport, hwVars, qVars, serv, delivered>>

RepCallbackNewest ==
    /\ Running
    /\ rep.pc = "callback"
    /\ delivered' = IF Head(epmReport).type = "FIRE"
                    THEN Append(delivered, qElem[wrPtr]) ELSE delivered
    /\ epmReport' = Tail(epmReport)
    /\ rep' = [pc |-> "idle"]
    /\ UNCHANGED <<flags, epmFeedback, hwVars, qVars, serv, err>>

\* The packet is copied from the slot, onEfcFireReportCb() called with it, and
\* epmReport->next().
RepCallback ==
    /\ Running
    /\ rep.pc = "callback"
    /\ delivered' = IF Head(epmReport).type = "FIRE"
                    THEN Append(delivered, qElem[rdPtr]) ELSE delivered
    /\ epmReport' = Tail(epmReport)
    /\ rep' = [pc |-> "idle"]
    /\ UNCHANGED <<flags, epmFeedback, hwVars, qVars, serv, err>>

RepExit ==
    /\ Running
    /\ rep.pc = "idle" /\ ~fireReportThreadActive
    /\ rep' = [pc |-> "terminated"]
    /\ UNCHANGED <<flags, epmFeedback, epmReport, hwVars, qVars, serv, delivered, err>>

----------------------------------------------------------------------------
\* ~EkaDev(): the two flags are cleared one after the other.
Stop ==
    /\ Running /\ "stop" \in Env
    /\ fireReportThreadActive
    /\ servThreadActive' = FALSE
    /\ fireReportThreadActive' = servThreadActive
    /\ UNCHANGED <<epmFeedback, epmReport, hwVars, qVars, serv, rep, delivered, err>>

ServNext == ServTake \/ PushLock \/ PushCheck \/ PushCount \/ PushUnlock \/ ServExit
RepNext  == \/ RepTake \/ RepSpin \/ IsEmptyStore \/ IsEmptyLoad \/ Pop
            \/ RepMatch \/ RepCallback \/ RepExit

Next == Fire \/ AppSend \/ Exception \/ ServNext \/ ServWriteError \/ RepNext \/ Stop

Spec == Init /\ [][Next]_vars

\* Both threads run on CPUs of their own; ServThread holds mtx for a few
\* instructions, the callback returns.
FairSpec == Spec /\ WF_vars(ServNext) /\ WF_vars(RepNext)

----------------------------------------------------------------------------
Packet == [report_en : BOOLEAN, index : Nat]
Report == [type : {"FIRE", "EXCEPTION"}, index : Nat]
RepState ==
    [pc : {"idle", "spin", "load", "pop", "match", "callback", "terminated"}]
    \cup [pc : {"store"}, len : Int]

\* The values every variable takes: the pointers stay inside the ring.
TypeOK ==
    /\ servThreadActive \in BOOLEAN /\ fireReportThreadActive \in BOOLEAN
    /\ epmFeedback \in Seq(Packet) /\ epmReport \in Seq(Report)
    /\ fires \in Nat /\ sends \in Nat /\ exceptions \in Nat
    /\ qElem \in [0..(Q_ELEMS - 1) -> Nat]
    /\ rdPtr \in 0..(Q_ELEMS - 1) /\ wrPtr \in 0..(Q_ELEMS - 1)
    /\ rdCnt \in Nat /\ wrCnt \in Nat /\ qLen \in Int
    /\ mtx \in BOOLEAN
    /\ serv \in {"idle", "push", "full", "count", "unlock", "terminated"}
    /\ rep \in RepState
    /\ delivered \in Seq(Nat)
    /\ err \in {"none", "full", "order", "empty", "mismatch"}

\* pushFiredPkt(), push() and pop(): with fewer fires pending than the ring has
\* slots no check of the two channels against each other fails, neither the
\* full nor the empty queue, nor "firePktIndex != dmaIdx"; but the pop that
\* follows a wait cut short by the stop of the device.
NoFatal ==
    MaxPending < Q_ELEMS =>
      err = "none" \/ (err = "empty" /\ ~fireReportThreadActive)

\* Each callback brings the packet of its own fire: the user gets every packet
\* once, in the order of the fires.
InOrder == \A i \in 1..Len(delivered) : delivered[i] = i

\* The ring pointers and the counters, which are kept apart, say the same.
PointersFollowCounters ==
    /\ rdCnt <= wrCnt
    /\ rdPtr = rdCnt % Q_ELEMS
    /\ wrPtr = (wrCnt + (IF serv = "count" THEN 1 ELSE 0)) % Q_ELEMS

\* The user hears of every fire, unless the device stops or ServThread ended
\* with a write error.
EveryFireReported ==
    \A i \in 1..MaxFires :
      fires >= i ~> \/ Len(delivered) >= i
                    \/ serv = "terminated" \/ ~servThreadActive

\* ~EkaDev() waits for both threads: they end, even while a report waits for a
\* packet that will not come.
StopEnds ==
    ~fireReportThreadActive ~> (serv = "terminated" /\ rep.pc = "terminated") \/ ~Running
============================================================================
