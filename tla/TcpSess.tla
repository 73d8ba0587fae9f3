------------------------------ MODULE TcpSess ------------------------------
(* The transmit and acknowledgement path of a TCP session (EkaTcpSess.cpp,  *)
(* EkaServThread.cpp, EkaTcpRxThread.cpp, EkaTcp.cpp).                      *)
(*                                                                          *)
(* The application hands a payload to the FPGA, which puts it on the wire   *)
(* at once and reports it on the epmFeedback DMA channel.  ServThread       *)
(* writes the reported bytes into lwIP as a "dummy" segment so that lwIP's  *)
(* retransmission queue mirrors the wire; the driver drops the dummy when   *)
(* lwIP transmits it.  TcpRxThread receives the peer's segments and holds   *)
(* an ACK back until lwIP has transmitted the bytes it acknowledges.        *)
(*                                                                          *)
(* lwIP, the FPGA and the exchange are external: they are modelled by what  *)
(* the code under src/src expects of them.  lwIP runs under its core lock   *)
(* (LWIP_TCPIP_CORE_LOCKING_INPUT = 1), so each of its calls is one step.   *)
(*                                                                          *)
(* Directly above some definitions stand faulty variants of them, no part   *)
(* of the specification: they say which mistakes the properties exclude.    *)
EXTENDS Integers, Sequences, FiniteSets

CONSTANTS
    Sess,               \* TCP sessions of the device
    Thread,             \* application threads that send
    MAX_PAYLOAD_SIZE,   \* largest payload of one packet (1360)
    WndMargin,          \* part of the peer's window left for HW fires (2K)
    FpgaInFlightLimit,  \* bytes sent and not yet mirrored (8K)
    SeqMod,             \* size of the TCP sequence space (2^32)
    ISN,                \* initial sequence number that lwIP picks
    SndBuf,             \* lwIP send buffer (TCP_SND_BUF)
    Cwnd,               \* lwIP congestion window
    PeerWnds,           \* windows the exchange may announce
    Modes,              \* what nonBlocking may be
    ReportOnly,         \* efc->isReportOnly()
    MaxBytes,           \* bound: no send starts past this many bytes
    MaxFired,           \* bound: bytes the HW strategies fire on a session
    MaxFaults,          \* bound: packets the network loses or delays
    Env                 \* environment events that happen in this model

EnvEvents == {"staleAck", "shutdown", "reset", "stop"}

ASSUME ConstAssumption ==
    /\ MAX_PAYLOAD_SIZE \in Nat \ {0}
    /\ WndMargin \in Nat
    /\ FpgaInFlightLimit \in Nat
    /\ SeqMod \in Nat \ {0}
    /\ ISN \in 0..(SeqMod - 1)
    /\ SndBuf \in Nat \ {0}
    /\ Cwnd \in Nat \ {0}
    /\ PeerWnds \subseteq Nat
    /\ Modes \subseteq SUBSET Sess
    /\ ReportOnly \in BOOLEAN
    /\ MaxBytes \in Nat
    /\ MaxFired \in Nat
    /\ MaxFaults \in Nat
    /\ Env \subseteq EnvEvents

VARIABLES
    exc_active, servThreadActive,           \* EkaDev flags
    nonBlocking,                            \* sessions that setBlocking() put in
                                            \* O_NONBLOCK mode before they connect
    globalFastPathBytes, globalDummyBytes,  \* EkaDev counters
    conn,                                   \* progress of connect()
    tcpSndWnd, tcpRemoteAckNum, realTcpRemoteAckNum,
    realFastPathBytes, realDummyBytes, realTxDriverBytes,
    tcpLocalSeqNum, lastInsertedEmptyAck,
    txLwipBp,                               \* sessions whose txLwipBp is set
    app,                                    \* application threads
    serv,                                   \* ServThread
    rx,                                     \* TcpRxThread
    epmFeedback, lwipRx,                    \* DMA channels, FIFO
    wire, fired,                            \* FPGA: next byte to send; bytes fired
    peerAck, peerEdge, lost, faults, reset, \* exchange and network; lost and
                                            \* reset are sets of sessions
    lwipWritten, lwipSndNxt, lwipLastAck, lwipSndWnd,  \* lwIP's pcb
    finReq, finSent,                        \* sessions shut down; FIN sent
    slip,                                   \* history: see Slipped
    overtaken                               \* history: see CountTx

flags    == <<exc_active, servThreadActive, nonBlocking>>
devVars  == <<flags, globalFastPathBytes, globalDummyBytes, slip>>
rxCntrs  == <<tcpSndWnd, tcpRemoteAckNum, realTcpRemoteAckNum>>
txCntrs  == <<tcpLocalSeqNum, realTxDriverBytes>>
cntrVars == <<rxCntrs, realFastPathBytes, realDummyBytes, txCntrs, txLwipBp,
              lastInsertedEmptyAck>>
sessVars == <<conn, cntrVars>>
peerVars == <<peerAck, peerEdge, lost, faults, reset>>
lwipVars == <<lwipWritten, lwipSndNxt, lwipLastAck, lwipSndWnd, finReq, finSent,
              overtaken>>
fpgaVars == <<wire, fired, epmFeedback>>
vars == <<devVars, sessVars, app, serv, rx, lwipRx, fpgaVars, peerVars, lwipVars>>

\* First byte after the SYN: EKA_TCPH_SEQNO(pkt) + 1 in 32 bits.
Base == (ISN + 1) % SeqMod

Idle == [pc |-> "idle"]

Init ==
    /\ exc_active = TRUE
    /\ servThreadActive = TRUE
    /\ nonBlocking \in Modes
    /\ globalFastPathBytes = 0
    /\ globalDummyBytes = 0
    /\ conn = [s \in Sess |-> "closed"]
    /\ tcpSndWnd = [s \in Sess |-> 0]
    /\ tcpRemoteAckNum = [s \in Sess |-> 0]
    /\ realTcpRemoteAckNum = [s \in Sess |-> 0]
    /\ realFastPathBytes = [s \in Sess |-> 0]
    /\ realDummyBytes = [s \in Sess |-> 0]
    /\ realTxDriverBytes = [s \in Sess |-> 0]
    /\ tcpLocalSeqNum = [s \in Sess |-> 0]
    /\ txLwipBp = {}
    /\ lastInsertedEmptyAck = [s \in Sess |-> 0]
    /\ app = [t \in Thread |-> Idle]
    /\ serv = Idle
    /\ rx = Idle
    /\ epmFeedback = <<>>
    /\ lwipRx = <<>>
    /\ wire = [s \in Sess |-> 0]
    /\ fired = [s \in Sess |-> 0]
    /\ peerAck = [s \in Sess |-> 0]
    /\ peerEdge = [s \in Sess |-> 0]
    /\ lost = {}
    /\ faults = 0
    /\ reset = {}
    /\ lwipWritten = [s \in Sess |-> 0]
    /\ lwipSndNxt = [s \in Sess |-> 0]
    /\ lwipLastAck = [s \in Sess |-> 0]
    /\ lwipSndWnd = [s \in Sess |-> 0]
    /\ finReq = {}
    /\ finSent = {}
    /\ slip = 0
    /\ overtaken = {}

----------------------------------------------------------------------------
(* connect(): the handshake.  lwip_connect() makes lwIP send the SYN, whose *)
(* branch of sendStackEthFrame() starts every counter of the session at     *)
(* ISN + 1 and loads the FPGA with the same number.  lwipConnectMtx lets    *)
(* one session at a time through it.                                        *)

SendSyn(s) ==
    /\ exc_active
    /\ conn[s] = "closed"
    /\ \A r \in Sess : conn[r] \notin {"synSent", "synAcked"}
    /\ conn' = [conn EXCEPT ![s] = "synSent"]
    /\ tcpLocalSeqNum' = [tcpLocalSeqNum EXCEPT ![s] = Base]
    /\ realTcpRemoteAckNum' = [realTcpRemoteAckNum EXCEPT ![s] = Base]
    /\ realFastPathBytes' = [realFastPathBytes EXCEPT ![s] = Base]
    /\ realTxDriverBytes' = [realTxDriverBytes EXCEPT ![s] = Base]
    /\ realDummyBytes' = [realDummyBytes EXCEPT ![s] = Base]
    /\ wire' = [wire EXCEPT ![s] = Base]
    /\ lwipWritten' = [lwipWritten EXCEPT ![s] = Base]
    /\ lwipSndNxt' = [lwipSndNxt EXCEPT ![s] = Base]
    /\ lwipLastAck' = [lwipLastAck EXCEPT ![s] = Base]
    /\ peerAck' = [peerAck EXCEPT ![s] = Base]
    /\ UNCHANGED <<devVars, tcpSndWnd, tcpRemoteAckNum, txLwipBp,
                   lastInsertedEmptyAck, app, serv, rx, epmFeedback, lwipRx,
                   fired, peerEdge, lost, faults, reset, lwipSndWnd, finReq,
                   finSent, overtaken>>

PeerSynAck(s, w) ==
    /\ conn[s] = "synSent"
    /\ conn' = [conn EXCEPT ![s] = "synAcked"]
    /\ lwipRx' = Append(lwipRx, [s |-> s, ack |-> Base, wnd |-> w, syn |-> TRUE])
    /\ peerEdge' = [peerEdge EXCEPT ![s] = Base + w]
    /\ UNCHANGED <<devVars, cntrVars, app, serv, rx, fpgaVars, peerAck, lost,
                   faults, reset, lwipVars>>

\* lwip_connect() has returned: connectionEstablished = true.
ConnectReturn(s) ==
    /\ conn[s] = "firstAck"
    /\ conn' = [conn EXCEPT ![s] = "up"]
    /\ UNCHANGED <<devVars, cntrVars, app, serv, rx, lwipRx, fpgaVars,
                   peerVars, lwipVars>>

----------------------------------------------------------------------------
(* preSendCheck() and sendPayload().  The counters are atomics read one     *)
(* after the other: realFastPathBytes, then realTcpRemoteAckNum, then the   *)
(* window and globalFastPathBytes, then globalDummyBytes, so each may be    *)
(* older than the next.  The calls that return an error or 0 before the     *)
(* first read change nothing and are not steps; n is payloadSize2send.      *)

Lesser(a, b) == IF a <= b THEN a ELSE b
Positive(a)  == IF a < 0 THEN 0 ELSE a

PreSendLoadFastPath(t, s, n) ==
    /\ app[t].pc = "idle"
    /\ conn[s] = "up"
    /\ exc_active
    /\ wire[s] < Base + MaxBytes
    /\ app' = [app EXCEPT ![t] = [pc |-> "loadAck", s |-> s, n |-> n,
                                  fast |-> realFastPathBytes[s]]]
    /\ UNCHANGED <<devVars, sessVars, serv, rx, lwipRx, fpgaVars, peerVars,
                   lwipVars>>

PreSendLoadAck(t) ==
    /\ app[t].pc = "loadAck"
    /\ app' = [app EXCEPT ![t] =
                 [pc |-> "check", s |-> @.s, n |-> @.n,
                  unAcked |-> Positive(@.fast - realTcpRemoteAckNum[@.s])]]
    /\ UNCHANGED <<devVars, sessVars, serv, rx, lwipRx, fpgaVars, peerVars,
                   lwipVars>>

ThrottledNoMargin(s, n, unAcked) == s \in txLwipBp \/ unAcked + n > tcpSndWnd[s]

\* txLwipBp and the window, the first two terms of the condition.
Throttled(s, n, unAcked) ==
    \/ s \in txLwipBp
    \/ unAcked + n > Positive(tcpSndWnd[s] - WndMargin)

PreSendCheck(t) ==
    /\ app[t].pc = "check"
    /\ app' = [app EXCEPT ![t] =
                 IF Throttled(@.s, @.n, @.unAcked)
                 THEN Idle
                 ELSE [pc |-> "limit", s |-> @.s, n |-> @.n, fast |-> globalFastPathBytes]]
    /\ UNCHANGED <<devVars, sessVars, serv, rx, lwipRx, fpgaVars, peerVars,
                   lwipVars>>

FpgaNeverBusy(fast) == FALSE

\* The third term, with the globalFastPathBytes loaded before (the other order
\* never gives less than there is).  The difference is unsigned in the code: below zero
\* it is huge.
FpgaBusy(fast) ==
    \/ fast < globalDummyBytes
    \/ fast - globalDummyBytes > FpgaInFlightLimit

PreSendLimit(t) ==
    /\ app[t].pc = "limit"
    /\ app' = [app EXCEPT ![t] =
                 IF FpgaBusy(@.fast)
                 THEN Idle
                 ELSE [pc |-> "count", s |-> @.s, n |-> @.n]]
    /\ UNCHANGED <<devVars, sessVars, serv, rx, lwipRx, fpgaVars, peerVars,
                   lwipVars>>

PreSendCount(t) ==
    /\ app[t].pc = "count"
    /\ realFastPathBytes' = [realFastPathBytes EXCEPT ![app[t].s] = @ + app[t].n]
    /\ app' = [app EXCEPT ![t].pc = "send"]
    /\ UNCHANGED <<devVars, conn, rxCntrs, realDummyBytes, txCntrs, txLwipBp,
                   lastInsertedEmptyAck, serv, rx, lwipRx, fpgaVars, peerVars,
                   lwipVars>>

\* The FPGA gives n bytes of session s the next sequence number, sends them and
\* reports the packet to ServThread.
FpgaSend(s, n, hw) ==
    /\ wire' = [wire EXCEPT ![s] = IF hw /\ ReportOnly THEN @ ELSE @ + n]
    /\ epmFeedback' = Append(epmFeedback, [s |-> s, seq |-> wire[s], n |-> n, hw |-> hw])

\* The last fetch_add of preSendCheck(), then fastSend().
FastSend(t) ==
    /\ app[t].pc = "send"
    /\ globalFastPathBytes' = globalFastPathBytes + app[t].n
    /\ FpgaSend(app[t].s, app[t].n, FALSE)
    /\ app' = [app EXCEPT ![t] = Idle]
    /\ UNCHANGED <<flags, globalDummyBytes, slip, sessVars, serv, rx, lwipRx, fired,
                   peerVars, lwipVars>>

\* A strategy of the FPGA fires on the session: no software check precedes it.
HwFire(s, n) ==
    /\ fired[s] + n <= MaxFired
    /\ conn[s] = "up"
    /\ wire[s] < Base + MaxBytes
    /\ fired' = [fired EXCEPT ![s] = @ + n]
    /\ FpgaSend(s, n, TRUE)
    /\ UNCHANGED <<devVars, sessVars, app, serv, rx, lwipRx, peerVars,
                   lwipVars>>

----------------------------------------------------------------------------
(* The exchange and the network.                                            *)

PeerSend(s, a, w) ==
    lwipRx' = Append(lwipRx, [s |-> s, ack |-> a, wnd |-> w, syn |-> FALSE])

\* Every byte up to here has reached the exchange, or was lost on its way;
\* a FIN that follows the last byte takes one more number.
PeerGot(s) == wire[s] + (IF s \in finSent /\ lwipSndNxt[s] = wire[s] + 1 THEN 1 ELSE 0)

\* An ACK that covers new bytes, or a larger window for the old ones.
PeerSendAck(s, a, w) ==
    /\ conn[s] = "up"
    /\ s \notin lost /\ s \notin reset
    /\ a + w >= peerEdge[s]
    /\ a > peerAck[s] \/ a + w > peerEdge[s]
    /\ PeerSend(s, a, w)
    /\ peerAck' = [peerAck EXCEPT ![s] = a]
    /\ peerEdge' = [peerEdge EXCEPT ![s] = a + w]
    /\ UNCHANGED <<devVars, sessVars, app, serv, rx, fpgaVars, lost, faults,
                   reset, lwipVars>>

PeerAckAny(s) ==
    \E a \in peerAck[s]..PeerGot(s), w \in PeerWnds : PeerSendAck(s, a, w)

\* The packet that starts at peerAck is lost: no ACK moves until it is resent.
Lose(s) ==
    /\ faults < MaxFaults
    /\ s \notin lost /\ peerAck[s] < wire[s]
    /\ faults' = faults + 1
    /\ lost' = lost \cup {s}
    /\ UNCHANGED <<devVars, sessVars, app, serv, rx, lwipRx, fpgaVars,
                   peerAck, peerEdge, reset, lwipVars>>

\* The network delivers an old ACK after a newer one.
StaleAck(s, a, w) ==
    /\ "staleAck" \in Env
    /\ faults < MaxFaults
    /\ conn[s] = "up" /\ a < peerAck[s] /\ a + w <= peerEdge[s]
    /\ PeerSend(s, a, w)
    /\ faults' = faults + 1
    /\ UNCHANGED <<devVars, sessVars, app, serv, rx, fpgaVars, peerAck, peerEdge,
                   lost, reset, lwipVars>>

\* The exchange resets the connection: lwip_write() fails from here on.
PeerReset(s) ==
    /\ "reset" \in Env
    /\ conn[s] = "up" /\ s \notin reset
    /\ reset' = reset \cup {s}
    /\ UNCHANGED <<devVars, sessVars, app, serv, rx, lwipRx, fpgaVars,
                   peerAck, peerEdge, lost, faults, lwipVars>>

----------------------------------------------------------------------------
(* ServThread: ekaServThread(), sendDummyFastPathPkt(), lwipDummyWrite().   *)

\* A HW fire that report_only kept off the wire stays out of lwIP.
SkipNothing(f) == FALSE
SKIP_LWIP_DUMMY(f) == f.hw /\ ReportOnly

\* lwipDummyWrite() counts the bytes of a HW fire, preSendCheck() the others.
HwBytesOfAll(f) == f.n
HwBytes(f) == IF f.hw THEN f.n ELSE 0

\* One entry of epmFeedback is taken up.
ServTake ==
    /\ serv.pc = "idle" /\ servThreadActive
    /\ epmFeedback # <<>>
    /\ LET f == Head(epmFeedback) IN
         IF SKIP_LWIP_DUMMY(f)
         THEN /\ epmFeedback' = Tail(epmFeedback)
              /\ UNCHANGED <<serv, realFastPathBytes, globalFastPathBytes>>
         ELSE /\ serv' = [pc |-> "write", s |-> f.s, n |-> f.n, left |-> f.n]
              /\ realFastPathBytes' = [realFastPathBytes EXCEPT ![f.s] = @ + HwBytes(f)]
              /\ globalFastPathBytes' = globalFastPathBytes + HwBytes(f)
              /\ UNCHANGED epmFeedback
    /\ UNCHANGED <<flags, globalDummyBytes, slip, conn, rxCntrs, realDummyBytes,
                   txCntrs, txLwipBp, lastInsertedEmptyAck, app, rx, lwipRx,
                   wire, fired, peerVars, lwipVars>>

\* Room in lwIP's send buffer, and what lwip_write() takes of k bytes.
LwipRoom(s)     == Positive(SndBuf - (lwipWritten[s] - lwipLastAck[s]))
LwipTakes(s, k) == Lesser(k, LwipRoom(s))

\* lwip_write() on a connection that was reset or shut down.
LwipWriteFails(s) == s \in finReq \/ s \in reset

\* The condition of the do-while loop.  A blocking lwip_write() does not come
\* back to it before everything is taken.
WriteDoneAtOnce(left) == TRUE
WriteDone(left) == left = 0 \/ (serv.s \in nonBlocking /\ ~exc_active)

\* One round of the loop: in non-blocking mode lwip_write() returns
\* with what fits and a remainder raises txLwipBp.
ServWrite ==
    /\ serv.pc = "write"
    /\ ~LwipWriteFails(serv.s)
    /\ LET k == LwipTakes(serv.s, serv.left)
           left == serv.left - k IN
         /\ k > 0 \/ serv.s \in nonBlocking
         /\ lwipWritten' = [lwipWritten EXCEPT ![serv.s] = @ + k]
         /\ txLwipBp' = txLwipBp \cup (IF serv.s \in nonBlocking /\ left > 0 THEN {serv.s} ELSE {})
         /\ serv' = [pc |-> IF WriteDone(left) THEN "written" ELSE "write",
                     s |-> serv.s, n |-> serv.n, left |-> left]
    /\ UNCHANGED <<devVars, conn, rxCntrs, realFastPathBytes, realDummyBytes,
                   txCntrs, lastInsertedEmptyAck, app, rx, lwipRx, fpgaVars,
                   peerVars, lwipSndNxt, lwipLastAck, lwipSndWnd, finReq,
                   finSent, overtaken>>

\* A thread is between its loads of globalFastPathBytes and globalDummyBytes.
BetweenLoads == \E t \in Thread : app[t].pc = "limit"

\* slip collects the bytes of HW fires that raise globalDummyBytes between the two loads
\* of a thread, until what is in flight is within the limit again.
Slipped ==
    IF globalFastPathBytes - globalDummyBytes' <= FpgaInFlightLimit THEN 0
    ELSE slip + (IF BetweenLoads THEN HwBytes(Head(epmFeedback)) ELSE 0)

\* The end of lwipDummyWrite(), and epmFeedback->next().
ServWritten ==
    /\ serv.pc = "written"
    /\ txLwipBp' = txLwipBp \ {serv.s}
    /\ realDummyBytes' = [realDummyBytes EXCEPT ![serv.s] = @ + serv.n]
    /\ globalDummyBytes' = globalDummyBytes + serv.n
    /\ slip' = Slipped
    /\ epmFeedback' = Tail(epmFeedback)
    /\ serv' = Idle
    /\ UNCHANGED <<flags, globalFastPathBytes, conn, rxCntrs,
                   realFastPathBytes, txCntrs, lastInsertedEmptyAck, app, rx,
                   lwipRx, wire, fired, peerVars, lwipVars>>

\* A write error: the entry is consumed and the thread leaves its loop.
ServWriteError ==
    /\ serv.pc = "write"
    /\ LwipWriteFails(serv.s)
    /\ epmFeedback' = Tail(epmFeedback)
    /\ serv' = [pc |-> "terminated"]
    /\ UNCHANGED <<devVars, sessVars, app, rx, lwipRx, wire, fired, peerVars,
                   lwipVars>>

ServExit ==
    /\ serv.pc = "idle" /\ ~servThreadActive
    /\ serv' = [pc |-> "terminated"]
    /\ UNCHANGED <<devVars, sessVars, app, rx, lwipRx, fpgaVars, peerVars,
                   lwipVars>>

----------------------------------------------------------------------------
(* lwIP transmits: ekaLwipSend() and the branches of sendStackEthFrame()    *)
(* for an established session.                                              *)

\* TCP_SEQ_LT on 32-bit sequence numbers.
TCP_SEQ_LT(a, b) == 2 * ((a - b) % SeqMod) >= SeqMod

\* lwIP transmits past the ACK that TcpRxThread delays, after the test of the loop
\* in updateRx() and before its load of realTxDriverBytes: overtaken holds the sessions
\* where this has happened, until lwIP gets an ACK of the exchange that has caught up.
Overtakes(s) ==
    /\ rx.pc = "delay" /\ rx.at = "load" /\ Head(lwipRx).s = s
    /\ realTxDriverBytes'[s] > realTcpRemoteAckNum[s]

CountTx(s, n) ==
    /\ realTxDriverBytes' = [realTxDriverBytes EXCEPT ![s] = @ + n]
    /\ overtaken' = overtaken \cup (IF Overtakes(s) THEN {s} ELSE {})

SendStackNoWrap(s, seq, n) ==
    /\ tcpLocalSeqNum' = [tcpLocalSeqNum EXCEPT ![s] = seq + n]
    /\ CountTx(s, n)
    /\ UNCHANGED lost

SendStackDropsResend(s, seq, n) ==
    /\ tcpLocalSeqNum' = [tcpLocalSeqNum EXCEPT ![s] = (seq + n) % SeqMod]
    /\ CountTx(s, n)
    /\ UNCHANGED lost

\* An old sequence number is a retransmission and goes out on the wire; a
\* new one is a dummy, dropped, and counted as transmitted by lwIP.
sendStackEthFrame(s, seq, n) ==
    IF TCP_SEQ_LT(seq % SeqMod, tcpLocalSeqNum[s])
    THEN /\ lost' = IF seq = peerAck[s] THEN lost \ {s} ELSE lost
         /\ UNCHANGED <<txCntrs, overtaken>>
    ELSE /\ tcpLocalSeqNum' = [tcpLocalSeqNum EXCEPT ![s] = (seq + n) % SeqMod]
         /\ CountTx(s, n)
         /\ UNCHANGED lost

\* What lwIP's windows let it send of the bytes written and not sent.
LwipMaySend(s) ==
    Lesser(Lesser(MAX_PAYLOAD_SIZE, lwipWritten[s] - lwipSndNxt[s]),
           Positive(Lesser(Cwnd, lwipSndWnd[s]) - (lwipSndNxt[s] - lwipLastAck[s])))

\* The FIN rides on the last unsent segment, or goes out alone.
FinNow(s, n) == s \in finReq /\ lwipSndNxt[s] + n = lwipWritten[s]

LwipOutput(s) ==
    LET n == LwipMaySend(s) IN
    /\ exc_active
    /\ conn[s] = "up" /\ s \notin finSent /\ s \notin reset
    /\ n > 0
    /\ ~FinNow(s, n)
    /\ lwipSndNxt' = [lwipSndNxt EXCEPT ![s] = @ + n]
    /\ sendStackEthFrame(s, lwipSndNxt[s], n)
    /\ UNCHANGED <<devVars, conn, rxCntrs, realFastPathBytes, realDummyBytes,
                   txLwipBp, lastInsertedEmptyAck, app, serv, rx, lwipRx,
                   fpgaVars, peerAck, peerEdge, faults, reset, lwipWritten,
                   lwipLastAck, lwipSndWnd, finReq, finSent>>

\* The FIN branch: sent as it is, no counter moves.
LwipSendFin(s) ==
    LET n == LwipMaySend(s) IN
    /\ exc_active
    /\ conn[s] = "up" /\ s \notin finSent /\ s \notin reset
    /\ FinNow(s, n)
    /\ lwipSndNxt' = [lwipSndNxt EXCEPT ![s] = @ + n + 1]
    /\ finSent' = finSent \cup {s}
    /\ UNCHANGED <<devVars, sessVars, app, serv, rx, lwipRx, fpgaVars,
                   peerVars, lwipWritten, lwipLastAck, lwipSndWnd, finReq, overtaken>>

\* lwIP's retransmission timer resends the first unacknowledged segment.
LwipRetransmit(s) ==
    /\ exc_active
    /\ s \in lost /\ s \notin reset
    /\ lwipLastAck[s] < lwipSndNxt[s]
    /\ sendStackEthFrame(s, lwipLastAck[s],
                         Lesser(MAX_PAYLOAD_SIZE, lwipSndNxt[s] - lwipLastAck[s]))
    /\ UNCHANGED <<devVars, conn, rxCntrs, realFastPathBytes, realDummyBytes,
                   txLwipBp, lastInsertedEmptyAck, app, serv, rx, lwipRx,
                   fpgaVars, peerAck, peerEdge, faults, reset, lwipWritten, lwipSndNxt,
                   lwipLastAck, lwipSndWnd, finReq, finSent>>

----------------------------------------------------------------------------
(* TcpRxThread: ekaTcpRxThread(), ekaProcessTcpRx(), updateRx().  One       *)
(* thread serves the packets of all sessions in their order of arrival.     *)

\* The 64-bit number behind the 32-bit ACK new32.
seq32to64NoWrap(prev64, prev32, new32) == (prev64 - (prev64 % SeqMod)) + new32

seq32to64(prev64, prev32, new32) ==
    LET new64 == prev64 + (IF new32 < prev32 THEN SeqMod ELSE 0)
    IN  (new64 - (new64 % SeqMod)) + new32

RxStoreWnd ==
    /\ rx.pc = "idle" /\ lwipRx # <<>>
    /\ LET p == Head(lwipRx) IN
         /\ tcpSndWnd' = [tcpSndWnd EXCEPT ![p.s] = p.wnd]
         /\ tcpRemoteAckNum' = [tcpRemoteAckNum EXCEPT ![p.s] = p.ack % SeqMod]
         /\ rx' = [pc |-> "storeAck", prev |-> tcpRemoteAckNum[p.s]]
    /\ UNCHANGED <<devVars, conn, realTcpRemoteAckNum, realFastPathBytes,
                   realDummyBytes, txCntrs, txLwipBp, lastInsertedEmptyAck,
                   app, serv, lwipRx, fpgaVars, peerVars, lwipVars>>

RxStoreAck ==
    /\ rx.pc = "storeAck"
    /\ LET p == Head(lwipRx) IN
         realTcpRemoteAckNum' = [realTcpRemoteAckNum EXCEPT ![p.s] =
             seq32to64(@, rx.prev, p.ack % SeqMod)]
    /\ rx' = [pc |-> "delay", at |-> "test"]
    /\ UNCHANGED <<devVars, conn, tcpSndWnd, tcpRemoteAckNum,
                   realFastPathBytes, realDummyBytes, txCntrs, txLwipBp,
                   lastInsertedEmptyAck, app, serv, lwipRx, fpgaVars,
                   peerVars, lwipVars>>

\* lwIP takes an ACK: one beyond its snd_nxt acknowledges nothing.
LwipInput(s, ack, wnd) ==
    /\ lwipLastAck' = [lwipLastAck EXCEPT ![s] =
                         IF @ <= ack /\ ack <= lwipSndNxt[s] THEN ack ELSE @]
    /\ lwipSndWnd' = [lwipSndWnd EXCEPT ![s] =
                         IF lwipLastAck[s] < ack \/ @ < wnd THEN wnd ELSE @]

\* The ACK of the packet is ahead of what lwIP has transmitted.
AckAheadForever(s) == realTcpRemoteAckNum[s] > realTxDriverBytes[s]

AckAhead(s) == exc_active /\ realTcpRemoteAckNum[s] > realTxDriverBytes[s]

\* The loop of updateRx() loads realTxDriverBytes for its condition and again in its
\* body, without the core lock: lwIP may transmit in between.  (The two loads of the
\* body are one step: the counter only grows.)
RxTestAheadAlways ==
    /\ rx.pc = "delay" /\ rx.at = "test"
    /\ rx' = [rx EXCEPT !.at = "load"]
    /\ UNCHANGED <<devVars, sessVars, app, serv, lwipRx, fpgaVars, peerVars, lwipVars>>

RxTestAhead ==
    /\ rx.pc = "delay" /\ rx.at = "test"
    /\ AckAhead(Head(lwipRx).s)
    /\ rx' = [rx EXCEPT !.at = "load"]
    /\ UNCHANGED <<devVars, sessVars, app, serv, lwipRx, fpgaVars, peerVars, lwipVars>>

\* Back to the test when there is nothing new to acknowledge.
RxLoadNothing ==
    /\ rx.pc = "delay" /\ rx.at = "load"
    /\ rx' = [rx EXCEPT !.at = "test"]
    /\ UNCHANGED <<devVars, sessVars, app, serv, lwipRx, fpgaVars, peerVars, lwipVars>>

RxLoadTx ==
    /\ rx.pc = "delay" /\ rx.at = "load"
    /\ LET s   == Head(lwipRx).s
           new == realTxDriverBytes[s] > lastInsertedEmptyAck[s] IN
         /\ lastInsertedEmptyAck' =
              [lastInsertedEmptyAck EXCEPT ![s] = IF new THEN realTxDriverBytes[s] ELSE @]
         /\ rx' = [rx EXCEPT !.at = IF new THEN "insert" ELSE "test"]
    /\ UNCHANGED <<devVars, conn, rxCntrs, realFastPathBytes, realDummyBytes,
                   txCntrs, txLwipBp, app, serv, lwipRx, fpgaVars, peerVars, lwipVars>>

\* insertEmptyRemoteAck(): lwIP learns that what it had transmitted is acknowledged,
\* while the packet itself waits.
RxInsertEmptyAck ==
    /\ rx.pc = "delay" /\ rx.at = "insert"
    /\ LET p == Head(lwipRx) IN LwipInput(p.s, lastInsertedEmptyAck[p.s], p.wnd)
    /\ rx' = [rx EXCEPT !.at = "test"]
    /\ UNCHANGED <<devVars, sessVars, app, serv, lwipRx, fpgaVars, peerVars,
                   lwipWritten, lwipSndNxt, finReq, finSent, overtaken>>

\* The packet goes on to lwIP.  On a SYN-ACK lwIP answers with the first ACK,
\* which sendStackEthFrame() sends as it is.
RxForwardPkt(p) ==
    /\ LwipInput(p.s, p.ack, p.wnd)
    /\ conn' = [conn EXCEPT ![p.s] = IF p.syn /\ exc_active THEN "firstAck" ELSE @]
    /\ lwipRx' = Tail(lwipRx)
    /\ rx' = Idle
    /\ overtaken' = overtaken \ (IF lwipLastAck'[p.s] <= p.ack THEN {p.s} ELSE {})
    /\ UNCHANGED <<devVars, cntrVars, app, serv, fpgaVars, peerVars,
                   lwipWritten, lwipSndNxt, finReq, finSent>>

RxForwardAtOnce == rx.pc = "delay" /\ rx.at = "test" /\ RxForwardPkt(Head(lwipRx))

RxForward ==
    /\ rx.pc = "delay" /\ rx.at = "test"
    /\ ~AckAhead(Head(lwipRx).s)
    /\ RxForwardPkt(Head(lwipRx))

----------------------------------------------------------------------------
\* excShutdown(): lwip_shutdown() of the write side.
Shutdown(s) ==
    /\ "shutdown" \in Env
    /\ conn[s] = "up" /\ s \notin finReq /\ exc_active
    /\ finReq' = finReq \cup {s}
    /\ UNCHANGED <<devVars, sessVars, app, serv, rx, lwipRx, fpgaVars,
                   peerVars, lwipWritten, lwipSndNxt, lwipLastAck, lwipSndWnd,
                   finSent, overtaken>>

\* ~EkaDev(): exc_active = false; servThreadActive = false.
Stop ==
    /\ "stop" \in Env
    /\ exc_active \/ servThreadActive
    /\ exc_active' = FALSE
    /\ servThreadActive' = (servThreadActive /\ exc_active)
    /\ UNCHANGED <<nonBlocking, globalFastPathBytes, globalDummyBytes, slip, sessVars,
                   app, serv, rx, lwipRx, fpgaVars, peerVars, lwipVars>>

----------------------------------------------------------------------------
ServNext == ServTake \/ ServWrite \/ ServWritten \/ ServWriteError \/ ServExit
RxDelay  == RxTestAhead \/ RxLoadTx \/ RxInsertEmptyAck
RxNext   == RxStoreWnd \/ RxStoreAck \/ RxDelay \/ RxForward
LwipNext(s) == LwipOutput(s) \/ LwipSendFin(s) \/ LwipRetransmit(s)
AppStep(t) ==
    PreSendLoadAck(t) \/ PreSendCheck(t) \/ PreSendLimit(t) \/ PreSendCount(t) \/ FastSend(t)
ConnectStep(s) ==
    \/ SendSyn(s)
    \/ \E w \in PeerWnds : PeerSynAck(s, w)
    \/ ConnectReturn(s)
PeerNext(s) ==
    \/ PeerAckAny(s)
    \/ Lose(s)
    \/ \E a \in Base..peerAck[s], w \in PeerWnds : StaleAck(s, a, w)
    \/ PeerReset(s)

Next ==
    \/ ServNext
    \/ RxNext
    \/ Stop
    \/ \E s \in Sess :
         \/ ConnectStep(s)
         \/ LwipNext(s)
         \/ PeerNext(s)
         \/ Shutdown(s)
         \/ \E n \in 1..MAX_PAYLOAD_SIZE : HwFire(s, n)
    \/ \E t \in Thread :
         \/ AppStep(t)
         \/ \E s \in Sess, n \in 1..MAX_PAYLOAD_SIZE : PreSendLoadFastPath(t, s, n)

Spec == Init /\ [][Next]_vars

\* Each thread runs on its own CPU and is never blocked for good by the others;
\* the exchange acknowledges what it received, lwIP's timers fire.
Fairness ==
    /\ WF_vars(ServNext)
    /\ WF_vars(RxNext)
    /\ \A t \in Thread : WF_vars(AppStep(t))
    /\ \A s \in Sess :
         /\ WF_vars(ConnectStep(s))
         /\ WF_vars(LwipOutput(s))
         /\ WF_vars(LwipSendFin(s))
         /\ WF_vars(LwipRetransmit(s))
         /\ WF_vars(\E w \in PeerWnds : PeerSendAck(s, PeerGot(s), w))

FairSpec == Spec /\ Fairness

----------------------------------------------------------------------------
Feedback == [s : Sess, seq : Nat, n : 1..MAX_PAYLOAD_SIZE, hw : BOOLEAN]
RxPkt    == [s : Sess, ack : Nat, wnd : PeerWnds, syn : BOOLEAN]

AppState ==
    {Idle}
    \cup [pc : {"loadAck"}, s : Sess, n : 1..MAX_PAYLOAD_SIZE, fast : Nat]
    \cup [pc : {"check"}, s : Sess, n : 1..MAX_PAYLOAD_SIZE, unAcked : Nat]
    \cup [pc : {"limit"}, s : Sess, n : 1..MAX_PAYLOAD_SIZE, fast : Nat]
    \cup [pc : {"count", "send"}, s : Sess, n : 1..MAX_PAYLOAD_SIZE]
ServState ==
    {Idle, [pc |-> "terminated"]}
    \cup [pc : {"write", "written"}, s : Sess, n : 1..MAX_PAYLOAD_SIZE,
          left : 0..MAX_PAYLOAD_SIZE]
RxState ==
    {Idle}
    \cup [pc : {"storeAck"}, prev : 0..(SeqMod - 1)]
    \cup [pc : {"delay"}, at : {"test", "load", "insert"}]

\* The values every variable of the path takes, the states of its threads
\* included.
TypeOK ==
    /\ exc_active \in BOOLEAN /\ servThreadActive \in BOOLEAN /\ nonBlocking \in Modes
    /\ globalFastPathBytes \in Nat /\ globalDummyBytes \in Nat
    /\ conn \in [Sess -> {"closed", "synSent", "synAcked", "firstAck", "up"}]
    /\ tcpSndWnd \in [Sess -> Nat]
    /\ tcpRemoteAckNum \in [Sess -> 0..(SeqMod - 1)]
    /\ realTcpRemoteAckNum \in [Sess -> Nat]
    /\ realFastPathBytes \in [Sess -> Nat]
    /\ realDummyBytes \in [Sess -> Nat]
    /\ realTxDriverBytes \in [Sess -> Nat]
    /\ tcpLocalSeqNum \in [Sess -> 0..(SeqMod - 1)]
    /\ txLwipBp \subseteq Sess
    /\ lastInsertedEmptyAck \in [Sess -> Nat]
    /\ app \in [Thread -> AppState]
    /\ serv \in ServState
    /\ rx \in RxState
    /\ epmFeedback \in Seq(Feedback)
    /\ lwipRx \in Seq(RxPkt)
    /\ wire \in [Sess -> Nat] /\ fired \in [Sess -> Nat]
    /\ peerAck \in [Sess -> Nat] /\ peerEdge \in [Sess -> Nat]
    /\ lost \subseteq Sess /\ faults \in Nat /\ reset \subseteq Sess
    /\ lwipWritten \in [Sess -> Nat] /\ lwipSndNxt \in [Sess -> Nat]
    /\ lwipLastAck \in [Sess -> Nat] /\ lwipSndWnd \in [Sess -> Nat]
    /\ finReq \subseteq Sess /\ finSent \subseteq Sess
    /\ slip \in Nat /\ overtaken \subseteq Sess

\* updateRx(): "delay RX Ack if corresponding Seq is not sent on LWIP TX yet".
\* A packet that reaches lwIP while the stack is active acknowledges only bytes
\* lwIP has transmitted: lwIP takes its ACK, or was told as much before, and never
\* ignores it as one that is ahead of its own numbers.
NoAckLost ==
    [][\A s \in Sess :
         exc_active /\ lwipRx # <<>> /\ lwipRx' = Tail(lwipRx) /\ Head(lwipRx).s = s
           => lwipLastAck'[s] >= Head(lwipRx).ack]_vars

\* insertEmptyRemoteAck() and the packets together: lwIP does not take a byte for
\* acknowledged that the exchange has not acknowledged, so none leaves lwIP's
\* retransmission queue too early, unless lwIP transmitted past the delayed ACK
\* between the test of updateRx()'s loop and its load: then the code inserts an ACK
\* of bytes that nobody acknowledged.  That race is the only way, and what it does ends
\* when the ACKs of the exchange have caught up.
AckIsTrue ==
    \A s \in Sess :
      /\ lwipLastAck[s] <= lwipSndNxt[s]
      /\ s \notin overtaken => lwipLastAck[s] <= peerAck[s]

\* seq32to64(): the 64-bit ACK number follows the exchange's across the wrap of
\* the 32-bit sequence space.
AckReconstructed ==
    rx.pc = "delay" => realTcpRemoteAckNum[Head(lwipRx).s] = Head(lwipRx).ack

\* preSendCheck(): threads that pass the window check at the same time and HW
\* fires that nobody checks may put too much on the wire.  The margin is what
\* absorbs them: beyond the window of the exchange goes at most one packet for
\* each of the other threads, plus what the HW fired, less the margin.
WindowRespected ==
    (\A w \in PeerWnds : w >= WndMargin) =>
      \A s \in Sess : conn[s] = "up" =>
        wire[s] <= peerEdge[s] + Positive(MAX_PAYLOAD_SIZE * (Cardinality(Thread) - 1)
                                          + fired[s] - WndMargin)

\* lwipDummyWrite(): while the stack is active ServThread writes every packet of
\* the wire into lwIP at the sequence number the wire gave it, whatever
\* sessions, threads and HW fires interleave; so a retransmission by lwIP
\* carries the bytes that were sent.
MirrorExact ==
    exc_active /\ serv.pc = "write" =>
      lwipWritten[serv.s] = Head(epmFeedback).seq + (serv.n - serv.left)

\* lwIP's copy never runs ahead of the wire, lwIP transmits only what was
\* written to it, and the driver's count of what lwIP transmitted, which decides
\* when an ACK may pass, is lwIP's own until the FIN.
MirrorBehindWire ==
    \A s \in Sess :
      /\ lwipWritten[s] <= wire[s]
      /\ s \notin finSent => realTxDriverBytes[s] = lwipSndNxt[s]
      /\ lwipSndNxt[s] <= lwipWritten[s] + 1

\* Once the threads are idle and the feedback is consumed the byte counters of
\* the session agree with the wire, and the device's counters with each other.
Reconciled ==
    (/\ exc_active /\ serv.pc = "idle" /\ epmFeedback = <<>>
     /\ \A t \in Thread : app[t].pc \in {"idle", "loadAck", "check", "limit"})
    => /\ globalFastPathBytes = globalDummyBytes
       /\ \A s \in Sess : /\ realFastPathBytes[s] = wire[s]
                          /\ realDummyBytes[s] = wire[s]
                          /\ lwipWritten[s] = wire[s]

\* Bytes of a HW fire that only globalFastPathBytes has: ServThread is mirroring it, or
\* a write error ended the thread while it did.
FireBeingMirrored ==
    IF serv.pc = "terminated" THEN MAX_PAYLOAD_SIZE
    ELSE IF serv.pc \in {"write", "written"} THEN HwBytes(Head(epmFeedback)) ELSE 0

\* preSendCheck()'s FpgaInFlightLimit holds across all sessions up to one packet per
\* application thread, the HW fire being mirrored, and the HW fires that ServThread
\* finished mirroring between a thread's loads of the two counters, since the limit was
\* last kept: the older globalFastPathBytes lacks them, the newer globalDummyBytes has them.
InFlightBounded ==
    /\ globalDummyBytes <= globalFastPathBytes
    /\ globalFastPathBytes - globalDummyBytes
         <= FpgaInFlightLimit + MAX_PAYLOAD_SIZE * Cardinality(Thread) + FireBeingMirrored
            + slip

\* A lost packet that lwIP was told is acknowledged: it is not resent.
Stranded(s) == s \in lost /\ lwipLastAck[s] > peerAck[s]

\* The three threads and lwIP wait on each other (ACK on lwIP's transmission,
\* dummy write on lwIP's buffer, lwIP on ACKs) and still all that is on the wire
\* reaches the exchange and lwIP gets to know it, except in a session where the race
\* of AckIsTrue has stranded a lost packet.  The sends stop after MaxBytes, so this
\* is every byte of every session.
EveryByteAcked ==
    []<>(\A s \in Sess :
           \/ lwipLastAck[s] = wire[s] /\ peerAck[s] = wire[s]
           \/ Stranded(s))

\* TcpRxThread always comes back to its loop: no packet blocks the packets of
\* the other sessions for good.
RxThreadProgress == []<>(rx.pc = "idle")

\* ServThread sleeps in a blocking lwip_write(), which does not look at exc_active.
AsleepInWrite ==
    /\ serv.pc = "write" /\ serv.s \notin nonBlocking
    /\ LwipRoom(serv.s) = 0 /\ ~LwipWriteFails(serv.s)

\* ~EkaDev(): clearing the flags brings both threads out of their waits, the write
\* that lwIP has no room for and the ACK that lwIP has not earned.  Only from a
\* blocking write there may be no way out: lwIP transmits nothing after the stop, so
\* no ACK makes room, and ~EkaDev() waits for ServThread.  (A cleared flag stays so.)
StopReleasesThreads ==
    /\ []<>(~servThreadActive) => <>[](serv.pc = "terminated") \/ <>[]AsleepInWrite
    /\ []<>(~exc_active) => []<>(rx.pc = "idle")
============================================================================
