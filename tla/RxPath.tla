------------------------------ MODULE RxPath ------------------------------
(* What the exchange sends to one established session, on its way to the     *)
(* application, and its acknowledgement on the way back.                     *)
(*                                                                           *)
(* TcpRxThread hands each segment to lwIP (tcp_in.c), which reassembles the  *)
(* stream and posts it to the recvmbox of the socket (api_msg.c), a bounded  *)
(* ring (SysArch); what the ring has no room for is kept and offered again.  *)
(* The application takes it with lwip_recv() (sockets.c, api_lib.c).  lwIP's *)
(* ACKs do not reach the wire: sendStackEthFrame() (EkaTcpSess.cpp) drops    *)
(* them, but has the FPGA send an empty ACK when the number is new, and      *)
(* leaves the number in the FPGA for the packets of the fast path.  The      *)
(* window the FPGA advertises is the one of the handshake, whatever lwIP's   *)
(* is by now.                                                                *)
(*                                                                           *)
(* A segment has the length one.  The other direction of the session is in   *)
(* TcpSess; here a send of the application is one packet that carries an     *)
(* acknowledgement.  The exchange and the network are the environment: they  *)
(* lose segments and ACKs, and the exchange sends again what is not          *)
(* acknowledged.                                                             *)
(*                                                                           *)
(* Faulty variants of some definitions stand directly above them, no part of *)
(* the specification.                                                        *)
EXTENDS SysArch, FiniteSets

CONSTANTS
    SYS_MBOX_SIZE,  \* slots of a mailbox; one is never used
    RcvWnd,         \* TCP_WND, advertised in the handshake
    RecvLens,       \* buffer sizes of the application
    MaxSegs,        \* bound: segments the exchange sends
    MaxFaults,      \* bound: lost packets
    Env             \* subset of {"timeout", "reset", "close", "dontwait"}

ASSUME RxAssumption ==
    /\ SYS_MBOX_SIZE \in Nat /\ SYS_MBOX_SIZE >= 2
    /\ RcvWnd \in Nat \ {0}
    /\ RecvLens \subseteq Nat \ {0}
    /\ MaxSegs \in Nat /\ MaxFaults \in Nat
    /\ Env \subseteq {"timeout", "reset", "close", "dontwait"}

VARIABLES
    \* the exchange and the network
    sent,               \* segments 1..sent were sent
    xack,               \* the next segment the exchange knows to be expected
    net, acks,          \* segments and ACK numbers on their way
    faults,
    \* lwIP's pcb
    rcv_nxt, rcv_wnd, ooseq, refused_data,
    ackFlag,            \* TF_ACK_DELAY is set
    \* the netconn
    flags,              \* "MBOXCLOSED" after err_tcp(), "MBOXINVALID" after lwip_close()
    recvmbox,
    waiting,            \* mbox_threads_waiting
    \* the application in lwip_recv()
    pc, left, lastdata, recvd, delivered,
    overtaken,          \* history: close() between a recv()'s check and its count
    \* the session
    tcpRemoteSeqNum, fpgaAck, dummy

xvars  == <<sent, xack, net>>
pcb    == <<rcv_nxt, rcv_wnd, ooseq, refused_data, ackFlag>>
app    == <<pc, left, lastdata, recvd, delivered>>
sess   == <<tcpRemoteSeqNum, fpgaAck>>
vars   == <<xvars, acks, faults, pcb, flags, recvmbox, waiting, app, overtaken, sess, dummy>>

\* Messages that are no data: netconn_aborted..., netconn_deleted.
ErrMsg == <<0>>

Init ==
    /\ sent = 0 /\ xack = 1 /\ net = <<>> /\ acks = <<>> /\ faults = 0
    /\ rcv_nxt = 1 /\ rcv_wnd = RcvWnd /\ ooseq = {} /\ refused_data = <<>>
    /\ ackFlag = FALSE
    /\ flags = {} /\ recvmbox = sys_mbox_new(SYS_MBOX_SIZE) /\ waiting = FALSE
    /\ pc = "idle" /\ left = 0 /\ lastdata = <<>> /\ recvd = 0 /\ delivered = <<>>
    /\ overtaken = FALSE
    /\ tcpRemoteSeqNum = 1 /\ fpgaAck = 1 /\ dummy = FALSE

\* The pcb of the session exists.
Open == flags = {}

----------------------------------------------------------------------------
(* The driver.                                                               *)

\* The number is kept on the host only.
SendStackHostOnly(ackno) ==
    IF tcpRemoteSeqNum = ackno
    THEN UNCHANGED <<sess, acks>>
    ELSE /\ tcpRemoteSeqNum' = ackno
         /\ acks' = Append(acks, fpgaAck)
         /\ UNCHANGED fpgaAck

\* The number after the next expected one.
SendStackTooFar(ackno) ==
    IF tcpRemoteSeqNum = ackno
    THEN UNCHANGED <<sess, acks>>
    ELSE /\ tcpRemoteSeqNum' = ackno
         /\ fpgaAck' = ackno + 1
         /\ acks' = Append(acks, fpgaAck')

\* sendStackEthFrame(), the part for packets that are not retransmissions: an ACK
\* number the exchange has not seen goes to the FPGA and out in an empty ACK.
sendStackEthFrame(ackno) ==
    IF tcpRemoteSeqNum = ackno
    THEN UNCHANGED <<sess, acks>>
    ELSE /\ tcpRemoteSeqNum' = ackno
         /\ fpgaAck' = ackno
         /\ acks' = Append(acks, fpgaAck')

NoAck == UNCHANGED <<sess, acks>>

----------------------------------------------------------------------------
(* lwIP, called by TcpRxThread and by the timers under the core lock.        *)

\* What is refused is forgotten.
OfferDropping(mb, data) ==
    IF data = <<>> \/ MboxFull(mb)
    THEN [mbox |-> mb, refused |-> <<>>]
    ELSE [mbox |-> sys_mbox_trypost(mb, data), refused |-> <<>>]

\* recv_tcp(): data go to the mailbox or stay with the pcb.
Offer(mb, data) ==
    IF data = <<>> \/ MboxFull(mb)
    THEN [mbox |-> mb, refused |-> data]
    ELSE [mbox |-> sys_mbox_trypost(mb, data), refused |-> <<>>]

\* The segments that are in sequence once rcv_nxt has come, chained into one pbuf.
InSequence ==
    LET n == CHOOSE k \in 1..(Cardinality(ooseq) + 1) :
               /\ \A i \in 1..(k - 1) : rcv_nxt + i \in ooseq
               /\ rcv_nxt + k \notin ooseq
    IN  [i \in 1..n |-> rcv_nxt + i - 1]

InWindow(seg) == rcv_nxt <= seg /\ seg < rcv_nxt + rcv_wnd

\* tcp_input() takes a segment of the open session.
Arrives(seg) == Open /\ net # <<>> /\ seg = Head(net) /\ net' = Tail(net)

\* tcp_process_refused_data() at the start of tcp_input().
Kept == Offer(recvmbox, refused_data)

\* Still refused: the segment is dropped, and answered when it looks like a probe of
\* a closed window (rcv_ann_wnd = 0).
InputRefused(seg) ==
    /\ Arrives(seg)
    /\ Kept.refused # <<>>
    /\ \/ sendStackEthFrame(rcv_nxt) /\ ackFlag' = FALSE
       \/ NoAck /\ UNCHANGED ackFlag
    /\ UNCHANGED <<sent, xack, faults, rcv_nxt, rcv_wnd, ooseq, refused_data, flags, recvmbox,
                   waiting, app, overtaken, dummy>>

\* tcp_receive(): a segment that is not the next, or finds the window closed, is
\* answered at once; inside the window it is kept.
InputOther(seg) ==
    /\ Arrives(seg)
    /\ Kept.refused = <<>>
    /\ ~(seg = rcv_nxt /\ InWindow(seg))
    /\ ooseq' = IF InWindow(seg) THEN ooseq \cup {seg} ELSE ooseq
    /\ recvmbox' = Kept.mbox /\ refused_data' = <<>>
    /\ sendStackEthFrame(rcv_nxt) /\ ackFlag' = FALSE
    /\ UNCHANGED <<sent, xack, faults, rcv_nxt, rcv_wnd, flags, waiting, app, overtaken, dummy>>

\* tcp_receive(): the next segment.  Every second one is acknowledged at once.
InputNext(seg) ==
    LET data == InSequence
        new  == Offer(Kept.mbox, data)
    IN  /\ Arrives(seg)
        /\ Kept.refused = <<>>
        /\ seg = rcv_nxt /\ InWindow(seg)
        /\ rcv_nxt' = rcv_nxt + Len(data)
        /\ rcv_wnd' = rcv_wnd - Len(data)
        /\ ooseq' = {s \in ooseq : s >= rcv_nxt'}
        /\ recvmbox' = new.mbox /\ refused_data' = new.refused
        /\ ackFlag' = ~ackFlag
        /\ IF ackFlag THEN sendStackEthFrame(rcv_nxt') ELSE NoAck
        /\ UNCHANGED <<sent, xack, faults, flags, waiting, app, overtaken, dummy>>

Input == \E seg \in 1..sent : InputRefused(seg) \/ InputOther(seg) \/ InputNext(seg)

\* tcp_fasttmr() without the second part.
FasttmrAckOnly ==
    /\ Open
    /\ ackFlag
    /\ sendStackEthFrame(rcv_nxt)
    /\ ackFlag' = FALSE
    /\ UNCHANGED <<xvars, faults, rcv_nxt, rcv_wnd, ooseq, refused_data, flags, recvmbox, waiting,
                   app, overtaken, dummy>>

\* tcp_fasttmr(): the delayed ACK, then the refused data again.
tcp_fasttmr ==
    /\ Open
    /\ ackFlag \/ Kept.mbox # recvmbox
    /\ IF ackFlag THEN sendStackEthFrame(rcv_nxt) ELSE NoAck
    /\ ackFlag' = FALSE
    /\ recvmbox' = Kept.mbox /\ refused_data' = Kept.refused
    /\ UNCHANGED <<xvars, faults, rcv_nxt, rcv_wnd, ooseq, flags, waiting, app, overtaken, dummy>>

\* The pcb is freed; what is on its way finds no session any more.
PcbGone ==
    /\ rcv_wnd' = 0 /\ ooseq' = {} /\ refused_data' = <<>> /\ ackFlag' = FALSE
    /\ net' = <<>> /\ acks' = <<>> /\ dummy' = FALSE
    /\ UNCHANGED rcv_nxt

\* err_tcp(), after a RST: the pcb is gone, the reader gets the error.
err_tcp ==
    /\ "reset" \in Env /\ Open
    /\ flags' = {"MBOXCLOSED"}
    /\ recvmbox' = Offer(recvmbox, ErrMsg).mbox
    /\ PcbGone
    /\ UNCHANGED <<sent, xack, faults, waiting, app, overtaken, sess>>

\* Closing does not wake the reader.
CloseSilently ==
    /\ "close" \in Env /\ "MBOXINVALID" \notin flags
    /\ flags' = flags \cup {"MBOXINVALID"}
    /\ overtaken' = (pc = "called")
    /\ PcbGone
    /\ UNCHANGED <<sent, xack, faults, recvmbox, waiting, app, sess>>

\* lwip_close() by another thread: netconn_mark_mbox_invalid() posts one message to
\* the reader that has counted itself.
lwip_close ==
    /\ "close" \in Env /\ "MBOXINVALID" \notin flags
    /\ flags' = flags \cup {"MBOXINVALID"}
    /\ recvmbox' = IF waiting THEN Offer(recvmbox, ErrMsg).mbox ELSE recvmbox
    /\ overtaken' = (pc = "called")
    /\ PcbGone
    /\ UNCHANGED <<sent, xack, faults, waiting, app, sess>>

----------------------------------------------------------------------------
(* The application: one thread calls lwip_recv(), blocking or not.           *)

stack == <<xvars, faults, flags, rcv_nxt, ooseq, refused_data, overtaken, dummy>>

RecvCall ==
    /\ pc = "idle" /\ "MBOXINVALID" \notin flags
    /\ pc' = "top"
    /\ left' \in RecvLens
    /\ recvd' = 0
    /\ UNCHANGED <<stack, rcv_wnd, ackFlag, acks, recvmbox, waiting, lastdata, delivered, sess>>

\* lwip_recv_tcp(): copy what is at hand.  The rest of a pbuf stays for the next call.
Copy ==
    /\ pc = "top" /\ lastdata # <<>>
    /\ \E n \in 1..Len(lastdata) :
         /\ n = IF left > Len(lastdata) THEN Len(lastdata) ELSE left
         /\ delivered' = delivered \o SubSeq(lastdata, 1, n)
         /\ lastdata' = SubSeq(lastdata, n + 1, Len(lastdata))
         /\ left' = left - n
         /\ recvd' = recvd + n
         /\ pc' = IF left' > 0 THEN "more" ELSE "done"
    /\ UNCHANGED <<stack, rcv_wnd, ackFlag, acks, recvmbox, waiting, sess>>

\* netconn_recv_data(): the check of the mailbox before the thread is counted.
Waitable ==
    /\ pc = "top" /\ lastdata = <<>>
    /\ pc' = IF "MBOXINVALID" \in flags THEN "idle" ELSE "called"
    /\ UNCHANGED <<stack, rcv_wnd, ackFlag, acks, recvmbox, waiting, left, lastdata, recvd,
                   delivered, sess>>

\* The thread is counted, then sleeps for a message or only looks for one.
Counted ==
    /\ pc = "called"
    /\ waiting' = TRUE
    /\ \/ ("MBOXCLOSED" \in flags \/ "dontwait" \in Env) /\ pc' = "tryfetch"
       \/ "MBOXCLOSED" \notin flags /\ pc' = "fetch"
    /\ UNCHANGED <<stack, rcv_wnd, ackFlag, acks, recvmbox, left, lastdata, recvd, delivered, sess>>

\* A message is taken; what is no data ends the call.
Took ==
    /\ recvmbox' = MboxFetch(recvmbox)
    /\ waiting' = FALSE
    /\ IF MboxHead(recvmbox) = ErrMsg
       THEN pc' = (IF recvd > 0 THEN "done" ELSE "idle") /\ UNCHANGED lastdata
       ELSE pc' = "top" /\ lastdata' = MboxHead(recvmbox)

\* sys_arch_mbox_fetch(): look under the mutex of the mailbox, sleep when it is empty.
Fetch ==
    /\ pc = "fetch"
    /\ IF MboxEmpty(recvmbox)
       THEN pc' = "wait" /\ UNCHANGED <<recvmbox, waiting, lastdata>>
       ELSE Took
    /\ UNCHANGED <<stack, rcv_wnd, ackFlag, acks, left, recvd, delivered, sess>>

Wake ==
    /\ pc = "wait" /\ recvmbox.not_empty = 1
    /\ recvmbox' = [recvmbox EXCEPT !.not_empty = 0]
    /\ pc' = "fetch"
    /\ UNCHANGED <<stack, rcv_wnd, ackFlag, acks, waiting, left, lastdata, recvd, delivered, sess>>

Timeout ==
    /\ "timeout" \in Env
    /\ pc = "wait" /\ recvmbox.not_empty = 0
    /\ waiting' = FALSE
    /\ pc' = "idle"
    /\ UNCHANGED <<stack, rcv_wnd, ackFlag, acks, recvmbox, left, lastdata, recvd, delivered, sess>>

\* sys_arch_mbox_tryfetch(), for a call that does not wait or has data to return.
Tryfetch ==
    /\ pc = "tryfetch"
    /\ IF MboxEmpty(recvmbox)
       THEN /\ waiting' = FALSE
            /\ pc' = IF recvd > 0 THEN "done" ELSE "idle"
            /\ UNCHANGED <<recvmbox, lastdata>>
       ELSE Took
    /\ UNCHANGED <<stack, rcv_wnd, ackFlag, acks, left, recvd, delivered, sess>>

\* The loop once more, now with NETCONN_DONTBLOCK.
More ==
    /\ pc = "more"
    /\ IF "MBOXINVALID" \in flags
       THEN pc' = "done" /\ UNCHANGED waiting
       ELSE pc' = "tryfetch" /\ waiting' = TRUE
    /\ UNCHANGED <<stack, rcv_wnd, ackFlag, acks, recvmbox, left, lastdata, recvd, delivered, sess>>

\* The window is not opened again.
RecvdNothing ==
    /\ pc = "done"
    /\ pc' = "idle"
    /\ recvd' = 0
    /\ UNCHANGED <<stack, rcv_wnd, ackFlag, acks, recvmbox, waiting, left, lastdata, delivered, sess>>

\* netconn_tcp_recvd(): tcp_recved() opens the window by what was read and announces
\* it (TCP_WND_UPDATE_THRESHOLD) or not.
Recvd ==
    /\ pc = "done"
    /\ pc' = "idle"
    /\ recvd' = 0
    /\ rcv_wnd' = IF Open THEN rcv_wnd + recvd ELSE rcv_wnd
    /\ \/ Open /\ sendStackEthFrame(rcv_nxt) /\ ackFlag' = FALSE
       \/ NoAck /\ UNCHANGED ackFlag
    /\ UNCHANGED <<stack, recvmbox, waiting, left, lastdata, delivered>>

Recv == Copy \/ Waitable \/ Counted \/ Fetch \/ Wake \/ Tryfetch \/ More \/ Recvd

----------------------------------------------------------------------------
(* What else puts an acknowledgement on the wire.                            *)

rest == <<xvars, rcv_nxt, rcv_wnd, ooseq, refused_data, flags, recvmbox, waiting, app, overtaken>>

\* A packet of the fast path, such as a heartbeat of the application, carries the
\* number the FPGA holds; its dummy goes to lwIP (preSendCheck, EkaTcpSess::sendPayload).
AppSend ==
    /\ Open /\ ~dummy /\ acks = <<>>
    /\ acks' = <<fpgaAck>>
    /\ dummy' = TRUE
    /\ UNCHANGED <<rest, faults, ackFlag, sess>>

\* lwIP sends the dummy with its own number.
Dummy ==
    /\ Open /\ dummy
    /\ sendStackEthFrame(rcv_nxt)
    /\ ackFlag' = FALSE
    /\ dummy' = FALSE
    /\ UNCHANGED <<rest, faults>>

\* A retransmission of lwIP goes to the wire as it is.
Retransmit ==
    /\ Open /\ faults < MaxFaults
    /\ faults' = faults + 1
    /\ acks' = Append(acks, rcv_nxt)
    /\ ackFlag' = FALSE
    /\ UNCHANGED <<rest, sess, dummy>>

----------------------------------------------------------------------------
(* The exchange and the network, as long as the session is open.             *)

host == <<pcb, flags, recvmbox, waiting, app, overtaken, sess, dummy>>

\* The window of the exchange ends RcvWnd segments after the last acknowledged one.
XSend ==
    /\ Open /\ sent < MaxSegs /\ sent + 1 < xack + RcvWnd
    /\ sent' = sent + 1
    /\ net' = Append(net, sent')
    /\ UNCHANGED <<xack, acks, faults, host>>

XRetransmit ==
    /\ net = <<>> /\ xack <= sent /\ Open
    /\ net' = <<xack>>
    /\ UNCHANGED <<sent, xack, acks, faults, host>>

XAck ==
    /\ Open /\ acks # <<>>
    /\ acks' = Tail(acks)
    /\ xack' = IF Head(acks) > xack THEN Head(acks) ELSE xack
    /\ UNCHANGED <<sent, net, faults, host>>

Lose ==
    /\ Open /\ faults < MaxFaults
    /\ faults' = faults + 1
    /\ \/ \E i \in 1..Len(net) :
            net' = SubSeq(net, 1, i - 1) \o SubSeq(net, i + 1, Len(net)) /\ UNCHANGED acks
       \/ acks # <<>> /\ acks' = Tail(acks) /\ UNCHANGED net
    /\ UNCHANGED <<sent, xack, host>>

----------------------------------------------------------------------------
Next ==
    \/ Input \/ tcp_fasttmr \/ err_tcp \/ lwip_close
    \/ RecvCall \/ Recv \/ Timeout
    \/ AppSend \/ Dummy \/ Retransmit
    \/ XSend \/ XRetransmit \/ XAck \/ Lose

\* TcpRxThread and the timers run as long as the device is active; the exchange
\* retransmits what is not acknowledged.  Of the application it is assumed that it
\* reads on and that its session sends a packet, such as a heartbeat, now and then.
Fairness ==
    /\ WF_vars(Input) /\ WF_vars(tcp_fasttmr) /\ WF_vars(Dummy)
    /\ WF_vars(RecvCall) /\ WF_vars(Recv) /\ WF_vars(AppSend)
    /\ WF_vars(XRetransmit) /\ WF_vars(XAck)

Spec == Init /\ [][Next]_vars /\ Fairness

----------------------------------------------------------------------------
(* Properties.                                                               *)

\* The values every variable takes.
TypeOK ==
    /\ sent \in 0..MaxSegs /\ xack \in 1..(MaxSegs + 1)
    /\ net \in Seq(1..MaxSegs) /\ acks \in Seq(1..(MaxSegs + 1)) /\ faults \in 0..MaxFaults
    /\ rcv_nxt \in 1..(MaxSegs + 1) /\ rcv_wnd \in 0..RcvWnd
    /\ ooseq \subseteq 1..MaxSegs /\ refused_data \in Seq(1..MaxSegs)
    /\ ackFlag \in BOOLEAN /\ flags \subseteq {"MBOXCLOSED", "MBOXINVALID"}
    /\ pc \in {"idle", "top", "called", "fetch", "wait", "tryfetch", "more", "done"}
    /\ left \in Nat /\ recvd \in Nat
    /\ lastdata \in Seq(1..MaxSegs) /\ delivered \in Seq(1..MaxSegs)
    /\ waiting \in BOOLEAN /\ overtaken \in BOOLEAN /\ dummy \in BOOLEAN
    /\ tcpRemoteSeqNum \in 1..(MaxSegs + 1) /\ fpgaAck \in 1..(MaxSegs + 1)

\* The data of the messages in a mailbox, as one sequence.
Flatten(msgs) ==
    LET cat[i \in 0..Len(msgs)] == IF i = 0 THEN <<>> ELSE cat[i - 1] \o msgs[i]
    IN  cat[Len(msgs)]

\* While the session is open, every segment lwIP has acknowledged is in one place:
\* read, held by the socket, in the mailbox or refused; in this order, each once.
\* lwIP acknowledges data before the mailbox has taken them (recv_tcp: "data is
\* already ACKed"), so data dropped on the way would be lost for good.
NothingDropped ==
    Open => delivered \o lastdata \o Flatten(MboxContents(recvmbox)) \o refused_data
              = [i \in 1..(rcv_nxt - 1) |-> i]

\* The receive window is what was announced less what the application has not
\* returned with netconn_tcp_recvd(): no path through lwip_recv_tcp(), partial reads
\* and errors included, keeps a piece of it.
WindowReturned ==
    Open => rcv_wnd = RcvWnd - (rcv_nxt - 1 - Len(delivered)) - recvd

\* A reader does not sleep on a mailbox with mail: sys_mbox_trypost() signals only the
\* first message, and signals beyond one are lost, so a message fetched without its
\* signal and a signal left from it must never add up to a missing one.
NoSleepOnMail ==
    pc = "wait" /\ ~MboxEmpty(recvmbox) => recvmbox.not_empty = 1

Stream == INSTANCE ReliableStream WITH taken <- rcv_nxt - 1, acked <- xack - 1

\* The receive path implements the reliable stream: segments are taken over in order,
\* none is acknowledged to the exchange before, through the FPGA or by lwIP, and
\* every one is delivered once and in order.
ImplementsStream == Stream!Spec

\* On a session that stays open the host catches up, again and again: all that was
\* sent is read and its acknowledgement has reached the exchange.  sendStackEthFrame()
\* sends one empty ACK per number, and answers a retransmission of the exchange with
\* none; when the ACK is lost, the number goes out in the next packet of the session,
\* so the property rests on the application sending one (WF of AppSend).
EverySegmentServed ==
    []<>(~Open \/ (xack = sent + 1 /\ Len(delivered) = sent))

\* A call of lwip_recv() in progress when the session is reset or closed returns,
\* unless lwip_close() came between the check of the mailbox and the count of the
\* waiting threads (netconn_recv_data).
RecvReturns == (pc # "idle" /\ ~Open) ~> (pc = "idle" \/ overtaken)
============================================================================
