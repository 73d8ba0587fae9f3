----------------------------- MODULE SessTable -----------------------------
(* The table of TCP sessions of one lane (EkaCore::tcpSess), the EPM action *)
(* every session owns, and the write-combining window through which all     *)
(* packets reach the FPGA (EkaCore.cpp, Exc.cpp, ekaBcs.cpp, EkaEpm.cpp,    *)
(* EkaTcpSess.cpp, EkaEpmAction.cpp, EkaWc.h).                              *)
(*                                                                          *)
(* Application threads open, use and close sessions of their own through    *)
(* the Exc calls, which hold addTcpSessMtx, or the calls of EkaBcs.h, which *)
(* do not.  ServThread looks sessions up in the same table without a lock.  *)
(*                                                                          *)
(* A session is a number, given in the order of opening; it stands for the  *)
(* object, its socket and, once bound, its 4-tuple.  on_error() and         *)
(* undefined behaviour end the process: fatal says why, and nothing moves   *)
(* any more.                                                                *)
(*                                                                          *)
(* Directly above some definitions stand faulty variants of them, no part   *)
(* of the specification.                                                    *)
EXTENDS Naturals, Sequences, FiniteSets, FiniteSetsExt

CONSTANTS
    Thread,             \* application threads
    MAX_SESS_PER_CORE,  \* slots of a lane (31)
    Apis,               \* the calls in use: a subset of {"exc", "bcs"}
    Lens,               \* payload lengths
    MaxOpens,           \* bound: sessions opened
    MaxSends            \* bound: payloads sent

ASSUME TableAssumption ==
    /\ MAX_SESS_PER_CORE \in Nat \ {0}
    /\ Apis \subseteq {"exc", "bcs"}
    /\ Lens \subseteq Nat \ {0}
    /\ MaxOpens \in Nat
    /\ MaxSends \in Nat

CONTROL_SESS_ID == MAX_SESS_PER_CORE
Slot == 0 .. (MAX_SESS_PER_CORE - 1)
NULL == 0
Obj  == 1 .. MaxOpens
Ctl  == MaxOpens + 1        \* the control session

VARIABLES
    pLwipNetIf,             \* initTcp() has set core->pLwipNetIf
    tcpSess,                \* slot -> session or NULL
    a_,                     \* slot -> the session whose actions are set, or NULL
    live,                   \* sessions constructed and not destroyed
    controlTcpSess,         \* sessions whose constructor saw the control session
    est,                    \* connectionEstablished
    addTcpSessMtx, lwipConnectMtx, coreLock, busy,  \* holders of the locks
    app,                    \* application threads
    heap,                   \* slot -> buffer of the fast path or full packet action
    ackHeap,                \* slot -> headers in the buffer of the empty ACK action
    fpgaAck,                \* slot -> headers of that action in FPGA memory
    wcDesc, txBuf,          \* descriptor in the WC window; next TX buffer
    lastBuf, torn,          \* FPGA: TX buffer of the last packet; a packet that is
                            \* not whole has come
    sent,                   \* session -> fast path packets sent
    epmFeedback,            \* fast path packets fed back, FIFO of 4-tuples
    serv,                   \* ServThread
    mirrored,               \* session -> packets written into its socket
    opened, sends,          \* counts
    leaked,                 \* sessions whose handle no thread has got
    raced,                  \* two threads were in an exclusive section at once
    fatal                   \* why the process has ended, or "none"

lockVars  == <<addTcpSessMtx, lwipConnectMtx, coreLock>>
tableVars == <<pLwipNetIf, tcpSess, a_, live, controlTcpSess, opened>>
bufVars   == <<heap, ackHeap>>
wcVars    == <<busy, wcDesc, txBuf, lastBuf, torn, sent, fpgaAck, epmFeedback>>
servVars  == <<serv, mirrored>>
vars == <<lockVars, tableVars, bufVars, wcVars, servVars, app, est, sends,
          leaked, raced, fatal>>

\* A packet buffer: headers of session hdr, IP length and packet size, the
\* payload, and what the checksum was taken over.
Blank(o) == [hdr |-> o, len |-> 0, size |-> 0, body |-> <<>>, csum |-> <<>>]

NoDesc   == [idx |-> 0, size |-> 0, csum |-> <<>>, buf |-> 0, opc |-> "none"]

\* A thread: where it is, the API it uses, its session and slot; i and ptr of a
\* look-up; where it goes after a look-up or a packet; the action it sends; how it closes.
AppInit == [pc |-> "idle", api |-> "none", sess |-> NULL, slot |-> 0, i |-> 0,
            ptr |-> NULL, ret |-> "none", kind |-> "none", how |-> "none"]

Init ==
    /\ pLwipNetIf = FALSE
    /\ tcpSess = [s \in Slot |-> NULL]
    /\ a_ = [s \in 0 .. CONTROL_SESS_ID |-> NULL]
    /\ live = {}
    /\ controlTcpSess = {}
    /\ est = {}
    /\ addTcpSessMtx = {} /\ lwipConnectMtx = {} /\ coreLock = {} /\ busy = {}
    /\ app = [t \in Thread |-> AppInit]
    /\ heap = [s \in 0 .. CONTROL_SESS_ID |-> Blank(NULL)]
    /\ ackHeap = [s \in Slot |-> NULL]
    /\ fpgaAck = [s \in Slot |-> NULL]
    /\ wcDesc = NoDesc
    /\ txBuf = 0
    /\ lastBuf = 1 /\ torn = FALSE
    /\ sent = [o \in Obj |-> 0]
    /\ epmFeedback = <<>>
    /\ serv = [pc |-> "idle", i |-> 0, ptr |-> NULL]
    /\ mirrored = [o \in Obj |-> 0]
    /\ opened = 0 /\ sends = 0
    /\ leaked = {}
    /\ raced = FALSE
    /\ fatal = "none"

(* Sections of the code that are right only with one thread in them: the    *)
(* use of the table, and initTcp() with the test before it.                 *)
InTable(t) == \/ app[t].pc \in {"getFree", "new", "null", "delete", "free", "nullAfter"}
              \/ app[t].pc \in {"wcDesc", "wcPayload"} /\ app[t].ret = "free"
InInit(t)  == app[t].pc \in {"initTcp", "control"}
Overlap    == \E t \in Thread : \E u \in Thread \ {t} :
                  \/ InTable(t) /\ InTable(u)
                  \/ InInit(t) /\ (InInit(u) \/ app[u].pc \in {"lock", "getFree", "new"})

\* Set by the step that makes two threads meet.  Bound: afterwards the calls under
\* way run on and sessions are closed, and nothing else is called.
Track == raced' = (raced \/ Overlap')

Running == fatal = "none"
At(t, l) == Running /\ app[t].pc = l
Goto(t, l) == app' = [app EXCEPT ![t].pc = l]
Die(why) ==
    /\ fatal' = why
    /\ UNCHANGED <<lockVars, tableVars, bufVars, wcVars, servVars, app, est,
                   sends, leaked>>
    /\ Track

\* States a thread is in between two calls.
Between == {"idle", "socket", "failed", "conn"}

----------------------------------------------------------------------------
(* Opening: excSocket() and the first part of tcpConnect().                 *)

AfterInit(x) == IF x = "exc" THEN "lock" ELSE "getFree"

\* if (!core->pLwipNetIf) core->initTcp();
Open(t) ==
    /\ At(t, "idle") /\ ~raced /\ opened < MaxOpens
    /\ opened' = opened + 1
    /\ \E x \in Apis : app' = [app EXCEPT ![t] =
           [AppInit EXCEPT !.pc = IF pLwipNetIf THEN AfterInit(x) ELSE "initTcp",
                           !.api = x, !.ptr = opened + 1]]
    /\ UNCHANGED <<lockVars, pLwipNetIf, tcpSess, a_, live, controlTcpSess, bufVars,
                   wcVars, servVars, est, sends, leaked, fatal>>
    /\ Track

InitTcp(t) ==
    /\ At(t, "initTcp")
    /\ pLwipNetIf' = TRUE
    /\ Goto(t, "control")
    /\ UNCHANGED <<lockVars, tcpSess, a_, live, controlTcpSess, opened, bufVars,
                   wcVars, servVars, est, sends, leaked, fatal>>
    /\ Track

InitControl(t) ==
    /\ At(t, "control")
    /\ IF a_[CONTROL_SESS_ID] # NULL
       THEN Die("alreadySet")
       ELSE /\ a_' = [a_ EXCEPT ![CONTROL_SESS_ID] = Ctl]
            /\ live' = live \cup {Ctl}
            /\ Goto(t, AfterInit(app[t].api))
            /\ UNCHANGED <<lockVars, pLwipNetIf, tcpSess, controlTcpSess, opened,
                           bufVars, wcVars, servVars, est, sends, leaked, fatal>>
            /\ Track

SocketLock(t) ==
    /\ At(t, "lock") /\ addTcpSessMtx = {}
    /\ addTcpSessMtx' = {t}
    /\ Goto(t, "getFree")
    /\ UNCHANGED <<lwipConnectMtx, coreLock, tableVars, bufVars, wcVars, servVars,
                   est, sends, leaked, fatal>>
    /\ Track

FreeSlots == {s \in Slot : tcpSess[s] = NULL}

GetFreeTcpSess(t) ==
    /\ At(t, "getFree")
    /\ IF FreeSlots = {}
       THEN Die("noFree")
       ELSE /\ app' = [app EXCEPT ![t].slot = Min(FreeSlots), ![t].pc = "new"]
            /\ UNCHANGED <<lockVars, tableVars, bufVars, wcVars, servVars, est,
                           sends, leaked, fatal>>
            /\ Track

\* The constructor adds both actions of the session, with the headers of a session
\* not yet bound; the session goes into its slot and the mutex is released.
AddTcpSess(t) ==
    /\ At(t, "new")
    /\ LET s == app[t].slot
           o == app[t].ptr
       IN  IF a_[s] # NULL
           THEN Die("alreadySet")
           ELSE /\ a_' = [a_ EXCEPT ![s] = o]
                /\ live' = live \cup {o}
                /\ controlTcpSess' = IF Ctl \in live
                                     THEN controlTcpSess \cup {o}
                                     ELSE controlTcpSess
                /\ heap' = [heap EXCEPT ![s] = Blank(NULL)]
                /\ ackHeap' = [ackHeap EXCEPT ![s] = NULL]
                /\ tcpSess' = [tcpSess EXCEPT ![s] = o]
                /\ addTcpSessMtx' = addTcpSessMtx \ {t}
                /\ app' = [app EXCEPT ![t].ptr = NULL, ![t].pc = "reread"]
                /\ UNCHANGED <<lwipConnectMtx, coreLock, pLwipNetIf, opened, wcVars,
                               servVars, est, sends, leaked, fatal>>
                /\ Track

\* core->tcpSess[sessId]->sock, after the mutex was released.  excSocket()
\* returns it, tcpConnect() looks it up.
RereadSock(t) ==
    /\ At(t, "reread")
    /\ LET o == tcpSess[app[t].slot]
       IN  IF o \notin live
           THEN Die("useAfterFree")
           ELSE /\ app' = [app EXCEPT
                      ![t].sess = o,
                      ![t].pc  = IF app[t].api = "exc" THEN "socket" ELSE "load",
                      ![t].i   = 0,
                      ![t].ret = "bind"]
                /\ UNCHANGED <<lockVars, tableVars, bufVars, wcVars, servVars,
                               est, sends, leaked, fatal>>
                /\ Track

----------------------------------------------------------------------------
(* The look-up by socket, EkaDev::findTcpSess(sock): the pointer is loaded  *)
(* from the slot, then followed.                                            *)

Find(t, ret, how) == app' = [app EXCEPT ![t].pc = "load", ![t].i = 0, ![t].ret = ret,
                                        ![t].how = how]

Load(t) ==
    /\ At(t, "load") /\ app[t].i \in Slot
    /\ LET o == tcpSess[app[t].i]
       IN  app' = [app EXCEPT ![t].ptr = o,
                              ![t].i  = IF o = NULL THEN @ + 1 ELSE @,
                              ![t].pc = IF o = NULL THEN "load" ELSE "follow"]
    /\ UNCHANGED <<lockVars, tableVars, bufVars, wcVars, servVars, est, sends,
                   leaked, fatal>>
    /\ Track

Follow(t) ==
    /\ At(t, "follow")
    /\ IF app[t].ptr \notin live
       THEN Die("useAfterFree")
       ELSE /\ app' = [app EXCEPT
                  ![t] = IF @.ptr = @.sess
                         THEN [@ EXCEPT !.pc = app[t].ret, !.i = 0, !.ptr = NULL]
                         ELSE [@ EXCEPT !.pc = "load", !.i = app[t].i + 1, !.ptr = NULL]]
            /\ UNCHANGED <<lockVars, tableVars, bufVars, wcVars, servVars, est,
                           sends, leaked, fatal>>
            /\ Track

\* The session is not in the table: the call fails, the handle is of no use.
NotFound(t) ==
    /\ At(t, "load") /\ app[t].i \notin Slot
    /\ app' = [app EXCEPT ![t] = AppInit]
    /\ leaked' = leaked \cup {app[t].sess}
    /\ UNCHANGED <<lockVars, tableVars, bufVars, wcVars, servVars, est, sends,
                   fatal>>
    /\ Track

----------------------------------------------------------------------------
(* Connecting: excConnect() and the second part of tcpConnect().            *)

ExcConnect(t) ==
    /\ At(t, "socket") /\ ~raced
    /\ Find(t, "bind", "none")
    /\ UNCHANGED <<lockVars, tableVars, bufVars, wcVars, servVars, est, sends,
                   leaked, fatal>>
    /\ Track

\* bind(), then connect() takes lwipConnectMtx and, with the address of the
\* next hop, preloads the headers: those of the empty ACK go to the FPGA.
ConnectOldHdrs(t) ==
    /\ At(t, "bind") /\ lwipConnectMtx = {}
    /\ lwipConnectMtx' = {t}
    /\ app' = [app EXCEPT ![t].pc = "wcDesc", ![t].kind = "preload", ![t].ret = "syn"]
    /\ UNCHANGED <<addTcpSessMtx, coreLock, tableVars, bufVars, wcVars, servVars, est,
                   sends, leaked, fatal>>
    /\ Track

Connect(t) ==
    /\ At(t, "bind") /\ lwipConnectMtx = {}
    /\ lwipConnectMtx' = {t}
    /\ ackHeap' = [ackHeap EXCEPT ![app[t].slot] = app[t].sess]
    /\ app' = [app EXCEPT ![t].pc = "wcDesc", ![t].kind = "preload", ![t].ret = "syn"]
    /\ UNCHANGED <<addTcpSessMtx, coreLock, tableVars, heap, wcVars, servVars, est,
                   sends, leaked, fatal>>
    /\ Track

\* CONNECTION_ERROR: tcpConnect() returns -1 and keeps the session.
Refuse(t) ==
    /\ app' = [app EXCEPT ![t] =
           IF @.api = "exc" THEN [@ EXCEPT !.pc = "failed"] ELSE AppInit]
    /\ leaked' = IF app[t].api = "exc" THEN leaked ELSE leaked \cup {app[t].sess}

\* The next hop does not answer the ARP request.
ConnectNoArp(t) ==
    /\ At(t, "bind") /\ lwipConnectMtx = {}
    /\ Refuse(t)
    /\ UNCHANGED <<lockVars, tableVars, bufVars, wcVars, servVars, est, sends,
                   fatal>>
    /\ Track

\* A frame of lwIP goes out through the control session's action, under the core
\* lock (ekaLwipSend, sendStackEthFrame, sendEthFrame, sendFullPkt).
LwipFrame(t, ret) ==
    /\ coreLock = {}
    /\ coreLock' = {t}
    /\ app' = [app EXCEPT ![t].pc = "wcDesc", ![t].kind = "full", ![t].ret = ret]

Frame(o) ==
    [hdr |-> o, len |-> 1, size |-> 1, body |-> <<0, 1>>, csum |-> <<>>]

\* setNwHdrs() of the fast path action, then lwip_connect() sends the SYN.
SendSyn(t) ==
    /\ At(t, "syn")
    /\ IF app[t].sess \notin controlTcpSess
       THEN Die("noControl")
       ELSE /\ LwipFrame(t, "synSent")
            /\ heap' = [heap EXCEPT ![app[t].slot] = Blank(app[t].sess),
                                    ![CONTROL_SESS_ID] = Frame(app[t].sess)]
            /\ UNCHANGED <<addTcpSessMtx, lwipConnectMtx, tableVars, ackHeap,
                           wcVars, servVars, est, sends, leaked, fatal>>
            /\ Track

Connected(t) ==
    /\ At(t, "synSent")
    /\ est' = est \cup {app[t].sess}
    /\ lwipConnectMtx' = lwipConnectMtx \ {t}
    /\ Goto(t, "conn")
    /\ UNCHANGED <<addTcpSessMtx, coreLock, tableVars, bufVars, wcVars, servVars,
                   sends, leaked, fatal>>
    /\ Track

Refused(t) ==
    /\ At(t, "synSent")
    /\ Refuse(t)
    /\ lwipConnectMtx' = lwipConnectMtx \ {t}
    /\ UNCHANGED <<addTcpSessMtx, coreLock, tableVars, bufVars, wcVars, servVars,
                   est, sends, fatal>>
    /\ Track

----------------------------------------------------------------------------
(* Sending: tcpSend() finds the session by its socket, excSend() by its     *)
(* slot; a send that preSendCheck() refuses changes nothing here.           *)

TcpSend(t) ==
    /\ At(t, "conn") /\ app[t].api = "bcs" /\ sends < MaxSends /\ ~raced
    /\ Find(t, "hdr", "none")
    /\ UNCHANGED <<lockVars, tableVars, bufVars, wcVars, servVars, est, sends,
                   leaked, fatal>>
    /\ Track

ExcSend(t) ==
    /\ At(t, "conn") /\ app[t].api = "exc" /\ sends < MaxSends /\ ~raced
    /\ tcpSess[app[t].slot] # NULL
    /\ Goto(t, "hdr")
    /\ UNCHANGED <<lockVars, tableVars, bufVars, wcVars, servVars, est, sends,
                   leaked, fatal>>
    /\ Track

\* setPktPayloadAndSendWC(): the IP length and the packet size, then the payload
\* and the checksum over the IP header and it, all in the action's buffer.
SetPktHdr(t) ==
    /\ At(t, "hdr")
    /\ \E n \in Lens : heap' = [heap EXCEPT ![app[t].slot].len  = n,
                                            ![app[t].slot].size = n]
    /\ Goto(t, "payload")
    /\ UNCHANGED <<lockVars, tableVars, ackHeap, wcVars, servVars, est, sends,
                   leaked, fatal>>
    /\ Track

SetPktPayload(t) ==
    /\ At(t, "payload")
    /\ sends' = sends + 1
    /\ LET b    == heap[app[t].slot]
           body == <<sends + 1, b.len>>
       IN  heap' = [heap EXCEPT ![app[t].slot].body = body,
                                ![app[t].slot].csum = <<b.hdr, b.len, body>>]
    /\ app' = [app EXCEPT ![t].pc = "wcDesc", ![t].kind = "fast", ![t].ret = "conn"]
    /\ UNCHANGED <<lockVars, tableVars, ackHeap, wcVars, servVars, est, leaked,
                   fatal>>
    /\ Track

\* EkaWc: the descriptor is written once the spin lock of channel 0 is taken ...
WcDescUnlocked(t) ==
    /\ At(t, "wcDesc")
    /\ LET s    == IF app[t].kind = "full" THEN CONTROL_SESS_ID ELSE app[t].slot
           send == app[t].kind # "preload"
       IN  wcDesc' = [idx  |-> s,
                      size |-> IF send THEN heap[s].size ELSE 0,
                      csum |-> IF send THEN heap[s].csum ELSE <<>>,
                      buf  |-> txBuf,
                      opc  |-> IF send THEN "Send" ELSE "DontSend"]
    /\ busy' = {t}
    /\ Goto(t, "wcPayload")
    /\ UNCHANGED <<lockVars, tableVars, bufVars, txBuf, lastBuf, torn, sent, fpgaAck,
                   epmFeedback, servVars, est, sends, leaked, fatal>>
    /\ Track

WcDesc(t) == busy = {} /\ WcDescUnlocked(t)

\* ... and the packet copied after it from the action's buffer; the FPGA takes both
\* together.  A fast path packet is fed back.  The other TX buffer is next.
\* Length, size and checksum are those of the payload that follows them.
Whole(d, b) == /\ d.size = b.len /\ d.csum = b.csum
               /\ b.csum \in {<<>>, <<b.hdr, b.len, b.body>>}
               /\ d.idx = CONTROL_SESS_ID <=> b.csum = <<>>

NextTxBufSame == txBuf

NextTxBuf == IF wcDesc.opc = "Send" THEN 1 - txBuf ELSE txBuf

WcPayload(t) ==
    /\ At(t, "wcPayload")
    /\ IF wcDesc.opc = "DontSend"
       THEN /\ fpgaAck' = [fpgaAck EXCEPT ![wcDesc.idx] = ackHeap[app[t].slot]]
            /\ UNCHANGED <<lastBuf, torn, sent, epmFeedback>>
       ELSE LET b == heap[IF app[t].kind = "full" THEN CONTROL_SESS_ID
                                                  ELSE app[t].slot]
            IN  /\ lastBuf' = wcDesc.buf
                /\ torn' = (torn \/ ~Whole(wcDesc, b))
                /\ IF wcDesc.idx = CONTROL_SESS_ID
                   THEN UNCHANGED <<sent, epmFeedback>>
                   ELSE /\ epmFeedback' = Append(epmFeedback, b.hdr)
                        /\ sent' = [sent EXCEPT ![app[t].sess] = @ + 1]
                /\ UNCHANGED fpgaAck
    /\ wcDesc' = NoDesc
    /\ txBuf' = NextTxBuf
    /\ busy' = busy \ {t}
    /\ coreLock' = coreLock \ {t}
    /\ app' = [app EXCEPT ![t].pc = app[t].ret, ![t].ret = "none", ![t].kind = "none"]
    /\ UNCHANGED <<addTcpSessMtx, lwipConnectMtx, tableVars, bufVars, servVars, est,
                   sends, leaked, fatal>>
    /\ Track

----------------------------------------------------------------------------
(* Closing: excClose() and closeSock() clear the slot and delete the        *)
(* session, excSocketClose() deletes it and clears the slot.                *)

ExcClose(t) ==
    /\ At(t, "conn") /\ app[t].api = "exc" /\ addTcpSessMtx = {}
    /\ tcpSess[app[t].slot] # NULL
    /\ addTcpSessMtx' = {t}
    /\ app' = [app EXCEPT ![t].pc = "null", ![t].ret = "none"]
    /\ UNCHANGED <<lwipConnectMtx, coreLock, tableVars, bufVars, wcVars, servVars,
                   est, sends, leaked, fatal>>
    /\ Track

CloseSock(t) ==
    /\ At(t, "conn") /\ app[t].api = "bcs"
    /\ Find(t, "null", "none")
    /\ UNCHANGED <<lockVars, tableVars, bufVars, wcVars, servVars, est, sends,
                   leaked, fatal>>
    /\ Track

ExcSocketClose(t) ==
    /\ \E l \in {"socket", "failed", "conn"} : At(t, l)
    /\ app[t].api = "exc"
    /\ Find(t, "delete", "socketClose")
    /\ UNCHANGED <<lockVars, tableVars, bufVars, wcVars, servVars, est, sends,
                   leaked, fatal>>
    /\ Track

NullSlotFirst(t) ==
    /\ At(t, "null")
    /\ tcpSess' = [tcpSess EXCEPT ![app[t].i] = NULL]
    /\ Goto(t, "delete")
    /\ UNCHANGED <<lockVars, pLwipNetIf, a_, live, controlTcpSess, opened, bufVars,
                   wcVars, servVars, est, sends, leaked, fatal>>
    /\ Track

NullSlot(t) ==
    /\ At(t, "null")
    /\ tcpSess' = [tcpSess EXCEPT ![app[t].slot] = NULL]
    /\ Goto(t, "delete")
    /\ UNCHANGED <<lockVars, pLwipNetIf, a_, live, controlTcpSess, opened, bufVars,
                   wcVars, servVars, est, sends, leaked, fatal>>
    /\ Track

\* The destructor: lwip_close() of a connected socket sends a FIN, now or after
\* the slot was cleared, through the control session.
LwipClose(t) ==
    /\ At(t, "delete")
    /\ IF app[t].sess \in est
       THEN /\ LwipFrame(t, "free")
            /\ heap' = [heap EXCEPT ![CONTROL_SESS_ID] = Frame(app[t].sess)]
       ELSE Goto(t, "free") /\ UNCHANGED <<coreLock, heap>>
    /\ UNCHANGED <<addTcpSessMtx, lwipConnectMtx, tableVars, ackHeap, wcVars,
                   servVars, est, sends, leaked, fatal>>
    /\ Track

\* ... then both actions are deleted (a missing one only gives a warning).
DeleteActionsKept(s) == a_

DeleteActions(s) == [a_ EXCEPT ![s] = NULL]

DeleteTcpSess(t) ==
    /\ At(t, "free")
    /\ a_' = DeleteActions(app[t].slot)
    /\ live' = live \ {app[t].sess}
    /\ est' = est \ {app[t].sess}
    /\ addTcpSessMtx' = addTcpSessMtx \ {t}
    /\ app' = [app EXCEPT ![t] = IF @.how = "socketClose"
                                 THEN [@ EXCEPT !.pc = "nullAfter"] ELSE AppInit]
    /\ UNCHANGED <<lwipConnectMtx, coreLock, pLwipNetIf, tcpSess, controlTcpSess,
                   opened, bufVars, wcVars, servVars, sends, leaked, fatal>>
    /\ Track

NullSlotNever(t) ==
    /\ At(t, "nullAfter")
    /\ app' = [app EXCEPT ![t] = AppInit]
    /\ UNCHANGED <<lockVars, tableVars, bufVars, wcVars, servVars, est, sends,
                   leaked, fatal>>
    /\ Track

NullSlotAfter(t) ==
    /\ At(t, "nullAfter")
    /\ tcpSess' = [tcpSess EXCEPT ![app[t].slot] = NULL]
    /\ app' = [app EXCEPT ![t] = AppInit]
    /\ UNCHANGED <<lockVars, pLwipNetIf, a_, live, controlTcpSess, opened, bufVars,
                   wcVars, servVars, est, sends, leaked, fatal>>
    /\ Track

----------------------------------------------------------------------------
(* ServThread: sendDummyPkt() looks up the 4-tuple of a packet that was fed *)
(* back, and writes the packet into the socket of the session it has found. *)

ServTake ==
    /\ Running /\ serv.pc = "idle" /\ epmFeedback # <<>>
    /\ serv' = [pc |-> "load", i |-> 0, ptr |-> NULL]
    /\ UNCHANGED <<lockVars, tableVars, bufVars, wcVars, app, mirrored, est, sends,
                   leaked, fatal>>
    /\ Track

ServLoad ==
    /\ Running /\ serv.pc = "load"
    /\ IF serv.i \notin Slot
       THEN Die("notFound")
       ELSE /\ LET o == tcpSess[serv.i]
               IN  serv' = IF o = NULL THEN [serv EXCEPT !.i = @ + 1]
                           ELSE [serv EXCEPT !.ptr = o, !.pc = "follow"]
            /\ UNCHANGED <<lockVars, tableVars, bufVars, wcVars, app, mirrored,
                           est, sends, leaked, fatal>>
            /\ Track

MyParamsDstOnly(o) == o \in est

MyParams(o) == o = Head(epmFeedback)

ServFollow ==
    /\ Running /\ serv.pc = "follow"
    /\ IF serv.ptr \notin live
       THEN Die("useAfterFree")
       ELSE /\ serv' = IF MyParams(serv.ptr) THEN [serv EXCEPT !.pc = "write"]
                       ELSE [serv EXCEPT !.i = @ + 1, !.pc = "load"]
            /\ UNCHANGED <<lockVars, tableVars, bufVars, wcVars, app, mirrored,
                           est, sends, leaked, fatal>>
            /\ Track

ServWrite ==
    /\ Running /\ serv.pc = "write"
    /\ IF serv.ptr \notin live
       THEN Die("useAfterFree")
       ELSE /\ mirrored' = [mirrored EXCEPT ![serv.ptr] = @ + 1]
            /\ epmFeedback' = Tail(epmFeedback)
            /\ serv' = [pc |-> "idle", i |-> 0, ptr |-> NULL]
            /\ UNCHANGED <<lockVars, tableVars, bufVars, busy, wcDesc, txBuf, lastBuf, torn, sent,
                           fpgaAck, app, est, sends, leaked, fatal>>
            /\ Track

----------------------------------------------------------------------------
\* Steps of a call; its beginning is the application's choice.
CallStep(t) ==
    \/ InitTcp(t) \/ InitControl(t) \/ SocketLock(t)
    \/ GetFreeTcpSess(t) \/ AddTcpSess(t) \/ RereadSock(t)
    \/ Load(t) \/ Follow(t) \/ NotFound(t)
    \/ Connect(t) \/ ConnectNoArp(t) \/ SendSyn(t) \/ Connected(t) \/ Refused(t)
    \/ SetPktHdr(t) \/ SetPktPayload(t) \/ WcDesc(t) \/ WcPayload(t)
    \/ NullSlot(t) \/ LwipClose(t) \/ DeleteTcpSess(t) \/ NullSlotAfter(t)

ServStep == ServTake \/ ServLoad \/ ServFollow \/ ServWrite

Next ==
    \/ \E t \in Thread :
           \/ Open(t) \/ ExcConnect(t) \/ TcpSend(t) \/ ExcSend(t)
           \/ ExcClose(t) \/ CloseSock(t) \/ ExcSocketClose(t)
           \/ CallStep(t)
    \/ ServStep

Spec == Init /\ [][Next]_vars

----------------------------------------------------------------------------
(* Properties.                                                              *)

AppType == [pc : STRING, api : Apis \cup {"none"}, sess : Obj \cup {NULL},
            slot : Slot, i : Nat, ptr : Obj \cup {NULL}, ret : STRING,
            kind : {"none", "preload", "fast", "full"},
            how : {"none", "socketClose"}]

\* The values every variable takes.
TypeOK ==
    /\ pLwipNetIf \in BOOLEAN
    /\ tcpSess \in [Slot -> Obj \cup {NULL}]
    /\ a_ \in [0 .. CONTROL_SESS_ID -> Obj \cup {NULL, Ctl}]
    /\ live \subseteq Obj \cup {Ctl}
    /\ controlTcpSess \subseteq Obj
    /\ est \subseteq Obj
    /\ \A l \in {addTcpSessMtx, lwipConnectMtx, coreLock, busy} :
           l \subseteq Thread /\ Cardinality(l) <= 1
    /\ \A t \in Thread : app[t] \in AppType
    /\ txBuf \in {0, 1}
    /\ leaked \subseteq Obj
    /\ raced \in BOOLEAN

\* on_error("a_[%d] is already set") and a session without control session come
\* only of two threads in addTcpSess(), a close or initTcp() at once: in
\* sequence, opening and closing never trips over what the last call left.
SequentialIsSafe == fatal \in {"alreadySet", "noControl"} => raced

\* A thread between excSocket() or tcpConnect() and its close.
Owns(t) ==
    /\ app[t].sess # NULL
    /\ \/ app[t].pc \in Between \cup {"load", "follow", "bind", "syn", "synSent",
                                      "hdr", "payload"}
       \/ app[t].pc \in {"wcDesc", "wcPayload"} /\ app[t].ret # "free"

\* Until it closes it, the session of a thread stays alive in its slot with its
\* own action, and no other thread has it, however other threads open and close.
OwnSessionStays ==
    Running /\ ~raced => \A t \in Thread : Owns(t) =>
        /\ app[t].sess \in live
        /\ tcpSess[app[t].slot] = app[t].sess
        /\ a_[app[t].slot] = app[t].sess
        /\ \A u \in Thread \ {t} : app[u].sess # app[t].sess

\* getFreeTcpSess() reports "all are in use" only if they are: every taken slot
\* belongs to a thread that can still close it, or to a failed tcpConnect().
SlotsAccounted ==
    ~raced => \A s \in Slot : tcpSess[s] # NULL =>
        \/ tcpSess[s] \in leaked
        \/ \E t \in Thread : app[t].pc # "idle" /\ app[t].slot = s

\* Every packet the FPGA gets is whole: length, size and checksum are those of
\* the payload it carries, whatever threads share the window with it.
WholePackets == ~raced => ~torn

\* Two packets in a row never use the same TX buffer (the FPGA may still be
\* sending the first).
BuffersAlternate == wcDesc.opc = "Send" => wcDesc.buf # lastBuf

\* The FPGA acknowledges on an established session with headers of that session,
\* not of the one that had the slot before.
AckHeadersFresh ==
    Running /\ ~raced => \A s \in Slot : tcpSess[s] \in est => fpgaAck[s] = tcpSess[s]

\* A packet that is fed back is written to the session that sent it, once.
FeedbackToSender ==
    ~raced => \A o \in Obj :
        mirrored[o] + Cardinality({k \in DOMAIN epmFeedback : epmFeedback[k] = o})
          = sent[o]

============================================================================
