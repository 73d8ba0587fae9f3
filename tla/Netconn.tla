------------------------------ MODULE Netconn ------------------------------
(* Calls of the socket API that wait, on the semaphore of the lwIP port.     *)
(*                                                                           *)
(* connect(), write(), close() and poll() sleep on the semaphore             *)
(* LWIP_NETCONN_THREAD_SEM_GET() returns until the stack signals it.  lwIP   *)
(* asks the port for one semaphore per thread (LWIP_NETCONN_SEM_PER_THREAD); *)
(* sys_arch_netconn_sem_get() has one for all.  Threads are the application, *)
(* which connects, polls and closes, and ServThread, which writes dummies    *)
(* with lwip_write().                                                        *)
(*                                                                           *)
(* A step is what runs under the core lock or under SYS_ARCH_PROTECT.        *)
(* Sockets are blocking; every poll() is about all sockets and one kind of   *)
(* event.  The exchange is the environment: it answers, acknowledges, sends  *)
(* and resets.  Faulty variants of some definitions stand directly above     *)
(* them, no part of the specification.                                       *)
EXTENDS SysArch, FiniteSets

CONSTANTS
    Threads, Conns,
    TCP_SND_BUF, TCP_SNDLOWAT,
    WriteLens,      \* lengths the application writes
    MaxRcv,         \* bound: messages in a recvmbox
    Sharing         \* what the application does beyond one waiting call at a time:
                    \* "sem" - several, "pollclose" - closes what is polled,
                    \* "connclose" - closes what another thread connects

ASSUME NetconnAssumption ==
    /\ TCP_SND_BUF \in Nat /\ TCP_SNDLOWAT \in 0..TCP_SND_BUF
    /\ WriteLens \subseteq Nat \ {0}
    /\ MaxRcv \in Nat
    /\ Sharing \subseteq {"sem", "pollclose", "connclose"}

VARIABLES
    conn,       \* netconns: pcb, state, current_msg, sndbuf, rem (of current_msg)
    sock,       \* sockets: valid, rcvevent, sendevent, errevent, select_waiting
    sem,        \* counts of the semaphores
    pc,
    on,         \* the netconn of a thread's call
    op,         \* "connect", "write" or "close"
    poll,       \* a thread in lwip_poll(): timeout, events, sockets to scan, result, waited
    scb,        \* select_cb_list, as a set of threads
    signalled,  \* sem_signalled of their entries
    aborted     \* an LWIP_ASSERT failed

vars == <<conn, sock, sem, pc, on, op, poll, scb, signalled, aborted>>

NoThread == "nobody"
NoConn   == "none"

\* A netconn without a call has no caller.
ASSUME NamesAssumption == NoThread \notin Threads

PollPcs  == {"scan", "link", "inc", "sleep", "dec", "unlink", "drain"}

\* The semaphore of a thread's calls.
sys_arch_netconn_sem_get(t) == "global_netconn_sem"
Sem(t) == sem[sys_arch_netconn_sem_get(t)]

NewSock(waiting) ==
    [valid |-> TRUE, rcvevent |-> 0, sendevent |-> FALSE, errevent |-> FALSE,
     select_waiting |-> waiting]
NewConn ==
    [pcb |-> "new", state |-> "none", current_msg |-> NoThread,
     sndbuf |-> TCP_SND_BUF, rem |-> 0]
NoPoll == [timeout |-> 0, events |-> "in", todo |-> {}, res |-> "none", waited |-> "no"]

Init ==
    /\ conn = [c \in Conns |-> NewConn]
    /\ sock = [c \in Conns |-> NewSock(0)]
    /\ sem = [s \in {sys_arch_netconn_sem_get(t) : t \in Threads} |-> 0]
    /\ pc = [t \in Threads |-> "idle"]
    /\ on = [t \in Threads |-> NoConn] /\ op = [t \in Threads |-> "none"]
    /\ poll = [t \in Threads |-> NoPoll]
    /\ scb = {} /\ signalled = [t \in Threads |-> FALSE]
    /\ aborted = FALSE

\* The caller has the API for itself.
Alone(t) == "sem" \in Sharing \/ \A u \in Threads \ {t} : pc[u] = "idle"

\* LWIP_ASSERT: print and abort().
LWIP_ASSERT(ok) == aborted' = ~ok

----------------------------------------------------------------------------
(* Events for lwip_poll().                                                   *)

Ready(s, events) ==
    \/ events = "in" /\ s.rcvevent > 0
    \/ events = "out" /\ s.sendevent
    \/ s.errevent

\* select_check_waiters(): the threads that are signalled.
select_check_waiters(s) ==
    {t \in scb : ~signalled[t] /\ Ready(s, poll[t].events)}

\* The threads get their signal; two signals of one semaphore are one.
Signal(ts) ==
    sem' = [s \in DOMAIN sem |->
              IF \E t \in ts : sys_arch_netconn_sem_get(t) = s
              THEN sys_sem_signal(sem[s]) ELSE sem[s]]

\* event_callback(): the socket gets its new counters; check is check_waiters.  The
\* thread whose call completes is signalled as well.
Event(c, s, check, owner) ==
    LET woken == IF s.select_waiting > 0 /\ check THEN select_check_waiters(s) ELSE {}
    IN  /\ sock' = [sock EXCEPT ![c] = s]
        /\ signalled' = [t \in Threads |-> signalled[t] \/ t \in woken]
        /\ Signal(woken \cup (owner \ {NoThread}))

\* NETCONN_EVT_ERROR, RCVPLUS and SENDPLUS, for a connection that is gone.
Gone(s) == [s EXCEPT !.errevent = TRUE, !.rcvevent = @ + 1, !.sendevent = TRUE]

SendPlus(s)  == [s EXCEPT !.sendevent = TRUE]
SendMinus(s) == [s EXCEPT !.sendevent = FALSE]

----------------------------------------------------------------------------
(* connect(), write(), close(): the call of the thread.                      *)

\* The thread is where in a call of what on c; it has no locals once it returned.
At(t, where, c, what) ==
    /\ pc' = [pc EXCEPT ![t] = where]
    /\ on' = [on EXCEPT ![t] = IF where = "idle" THEN NoConn ELSE c]
    /\ op' = [op EXCEPT ![t] = IF where = "idle" THEN "none" ELSE what]

MayCall(t, c) == ~aborted /\ pc[t] = "idle" /\ sock[c].valid

\* EkaTcpSess::connect() has not returned; the session sends only after it has.
Connecting(c) ==
    \E u \in Threads : pc[u] \in {"asleep", "woken"} /\ op[u] = "connect" /\ on[u] = c

\* lwip_netconn_do_connect(), under dev->lwipConnectMtx.
Connect(t, c) ==
    /\ MayCall(t, c) /\ Alone(t)
    /\ conn[c].pcb = "new" /\ conn[c].state = "none"
    /\ \A d \in Conns : ~Connecting(d)
    /\ conn' = [conn EXCEPT ![c].pcb = "syn", ![c].state = "connect", ![c].current_msg = t]
    /\ At(t, "asleep", c, "connect")
    /\ UNCHANGED <<sock, sem, poll, scb, signalled, aborted>>

\* lwip_netconn_do_writemore(): what fits goes to the send buffer.
do_writemore(cn) ==
    LET n == IF cn.rem > cn.sndbuf THEN cn.sndbuf ELSE cn.rem
    IN  IF cn.rem = n
        THEN [cn EXCEPT !.sndbuf = @ - n, !.rem = 0, !.state = "none", !.current_msg = NoThread]
        ELSE [cn EXCEPT !.sndbuf = @ - n, !.rem = @ - n]

Writable(cn) == cn.sndbuf > TCP_SNDLOWAT

\* The semaphore is signalled though nobody waits.
WriteAlwaysSignals(t, c) ==
    \E len \in WriteLens :
      LET cn == do_writemore([conn[c] EXCEPT !.state = "write", !.current_msg = t, !.rem = len])
      IN  /\ MayCall(t, c) /\ Alone(t)
          /\ conn[c].pcb = "open" /\ conn[c].state = "none" /\ ~Connecting(c)
          /\ \A u \in Threads : op[u] # "write"
          /\ conn' = [conn EXCEPT ![c] = cn]
          /\ sock' = [sock EXCEPT ![c] = IF Writable(cn) THEN @ ELSE SendMinus(@)]
          /\ At(t, IF cn.state = "none" THEN "idle" ELSE "asleep", c, "write")
          /\ Signal(IF cn.state = "none" THEN {t} ELSE {})
          /\ UNCHANGED <<poll, scb, signalled, aborted>>

\* lwip_netconn_do_write(), called by one thread, ServThread: sleep only when the send
\* buffer is too small.
Write(t, c) ==
    \E len \in WriteLens :
      LET cn == do_writemore([conn[c] EXCEPT !.state = "write", !.current_msg = t, !.rem = len])
      IN  /\ MayCall(t, c) /\ Alone(t)
          /\ conn[c].pcb = "open" /\ conn[c].state = "none" /\ ~Connecting(c)
          /\ \A u \in Threads : op[u] # "write"
          /\ conn' = [conn EXCEPT ![c] = cn]
          /\ sock' = [sock EXCEPT ![c] = IF Writable(cn) THEN @ ELSE SendMinus(@)]
          /\ At(t, IF cn.state = "none" THEN "idle" ELSE "asleep", c, "write")
          /\ UNCHANGED <<sem, poll, scb, signalled, aborted>>

Closed(cn) == [cn EXCEPT !.pcb = "gone", !.state = "none", !.current_msg = NoThread, !.rem = 0]

\* lwip_netconn_do_delconn(): a blocked write or connect is aborted with ERR_CLSD; for
\* a connect the assertion "blocking connect in progress" comes next, on the state of
\* before.  The connection is closed at once, or there is no memory for the FIN and the
\* thread waits (modelled when no other thread is in a call).
Close(t, c) ==
    /\ MayCall(t, c)
    /\ "connclose" \in Sharing \/ conn[c].state # "connect"
    /\ conn[c].state # "close" /\ \A u \in Threads : ~(pc[u] = "free" /\ on[u] = c)
    /\ "pollclose" \in Sharing \/ \A u \in Threads : pc[u] \notin PollPcs
    /\ \/ /\ conn' = [conn EXCEPT ![c] = Closed(@)]
          /\ IF conn[c].pcb = "gone"
             THEN UNCHANGED <<sock, sem, signalled>>
             ELSE Event(c, Gone(sock[c]), TRUE, {conn[c].current_msg})
          /\ At(t, "free", c, "close")
       \/ /\ conn[c].pcb = "open" /\ \A u \in Threads \ {t} : pc[u] = "idle"
          /\ conn' = [conn EXCEPT ![c].state = "close", ![c].current_msg = t, ![c].rem = 0]
          /\ Event(c, sock[c], FALSE, {conn[c].current_msg})
          /\ At(t, "asleep", c, "close")
    /\ LWIP_ASSERT(conn[c].state # "connect")
    /\ UNCHANGED <<poll, scb>>

\* sys_arch_sem_wait() returns.
Wake(t) ==
    /\ ~aborted /\ pc[t] = "asleep" /\ Sem(t) > 0
    /\ sem' = [sem EXCEPT ![sys_arch_netconn_sem_get(t)] = @ - 1]
    /\ pc' = [pc EXCEPT ![t] = "woken"]
    /\ UNCHANGED <<conn, sock, on, op, poll, scb, signalled, aborted>>

\* Under the core lock again, the call relies on being complete.
Resume(t) ==
    /\ ~aborted /\ pc[t] = "woken"
    /\ LWIP_ASSERT(IF op[t] = "close" THEN conn[on[t]].state = "none"
                                      ELSE conn[on[t]].state # op[t])
    /\ At(t, IF op[t] = "close" THEN "free" ELSE "idle", on[t], op[t])
    /\ UNCHANGED <<conn, sock, sem, poll, scb, signalled>>

\* free_socket(): the number is invalid from here on.
Free(t) ==
    /\ ~aborted /\ pc[t] = "free"
    /\ sock' = [sock EXCEPT ![on[t]].valid = FALSE]
    /\ At(t, "idle", NoConn, "none")
    /\ UNCHANGED <<conn, sem, poll, scb, signalled, aborted>>

\* alloc_socket(): the number is used again when no call holds the socket.
Socket(c) ==
    /\ ~aborted /\ ~sock[c].valid
    /\ \A t \in Threads : pc[t] \notin PollPcs /\ ~(pc[t] \in {"asleep", "woken"} /\ on[t] = c)
    /\ LWIP_ASSERT(sock[c].select_waiting = 0)
    /\ sock' = [sock EXCEPT ![c] = NewSock(@.select_waiting)]
    /\ conn' = [conn EXCEPT ![c] = NewConn]
    /\ UNCHANGED <<sem, pc, on, op, poll, scb, signalled>>

----------------------------------------------------------------------------
(* The stack: callbacks of the pcb, under the core lock.                     *)

calls == <<pc, on, op, poll, scb, aborted>>

\* lwip_netconn_do_connected()
do_connected(c) ==
    /\ ~aborted /\ conn[c].pcb = "syn"
    /\ conn' = [conn EXCEPT ![c].pcb = "open", ![c].state = "none", ![c].current_msg = NoThread]
    /\ Event(c, SendPlus(sock[c]), ~sock[c].sendevent, {conn[c].current_msg})
    /\ UNCHANGED calls

\* The caller is not woken.
ErrSilent(c) ==
    /\ ~aborted /\ conn[c].pcb \in {"syn", "open"}
    /\ conn' = [conn EXCEPT ![c] = Closed(@)]
    /\ Event(c, Gone(sock[c]), TRUE, {})
    /\ UNCHANGED calls

\* err_tcp(): the connection was reset or given up.
err_tcp(c) ==
    /\ ~aborted /\ conn[c].pcb \in {"syn", "open"}
    /\ conn' = [conn EXCEPT ![c] = Closed(@)]
    /\ Event(c, Gone(sock[c]), TRUE, {conn[c].current_msg})
    /\ UNCHANGED calls

\* sent_tcp(): the exchange has acknowledged; a blocked write goes on.
sent_tcp(c) ==
    /\ ~aborted /\ conn[c].pcb = "open" /\ conn[c].state # "close"
    /\ \E n \in 1..(TCP_SND_BUF - conn[c].sndbuf) :
         LET freed == [conn[c] EXCEPT !.sndbuf = @ + n]
             cn    == IF freed.state = "write" THEN do_writemore(freed) ELSE freed
             owner == IF cn.state # conn[c].state THEN {conn[c].current_msg} ELSE {}
         IN  /\ conn' = [conn EXCEPT ![c] = cn]
             /\ IF Writable(cn)
                THEN Event(c, SendPlus(sock[c]), ~sock[c].sendevent, owner)
                ELSE Event(c, IF freed.state = "write" THEN SendMinus(sock[c]) ELSE sock[c],
                           FALSE, owner)
    /\ UNCHANGED calls

\* poll_tcp() or sent_tcp(): another attempt to close, or its timeout.
close_internal(c) ==
    /\ ~aborted /\ conn[c].state = "close"
    /\ conn' = [conn EXCEPT ![c] = Closed(@)]
    /\ Event(c, Gone(sock[c]), TRUE, {conn[c].current_msg})
    /\ UNCHANGED calls

\* recv_tcp(): data for the application.
recv_tcp(c) ==
    /\ ~aborted /\ conn[c].pcb = "open" /\ sock[c].rcvevent < MaxRcv
    /\ conn[c].state # "close"
    /\ Event(c, [sock[c] EXCEPT !.rcvevent = @ + 1], sock[c].rcvevent = 0, {})
    /\ UNCHANGED <<conn, calls>>

\* netconn_recv_data(): the application has taken a message.
recv_data(c) ==
    /\ ~aborted /\ sock[c].valid /\ sock[c].rcvevent > 0
    /\ sock' = [sock EXCEPT ![c].rcvevent = @ - 1]
    /\ UNCHANGED <<conn, sem, signalled, calls>>

----------------------------------------------------------------------------
(* lwip_poll()                                                               *)

Goto(t, where) == pc' = [pc EXCEPT ![t] = where]

PollReturn(t) ==
    /\ Goto(t, "idle")
    /\ poll' = [poll EXCEPT ![t] = NoPoll]
    /\ signalled' = [signalled EXCEPT ![t] = FALSE]

PollCall(t) ==
    /\ ~aborted /\ pc[t] = "idle" /\ Alone(t)
    /\ \E timeout \in {-1, 0, 1}, events \in {"in", "out"} :
         poll' = [poll EXCEPT ![t] = [timeout |-> timeout, events |-> events, todo |-> Conns,
                                      res |-> "none", waited |-> "no"]]
    /\ Goto(t, "scan")
    /\ UNCHANGED <<conn, sock, sem, on, op, scb, signalled, aborted>>

\* One socket in lwip_pollscan(): with LWIP_POLLSCAN_INC_WAIT and DEC_WAIT it counts the
\* thread.  A closed socket ends the scan.
Scanned(t, c, count) ==
    IF sock[c].valid
    THEN /\ poll' = [poll EXCEPT ![t].todo = @ \ {c},
                                 ![t].res = IF Ready(sock[c], poll[t].events) THEN "ready" ELSE @]
         /\ sock' = [sock EXCEPT ![c].select_waiting = @ + count]
    ELSE /\ poll' = [poll EXCEPT ![t].todo = {}, ![t].res = "bad"]
         /\ UNCHANGED sock

PollScan(t) ==
    /\ ~aborted
    /\ \E c \in poll[t].todo :
         \/ pc[t] = "scan" /\ Scanned(t, c, 0)
         \/ pc[t] = "inc"  /\ Scanned(t, c, 1)
         \/ pc[t] = "dec"  /\ Scanned(t, c, -1)
    /\ UNCHANGED <<conn, sem, pc, on, op, scb, signalled, aborted>>

Rescan(t) == poll' = [poll EXCEPT ![t].todo = Conns, ![t].res = "none"]

\* The first scan is over: return, or wait for an event.
PollFirst(t) ==
    /\ ~aborted /\ pc[t] = "scan" /\ poll[t].todo = {}
    /\ IF poll[t].res # "none" \/ poll[t].timeout = 0
       THEN PollReturn(t)
       ELSE Goto(t, "link") /\ UNCHANGED <<poll, signalled>>
    /\ UNCHANGED <<conn, sock, sem, on, op, scb, aborted>>

\* The thread sleeps at once.
LinkNoRescan(t) ==
    /\ ~aborted /\ pc[t] = "link"
    /\ scb' = scb \cup {t}
    /\ signalled' = [signalled EXCEPT ![t] = FALSE]
    /\ Rescan(t)
    /\ Goto(t, "sleep")
    /\ UNCHANGED <<conn, sock, sem, on, op, aborted>>

\* lwip_link_select_cb(); then the sockets are scanned again.
Link(t) ==
    /\ ~aborted /\ pc[t] = "link"
    /\ scb' = scb \cup {t}
    /\ signalled' = [signalled EXCEPT ![t] = FALSE]
    /\ Rescan(t)
    /\ Goto(t, "inc")
    /\ UNCHANGED <<conn, sock, sem, on, op, aborted>>

PollSecond(t) ==
    /\ ~aborted /\ pc[t] = "inc" /\ poll[t].todo = {}
    /\ IF poll[t].res = "none"
       THEN Goto(t, "sleep") /\ UNCHANGED poll
       ELSE Goto(t, "dec") /\ Rescan(t)
    /\ UNCHANGED <<conn, sock, sem, on, op, scb, signalled, aborted>>

PollWake(t) ==
    /\ ~aborted /\ pc[t] = "sleep"
    /\ \/ /\ Sem(t) > 0
          /\ sem' = [sem EXCEPT ![sys_arch_netconn_sem_get(t)] = @ - 1]
          /\ poll' = [poll EXCEPT ![t].todo = Conns, ![t].res = "none", ![t].waited = "yes"]
       \/ /\ Sem(t) = 0 /\ poll[t].timeout > 0
          /\ poll' = [poll EXCEPT ![t].todo = Conns, ![t].res = "none", ![t].waited = "timeout"]
          /\ UNCHANGED sem
    /\ Goto(t, "dec")
    /\ UNCHANGED <<conn, sock, on, op, scb, signalled, aborted>>

\* A signal that came too late is left behind.
UnlinkNoDrain(t) ==
    /\ ~aborted /\ pc[t] = "dec" /\ poll[t].todo = {}
    /\ scb' = scb \ {t}
    /\ PollReturn(t)
    /\ UNCHANGED <<conn, sock, sem, on, op, aborted>>

\* lwip_unlink_select_cb()
Unlink(t) ==
    /\ ~aborted /\ pc[t] = "dec" /\ poll[t].todo = {}
    /\ scb' = scb \ {t}
    /\ IF signalled[t] /\ poll[t].waited # "yes"
       THEN Goto(t, "drain") /\ UNCHANGED <<poll, signalled>>
       ELSE PollReturn(t)
    /\ UNCHANGED <<conn, sock, sem, on, op, aborted>>

\* "don't leave the thread-local semaphore signalled": wait for it, 1 ms at most.
Drain(t) ==
    /\ ~aborted /\ pc[t] = "drain"
    /\ sem' = [sem EXCEPT ![sys_arch_netconn_sem_get(t)] = 0]
    /\ PollReturn(t)
    /\ UNCHANGED <<conn, sock, on, op, scb, aborted>>

----------------------------------------------------------------------------
Call(t)   == PollCall(t) \/ \E c \in Conns : Connect(t, c) \/ Write(t, c) \/ Close(t, c)
Go(t)     == Wake(t) \/ Resume(t) \/ Free(t)
GoPoll(t) == PollScan(t) \/ PollFirst(t) \/ Link(t) \/ PollSecond(t) \/ PollWake(t)
             \/ Unlink(t) \/ Drain(t)
Stack(c)  == do_connected(c) \/ err_tcp(c) \/ sent_tcp(c) \/ close_internal(c)
             \/ recv_tcp(c) \/ recv_data(c)

Next ==
    \/ \E t \in Threads : Call(t) \/ Go(t) \/ GoPoll(t)
    \/ \E c \in Conns : Socket(c) \/ Stack(c)

\* A thread that can run does.  lwIP gives up on an exchange that does not answer, so a
\* connection attempt, a blocked write and a close come to an end.
Fairness ==
    /\ \A t \in Threads : WF_vars(Go(t)) /\ WF_vars(GoPoll(t))
    /\ \A c \in Conns :
         /\ WF_vars(conn[c].state = "connect" /\ (do_connected(c) \/ err_tcp(c)))
         /\ WF_vars(conn[c].state = "write" /\ (sent_tcp(c) \/ err_tcp(c)))
         /\ WF_vars(close_internal(c))

Spec == Init /\ [][Next]_vars /\ Fairness

----------------------------------------------------------------------------
(* Properties.                                                               *)

\* A thread goes on only when its own call is complete: no LWIP_ASSERT("state!") of
\* do_connect, do_write and do_delconn fails, nor that of alloc_socket on the count
\* of waiting polls, nor that of do_delconn on a connect in progress.
NoAbort == ~aborted

\* A signal belongs to a call in progress: to a thread whose connect, write or close is
\* complete, or to a poll that was signalled.  One left behind would end the next call
\* of any thread at once.
NoStaleSignal ==
    (\E s \in DOMAIN sem : sem[s] > 0) =>
      \E t \in Threads :
        \/ pc[t] = "asleep" /\ conn[on[t]].current_msg # t
        \/ pc[t] \in PollPcs /\ signalled[t]

\* A poll does not sleep when one of its sockets is ready: what happens between the
\* first scan, the entry in the list and the second scan is not missed.
PollNotMissed ==
    \A t \in Threads :
      pc[t] = "sleep" /\ (\E c \in Conns : Ready(sock[c], poll[t].events)) => Sem(t) > 0

\* Every connect, write and close returns, whether the exchange answers, resets the
\* connection or, under a write, another thread closes the socket.
CallsReturn ==
    \A t \in Threads : pc[t] \in {"asleep", "woken", "free"} ~> pc[t] = "idle"
============================================================================
