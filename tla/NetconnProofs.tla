--------------------------- MODULE NetconnProofs ---------------------------
(* Proofs about module Netconn for an application that makes one waiting     *)
(* call at a time (Sharing = {}), for any number of threads and sockets: the *)
(* one semaphore of the port is enough then.                                 *)
(*                                                                           *)
(* The argument.  The semaphore is signalled for the one thread that waits,  *)
(* and is taken by no other, so that its count tells whether that thread's   *)
(* call is complete, or its poll was signalled.  A poll is counted in every  *)
(* socket it has scanned twice, and the sockets' events reach it from then   *)
(* on.                                                                       *)
EXTENDS Netconn, TLAPS

\* The types of the variables.
ConnRec == [pcb : {"new", "syn", "open", "gone"}, state : {"none", "connect", "write", "close"},
            current_msg : Threads \cup {NoThread}, sndbuf : Int, rem : Int]
SockRec == [valid : BOOLEAN, rcvevent : Nat, sendevent : BOOLEAN, errevent : BOOLEAN,
            select_waiting : Int]
PollRec == [timeout : {-1, 0, 1}, events : {"in", "out"}, todo : SUBSET Conns,
            res : {"none", "ready", "bad"}, waited : {"no", "yes", "timeout"}]
Pcs == {"idle", "asleep", "woken", "free", "scan", "link", "inc", "sleep", "dec", "drain"}

NetTyped ==
    /\ conn \in [Conns -> ConnRec] /\ sock \in [Conns -> SockRec]
    /\ sem \in [{sys_arch_netconn_sem_get(t) : t \in Threads} -> {0, 1}]
    /\ pc \in [Threads -> Pcs] /\ on \in [Threads -> Conns \cup {NoConn}]
    /\ op \in [Threads -> {"none", "connect", "write", "close"}]
    /\ poll \in [Threads -> PollRec]
    /\ scb \subseteq Threads /\ signalled \in [Threads -> BOOLEAN]

\* One thread waits, and next to a poll there is no other call.
Waiters ==
    /\ \A t, u \in Threads : t # u /\ pc[t] \in PollPcs => pc[u] = "idle"
    /\ \A t, u \in Threads : t # u /\ pc[t] \in {"asleep", "woken"} => pc[u] \in {"idle", "free"}
    /\ \A t \in Threads :
         pc[t] \in {"asleep", "woken", "free"} => on[t] \in Conns /\ op[t] # "none"

\* The call in progress on a netconn is that of a thread that sleeps.
Owners ==
    \A c \in Conns :
      /\ conn[c].state = "none" <=> conn[c].current_msg = NoThread
      /\ conn[c].pcb = "gone" => conn[c].state = "none"
      /\ \A t \in Threads : conn[c].current_msg = t => pc[t] = "asleep" /\ on[t] = c

\* The call of the thread is complete, and the thread sleeps; its poll was signalled.
Complete(t)  == pc[t] = "asleep" /\ conn[on[t]].current_msg # t
Signalled(t) ==
    pc[t] \in {"inc", "sleep", "dec", "drain"} /\ signalled[t] /\ poll[t].waited # "yes"

\* The signal is for a call that is complete or a poll that was signalled.
Pending == \E s \in DOMAIN sem : sem[s] > 0
Signals == Pending => \E t \in Threads : Complete(t) \/ Signalled(t)

\* The entries of select_cb_list are those of the polls that may be signalled.
ListedAt(t) ==
    /\ t \in scb <=> pc[t] \in {"inc", "sleep", "dec"}
    /\ signalled[t] => pc[t] \in {"inc", "sleep", "dec", "drain"}
    /\ pc[t] \in {"scan", "link", "inc", "sleep"} => poll[t].waited = "no"
    /\ pc[t] \in {"inc", "sleep"} /\ signalled[t] => Sem(t) > 0
    /\ pc[t] = "sleep" => poll[t].todo = {} /\ poll[t].res = "none"
    /\ pc[t] = "dec" /\ poll[t].waited = "yes" => signalled[t]
    /\ pc[t] \in PollPcs /\ poll[t].res = "bad" => poll[t].todo = {}
Listed == \A t \in Threads : ListedAt(t)

\* select_waiting of a socket: the polls that have counted themselves in.
In(t, c) ==
    \/ pc[t] \in {"inc", "sleep"} /\ c \notin poll[t].todo
    \/ pc[t] = "dec" /\ c \in poll[t].todo
Counted ==
    \A c \in Conns :
      sock[c].select_waiting = IF \E t \in Threads : In(t, c) THEN 1 ELSE 0

\* A poll that waits has found all its sockets open.
ValidAt(t, c) ==
    /\ pc[t] = "scan" /\ poll[t].res # "bad" /\ c \notin poll[t].todo => sock[c].valid
    /\ pc[t] \in {"link", "inc", "sleep", "dec"} => sock[c].valid
Valid == \A t \in Threads, c \in Conns : ValidAt(t, c)

\* An event of a socket scanned twice is known to the poll.
KnownAt(t, c) ==
    /\ pc[t] \in {"inc", "sleep"} /\ poll[t].res = "none" /\ c \notin poll[t].todo
    /\ Ready(sock[c], poll[t].events)
    => signalled[t]
Known == \A t \in Threads, c \in Conns : KnownAt(t, c)

NetInv ==
    /\ NetTyped /\ Waiters /\ Owners /\ Signals /\ Listed /\ Counted /\ Valid /\ Known
    /\ ~aborted

LEMMA NetInit == Init => NetInv
<1> SUFFICES ASSUME Init PROVE NetInv
  OBVIOUS
<1>1. NewConn \in ConnRec /\ NewSock(0) \in SockRec /\ NoPoll \in PollRec
  BY NetconnAssumption DEF NewConn, NewSock, NoPoll, ConnRec, SockRec, PollRec
<1>2. NetTyped
  BY <1>1 DEF Init, NetTyped, Pcs
<1>3. \A t \in Threads : pc[t] = "idle" /\ t \notin scb /\ ~signalled[t]
  BY DEF Init
<1>4. \A c \in Conns : /\ conn[c].state = "none" /\ conn[c].current_msg = NoThread
                       /\ conn[c].pcb = "new" /\ sock[c].select_waiting = 0
  BY DEF Init, NewConn, NewSock
<1>5. Waiters /\ Owners
  BY <1>3, <1>4, NamesAssumption DEF Waiters, Owners, PollPcs
<1>6. Signals
  BY DEF Init, Signals, Pending
<1>7. Listed
  BY <1>3 DEF Listed, ListedAt, PollPcs
<1>8. Counted
  BY <1>3, <1>4 DEF Counted, In
<1>9. Valid /\ Known /\ ~aborted
  BY <1>3 DEF Valid, ValidAt, Known, KnownAt, Init
<1> QED
  BY <1>2, <1>5, <1>6, <1>7, <1>8, <1>9 DEF NetInv

----------------------------------------------------------------------------
(* What an event of a socket does to the polls and to the semaphore.         *)

Told(owner) ==
    /\ sock' \in [Conns -> SockRec]
    /\ sem' \in [{sys_arch_netconn_sem_get(t) : t \in Threads} -> {0, 1}]
    /\ signalled' \in [Threads -> BOOLEAN]
    /\ \A d \in Conns : /\ sock'[d].select_waiting = sock[d].select_waiting
                        /\ sock'[d].valid = sock[d].valid
    /\ \A t \in Threads : signalled[t] => signalled'[t]
    /\ \A t \in Threads : signalled'[t] => signalled[t] \/ (t \in scb /\ Sem(t)' > 0)
    /\ \A t \in Threads : Sem(t) > 0 => Sem(t)' > 0
    /\ Pending' => \/ Pending
                   \/ \E t \in Threads : ~signalled[t] /\ signalled'[t]
                   \/ owner \ {NoThread} # {}
    /\ \A t \in scb, d \in Conns :
         sock[d].select_waiting > 0 /\ Ready(sock'[d], poll[t].events) =>
           Ready(sock[d], poll[t].events) \/ signalled'[t]

LEMMA EventTells ==
    ASSUME NetInv, NEW c \in Conns, NEW s \in SockRec, NEW check \in BOOLEAN,
           NEW owner \in SUBSET (Threads \cup {NoThread}), Event(c, s, check, owner),
           s.select_waiting = sock[c].select_waiting, s.valid = sock[c].valid,
           \A e \in {"in", "out"} : Ready(s, e) => check \/ Ready(sock[c], e)
    PROVE  Told(owner)
<1> USE DEF NetInv, NetTyped
<1> DEFINE woken == IF s.select_waiting > 0 /\ check THEN select_check_waiters(s) ELSE {}
           g == "global_netconn_sem"
<1>1. /\ sock' = [sock EXCEPT ![c] = s]
      /\ signalled' = [t \in Threads |-> signalled[t] \/ t \in woken]
      /\ Signal(woken \cup (owner \ {NoThread}))
  BY DEF Event
<1>2. woken \subseteq scb /\ \A t \in woken : ~signalled[t]
  BY DEF select_check_waiters
<1>3. \A t \in scb : s.select_waiting > 0 /\ check /\ Ready(s, poll[t].events) =>
        t \in woken \/ signalled[t]
  BY DEF select_check_waiters
<1> HIDE DEF woken
<1>4. sock' \in [Conns -> SockRec]
  BY <1>1
<1>5. \A d \in Conns : IF d = c THEN sock'[d] = s ELSE sock'[d] = sock[d]
  BY <1>1
<1>6. signalled' \in [Threads -> BOOLEAN] /\ \A t \in Threads : signalled'[t] <=> signalled[t] \/ t \in woken
  BY <1>1, Zenon
<1>7. /\ sem \in [{g : t \in Threads} -> {0, 1}]
      /\ sem' = [x \in DOMAIN sem |-> IF \E t \in woken \cup (owner \ {NoThread}) : g = x
                                      THEN 1 ELSE sem[x]]
  <2>1. sem \in [{g : t \in Threads} -> {0, 1}]
    BY DEF sys_arch_netconn_sem_get
  <2>2. \A x \in DOMAIN sem : sys_sem_signal(sem[x]) = 1
    BY <2>1 DEF sys_sem_signal
  <2> QED
    BY <2>1, <2>2, <1>1 DEF Signal, sys_arch_netconn_sem_get
<1>8. sem' \in [{g : t \in Threads} -> {0, 1}]
  BY <1>7
<1>9. \A t \in Threads : g \in DOMAIN sem /\ Sem(t) = sem[g] /\ Sem(t)' = sem'[g]
  BY <1>7, <1>8 DEF Sem, sys_arch_netconn_sem_get
<1>10. \A t \in Threads : (Sem(t) > 0 => Sem(t)' > 0) /\ (t \in woken => Sem(t)' > 0)
  <2> SUFFICES ASSUME NEW t \in Threads
               PROVE  (sem[g] > 0 => sem'[g] > 0) /\ (t \in woken => sem'[g] > 0)
    BY <1>9
  <2>1. g \in DOMAIN sem
    BY <1>9
  <2> HIDE DEF g
  <2> QED
    BY <2>1, <1>7
<1>11. \A t \in Threads : signalled'[t] => signalled[t] \/ (t \in scb /\ Sem(t)' > 0)
  BY <1>2, <1>6, <1>10
<1>12. Pending' => \/ Pending
                   \/ \E t \in Threads : ~signalled[t] /\ signalled'[t]
                   \/ owner \ {NoThread} # {}
  <2> SUFFICES ASSUME Pending', ~Pending, owner \ {NoThread} = {}
               PROVE  \E t \in Threads : ~signalled[t] /\ signalled'[t]
    OBVIOUS
  <2>1. PICK x \in DOMAIN sem : sem'[x] > 0 /\ ~(sem[x] > 0)
    BY <1>7 DEF Pending
  <2>2. PICK t \in woken : TRUE
    BY <2>1, <1>7
  <2> QED
    BY <2>2, <1>2, <1>6
<1>13. \A t \in scb, d \in Conns :
         sock[d].select_waiting > 0 /\ Ready(sock'[d], poll[t].events) =>
           Ready(sock[d], poll[t].events) \/ signalled'[t]
  <2> SUFFICES ASSUME NEW t \in scb, NEW d \in Conns, sock[d].select_waiting > 0,
                      Ready(sock'[d], poll[t].events)
               PROVE  Ready(sock[d], poll[t].events) \/ signalled'[t]
    OBVIOUS
  <2>1. poll[t].events \in {"in", "out"} /\ t \in Threads
    BY DEF PollRec
  <2>2. CASE d = c
    <3>1. Ready(s, poll[t].events) /\ s.select_waiting > 0
      BY <2>2, <1>5
    <3>2. check \/ Ready(sock[c], poll[t].events)
      BY <2>1, <3>1
    <3> QED
      BY <2>1, <2>2, <3>1, <3>2, <1>3, <1>6
  <2>3. CASE d # c
    BY <2>3, <1>5
  <2> QED
    BY <2>2, <2>3
<1>14. \A d \in Conns : /\ sock'[d].select_waiting = sock[d].select_waiting
                        /\ sock'[d].valid = sock[d].valid
  BY <1>5
<1>15. sem' \in [{sys_arch_netconn_sem_get(t) : t \in Threads} -> {0, 1}]
  BY <1>8 DEF sys_arch_netconn_sem_get
<1> QED
  BY <1>4, <1>6, <1>10, <1>11, <1>12, <1>13, <1>14, <1>15 DEF Told

\* The call of a thread goes on in the stack: what the thread and the polls
\* themselves do not do.
LEMMA StackKeeps ==
    ASSUME NetInv, UNCHANGED calls, NEW owner \in SUBSET (Threads \cup {NoThread}),
           Told(owner), conn' \in [Conns -> ConnRec], Owners',
           \A t \in owner \ {NoThread} : Complete(t)',
           \A t \in Threads : Complete(t) => Complete(t)'
    PROVE  NetInv'
<1> USE DEF NetInv
<1>1. UNCHANGED <<pc, on, op, poll, scb, aborted>>
  BY DEF calls
<1>2. NetTyped' /\ Waiters' /\ ~aborted'
  BY <1>1 DEF NetTyped, Waiters, Told
<1>3. Signals'
  <2> SUFFICES ASSUME Pending' PROVE \E t \in Threads : Complete(t)' \/ Signalled(t)'
    BY DEF Signals
  <2>1. CASE Pending
    <3>1. PICK t \in Threads : Complete(t) \/ Signalled(t)
      BY <2>1 DEF Signals
    <3>2. Signalled(t) => Signalled(t)'
      BY <1>1 DEF Signalled, Told
    <3> QED
      BY <3>1, <3>2
  <2>2. CASE \E t \in Threads : ~signalled[t] /\ signalled'[t]
    <3>1. PICK t \in Threads : ~signalled[t] /\ signalled'[t]
      BY <2>2
    <3>2. t \in scb /\ ListedAt(t)
      BY <3>1 DEF Told, Listed
    <3> QED
      BY <3>1, <3>2, <1>1 DEF Signalled, ListedAt, PollPcs
  <2>3. CASE owner \ {NoThread} # {}
    BY <2>3
  <2> QED
    BY <2>1, <2>2, <2>3 DEF Told
<1>4. Listed'
  <2> SUFFICES ASSUME NEW t \in Threads PROVE ListedAt(t)'
    BY DEF Listed
  <2>1. ListedAt(t)
    BY DEF Listed
  <2> QED
    BY <2>1, <1>1 DEF ListedAt, PollPcs, Told
<1>5. Counted'
  BY <1>1 DEF Counted, In, Told
<1>6. Valid'
  BY <1>1 DEF Valid, ValidAt, Told
<1>7. Known'
  <2> SUFFICES ASSUME NEW t \in Threads, NEW c \in Conns PROVE KnownAt(t, c)'
    BY DEF Known
  <2>1. ListedAt(t) /\ KnownAt(t, c)
    BY DEF Listed, Known
  <2>2. In(t, c) => sock[c].select_waiting > 0
    BY DEF Counted
  <2> QED
    BY <2>1, <2>2, <1>1 DEF ListedAt, PollPcs, KnownAt, In, Told
<1> QED
  BY <1>2, <1>3, <1>4, <1>5, <1>6, <1>7

----------------------------------------------------------------------------
(* The callbacks of the stack.                                               *)

\* What is done to a socket, and when its waiters have to be told.
LEMMA SockEvents ==
    ASSUME NEW s \in SockRec
    PROVE  /\ Gone(s) \in SockRec /\ SendPlus(s) \in SockRec /\ SendMinus(s) \in SockRec
           /\ Gone(s).select_waiting = s.select_waiting /\ Gone(s).valid = s.valid
           /\ SendPlus(s).select_waiting = s.select_waiting /\ SendPlus(s).valid = s.valid
           /\ SendMinus(s).select_waiting = s.select_waiting /\ SendMinus(s).valid = s.valid
           /\ \A e \in {"in", "out"} : Ready(SendPlus(s), e) => ~s.sendevent \/ Ready(s, e)
           /\ \A e \in {"in", "out"} : Ready(SendMinus(s), e) => Ready(s, e)
<1>1. Gone(s) \in SockRec
  <2> DEFINE a == [s EXCEPT !.errevent = TRUE]
             b == [a EXCEPT !.rcvevent = @ + 1]
  <2>1. Gone(s) = [b EXCEPT !.sendevent = TRUE]
    BY DEF Gone
  <2>2. a \in SockRec
    BY DEF SockRec
  <2> HIDE DEF a
  <2>3. b \in SockRec
    BY <2>2 DEF SockRec
  <2> HIDE DEF b
  <2>4. [b EXCEPT !.sendevent = TRUE] \in SockRec
    BY <2>3 DEF SockRec
  <2> QED
    BY <2>1, <2>4
<1>2. Gone(s).select_waiting = s.select_waiting /\ Gone(s).valid = s.valid
  BY DEF SockRec, Gone
<1>3. SendPlus(s) \in SockRec
  BY DEF SockRec, SendPlus
<1>4. /\ SendPlus(s).select_waiting = s.select_waiting /\ SendPlus(s).valid = s.valid
      /\ SendPlus(s).rcvevent = s.rcvevent /\ (SendPlus(s).errevent <=> s.errevent)
  BY DEF SockRec, SendPlus
<1>5. SendMinus(s) \in SockRec
  BY DEF SockRec, SendMinus
<1>6. /\ SendMinus(s).select_waiting = s.select_waiting /\ SendMinus(s).valid = s.valid
      /\ SendMinus(s).rcvevent = s.rcvevent /\ (SendMinus(s).errevent <=> s.errevent)
      /\ ~SendMinus(s).sendevent
  BY DEF SockRec, SendMinus
<1> QED
  BY <1>1, <1>2, <1>3, <1>4, <1>5, <1>6 DEF Ready

\* The socket that is freed, and the one whose polls are counted.
Freed(s)        == [s EXCEPT !.valid = FALSE]
CountedBy(s, n) == [s EXCEPT !.select_waiting = @ + n]

LEMMA SockCounts ==
    ASSUME NEW s \in SockRec, NEW n \in Int
    PROVE  /\ Freed(s) \in SockRec /\ Freed(s).select_waiting = s.select_waiting
           /\ CountedBy(s, n) \in SockRec /\ CountedBy(s, n).valid = s.valid
           /\ CountedBy(s, n).select_waiting = s.select_waiting + n
           /\ \A e : Ready(CountedBy(s, n), e) <=> Ready(s, e)
<1>1. Freed(s) \in SockRec /\ Freed(s).select_waiting = s.select_waiting
  BY DEF Freed, SockRec
<1>2. CountedBy(s, n) \in SockRec
  BY DEF CountedBy, SockRec
<1>3. /\ CountedBy(s, n).select_waiting = s.select_waiting + n /\ CountedBy(s, n).valid = s.valid
      /\ CountedBy(s, n).rcvevent = s.rcvevent /\ (CountedBy(s, n).sendevent <=> s.sendevent)
      /\ CountedBy(s, n).errevent <=> s.errevent
  BY DEF CountedBy, SockRec
<1> QED
  BY <1>1, <1>2, <1>3 DEF Ready

\* A netconn with a new call, or without.
WithCall(cn, p, st, m) == [cn EXCEPT !.pcb = p, !.state = st, !.current_msg = m]

LEMMA SetCall ==
    ASSUME NEW cn \in ConnRec, NEW p \in {"new", "syn", "open", "gone"},
           NEW st \in {"none", "connect", "write", "close"},
           NEW m \in Threads \cup {NoThread}
    PROVE  /\ WithCall(cn, p, st, m) \in ConnRec /\ WithCall(cn, p, st, m).pcb = p
           /\ WithCall(cn, p, st, m).state = st /\ WithCall(cn, p, st, m).current_msg = m
<1> DEFINE a == [cn EXCEPT !.pcb = p]
           b == [a EXCEPT !.state = st]
           d == [b EXCEPT !.current_msg = m]
           w == WithCall(cn, p, st, m)
<1>1. w = d /\ w.pcb = p /\ w.state = st /\ w.current_msg = m
  BY DEF ConnRec, WithCall
<1>2. a \in ConnRec
  BY DEF ConnRec
<1> HIDE DEF a
<1>3. b \in ConnRec
  BY <1>2 DEF ConnRec
<1> HIDE DEF b
<1>4. d \in ConnRec
  BY <1>3 DEF ConnRec
<1> QED
  BY <1>1, <1>4

\* A call that is over.
LEMMA CallOver ==
    ASSUME NetInv, UNCHANGED calls, NEW c \in Conns, NEW cn \in ConnRec,
           cn.state = "none", cn.current_msg = NoThread, conn' = [conn EXCEPT ![c] = cn]
    PROVE  /\ conn' \in [Conns -> ConnRec] /\ Owners'
           /\ \A t \in {conn[c].current_msg} \ {NoThread} : Complete(t)'
           /\ \A t \in Threads : Complete(t) => Complete(t)'
           /\ {conn[c].current_msg} \in SUBSET (Threads \cup {NoThread})
<1> USE DEF NetInv, NetTyped
<1>1. UNCHANGED <<pc, on, op, poll, scb, aborted>>
  BY DEF calls
<1>2. conn' \in [Conns -> ConnRec]
  OBVIOUS
<1>3. \A d \in Conns : IF d = c THEN conn'[d] = cn ELSE conn'[d] = conn[d]
  OBVIOUS
<1>4. Owners'
  BY <1>1, <1>3, NamesAssumption DEF Owners
<1>5. {conn[c].current_msg} \in SUBSET (Threads \cup {NoThread})
  BY DEF ConnRec
<1>6. ASSUME NEW t \in {conn[c].current_msg} \ {NoThread} PROVE Complete(t)'
  <2>1. t \in Threads /\ pc[t] = "asleep" /\ on[t] = c
    BY <1>5 DEF Owners
  <2> QED
    BY <2>1, <1>1, <1>3, NamesAssumption DEF Complete
<1>7. ASSUME NEW t \in Threads, Complete(t) PROVE Complete(t)'
  <2>1. on[t] \in Conns
    BY <1>7 DEF Complete, Waiters
  <2> QED
    BY <2>1, <1>1, <1>3, <1>7, NamesAssumption DEF Complete
<1> QED
  BY <1>2, <1>4, <1>5, <1>6, <1>7

\* do_writemore() completes the call or leaves it to the thread that made it.
LEMMA Writemore ==
    ASSUME NEW cn \in ConnRec
    PROVE  LET w == do_writemore(cn)
           IN  /\ w \in ConnRec /\ w.pcb = cn.pcb
               /\ \/ w.state = "none" /\ w.current_msg = NoThread
                  \/ w.state = cn.state /\ w.current_msg = cn.current_msg
<1> DEFINE n == IF cn.rem > cn.sndbuf THEN cn.sndbuf ELSE cn.rem
<1>1. /\ cn = [pcb |-> cn.pcb, state |-> cn.state, current_msg |-> cn.current_msg,
               sndbuf |-> cn.sndbuf, rem |-> cn.rem]
      /\ cn.sndbuf - n \in Int /\ cn.rem - n \in Int
  BY DEF ConnRec
<1>2. cn.rem = n => do_writemore(cn) = [pcb |-> cn.pcb, state |-> "none",
                      current_msg |-> NoThread, sndbuf |-> cn.sndbuf - n, rem |-> 0]
  BY <1>1 DEF do_writemore
<1>3. cn.rem # n => do_writemore(cn) = [pcb |-> cn.pcb, state |-> cn.state,
                      current_msg |-> cn.current_msg, sndbuf |-> cn.sndbuf - n,
                      rem |-> cn.rem - n]
  BY <1>1 DEF do_writemore
<1> HIDE DEF n
<1> QED
  BY <1>1, <1>2, <1>3 DEF ConnRec

\* Closed() completes the call.
LEMMA ClosedConn ==
    ASSUME NEW cn \in ConnRec
    PROVE  /\ Closed(cn) \in ConnRec
           /\ Closed(cn).state = "none" /\ Closed(cn).current_msg = NoThread
<1> DEFINE a == WithCall(cn, "gone", "none", NoThread)
<1>1. Closed(cn) = [a EXCEPT !.rem = 0]
  BY DEF Closed, WithCall
<1>2. a \in ConnRec /\ a.state = "none" /\ a.current_msg = NoThread
  BY SetCall
<1> HIDE DEF a
<1>3. [a EXCEPT !.rem = 0] \in ConnRec
  BY <1>2 DEF ConnRec
<1>4. [a EXCEPT !.rem = 0].state = "none" /\ [a EXCEPT !.rem = 0].current_msg = NoThread
  BY <1>2 DEF ConnRec
<1> QED
  BY <1>1, <1>3, <1>4

LEMMA StackConnected ==
    ASSUME NetInv, NEW c \in Conns, do_connected(c) \/ err_tcp(c) \/ close_internal(c)
    PROVE  NetInv'
<1> USE DEF NetInv, NetTyped
<1> DEFINE s1 == SendPlus(sock[c])
           s2 == Gone(sock[c])
           owner == {conn[c].current_msg}
<1>1. PICK cn \in ConnRec : /\ cn.state = "none" /\ cn.current_msg = NoThread
                            /\ conn' = [conn EXCEPT ![c] = cn]
  <2>1. CASE do_connected(c)
    <3> DEFINE cn == WithCall(conn[c], "open", "none", NoThread)
    <3>3. cn \in ConnRec /\ cn.state = "none" /\ cn.current_msg = NoThread
      BY SetCall
    <3>4. conn' = [conn EXCEPT ![c] = cn]
      BY <2>1 DEF do_connected, WithCall
    <3> QED
      BY <3>3, <3>4
  <2>2. CASE err_tcp(c) \/ close_internal(c)
    <3>1. conn' = [conn EXCEPT ![c] = Closed(conn[c])]
      BY <2>2 DEF err_tcp, close_internal
    <3> QED
      BY <3>1, ClosedConn
  <2> QED
    BY <2>1, <2>2
<1>2. UNCHANGED calls
  BY DEF do_connected, err_tcp, close_internal
<1>3. Event(c, s1, ~sock[c].sendevent, owner) \/ Event(c, s2, TRUE, owner)
  BY DEF do_connected, err_tcp, close_internal
<1>4. /\ conn' \in [Conns -> ConnRec] /\ Owners'
      /\ \A t \in owner \ {NoThread} : Complete(t)'
      /\ \A t \in Threads : Complete(t) => Complete(t)'
      /\ owner \in SUBSET (Threads \cup {NoThread})
  BY <1>1, <1>2, CallOver
<1>5. sock[c] \in SockRec /\ (~sock[c].sendevent) \in BOOLEAN
  BY DEF SockRec
<1>6. Told(owner)
  <2>1. /\ s1 \in SockRec /\ s1.select_waiting = sock[c].select_waiting /\ s1.valid = sock[c].valid
        /\ s2 \in SockRec /\ s2.select_waiting = sock[c].select_waiting /\ s2.valid = sock[c].valid
        /\ \A e \in {"in", "out"} : Ready(s1, e) => ~sock[c].sendevent \/ Ready(sock[c], e)
    BY <1>5, SockEvents
  <2> HIDE DEF s1, s2, owner
  <2>2. CASE Event(c, s1, ~sock[c].sendevent, owner)
    BY <2>1, <2>2, <1>4, <1>5, EventTells, Zenon
  <2>3. CASE Event(c, s2, TRUE, owner)
    BY <2>1, <2>3, <1>4, EventTells, Zenon
  <2> QED
    BY <2>2, <2>3, <1>3
<1> HIDE DEF owner
<1> QED
  BY <1>2, <1>4, <1>6, StackKeeps

LEMMA StackRecv ==
    ASSUME NetInv, NEW c \in Conns, recv_tcp(c)
    PROVE  NetInv'
<1> USE DEF NetInv, NetTyped
<1> DEFINE s == [sock[c] EXCEPT !.rcvevent = @ + 1]
<1>1. UNCHANGED calls /\ conn' = conn /\ Event(c, s, sock[c].rcvevent = 0, {})
  BY DEF recv_tcp
<1>2. /\ s \in SockRec /\ s.select_waiting = sock[c].select_waiting /\ s.valid = sock[c].valid
      /\ (sock[c].rcvevent = 0) \in BOOLEAN
      /\ \A e \in {"in", "out"} : Ready(s, e) => sock[c].rcvevent = 0 \/ Ready(sock[c], e)
  BY DEF SockRec, Ready
<1> HIDE DEF s
<1>3. Told({})
  BY <1>1, <1>2, EventTells
<1>4. Owners' /\ \A t \in Threads : Complete(t) => Complete(t)'
  BY <1>1 DEF Owners, Complete, calls
<1> QED
  BY <1>1, <1>3, <1>4, StackKeeps

LEMMA StackRecvData ==
    ASSUME NetInv, NEW c \in Conns, recv_data(c)
    PROVE  NetInv'
<1> USE DEF NetInv, NetTyped
<1>1. /\ UNCHANGED calls /\ UNCHANGED <<conn, sem, signalled>>
      /\ sock' = [sock EXCEPT ![c].rcvevent = @ - 1] /\ sock[c].rcvevent > 0
  BY DEF recv_data
<1>2. sock' \in [Conns -> SockRec]
  BY <1>1 DEF SockRec
<1>3. \A d \in Conns : /\ sock'[d].select_waiting = sock[d].select_waiting
                       /\ sock'[d].valid = sock[d].valid
                       /\ \A e : Ready(sock'[d], e) => Ready(sock[d], e)
  BY <1>1 DEF SockRec, Ready
<1>4. Told({})
  BY <1>1, <1>2, <1>3 DEF Told, Pending, Sem, calls
<1>5. Owners' /\ \A t \in Threads : Complete(t) => Complete(t)'
  BY <1>1 DEF Owners, Complete, calls
<1> QED
  BY <1>1, <1>4, <1>5, StackKeeps

\* sent_tcp(): a blocked write ends here, or goes on waiting.
LEMMA StackSent ==
    ASSUME NetInv, NEW c \in Conns, sent_tcp(c)
    PROVE  NetInv'
<1> USE DEF NetInv, NetTyped
<1>1. PICK n \in 1..(TCP_SND_BUF - conn[c].sndbuf) :
         LET freed == [conn[c] EXCEPT !.sndbuf = @ + n]
             cn    == IF freed.state = "write" THEN do_writemore(freed) ELSE freed
             owner == IF cn.state # conn[c].state THEN {conn[c].current_msg} ELSE {}
         IN  /\ conn' = [conn EXCEPT ![c] = cn]
             /\ IF Writable(cn)
                THEN Event(c, SendPlus(sock[c]), ~sock[c].sendevent, owner)
                ELSE Event(c, IF freed.state = "write" THEN SendMinus(sock[c]) ELSE sock[c],
                           FALSE, owner)
  BY DEF sent_tcp
<1> DEFINE freed == [conn[c] EXCEPT !.sndbuf = @ + n]
           cn    == IF freed.state = "write" THEN do_writemore(freed) ELSE freed
           owner == IF cn.state # conn[c].state THEN {conn[c].current_msg} ELSE {}
           s1    == SendPlus(sock[c])
           s2    == SendMinus(sock[c])
<1>2. /\ conn' = [conn EXCEPT ![c] = cn] /\ UNCHANGED calls
      /\ \/ Event(c, s1, ~sock[c].sendevent, owner)
         \/ Event(c, s2, FALSE, owner)
         \/ Event(c, sock[c], FALSE, owner)
  BY <1>1 DEF sent_tcp
<1>3. /\ freed \in ConnRec /\ freed.pcb = conn[c].pcb /\ freed.state = conn[c].state
      /\ freed.current_msg = conn[c].current_msg /\ conn[c] \in ConnRec
  <2>1. /\ conn[c] = [pcb |-> conn[c].pcb, state |-> conn[c].state,
                      current_msg |-> conn[c].current_msg,
                      sndbuf |-> conn[c].sndbuf, rem |-> conn[c].rem]
        /\ conn[c].sndbuf \in Int
    BY DEF ConnRec
  <2>2. freed = [pcb |-> conn[c].pcb, state |-> conn[c].state,
                 current_msg |-> conn[c].current_msg,
                 sndbuf |-> conn[c].sndbuf + n, rem |-> conn[c].rem]
    BY <2>1
  <2> QED
    BY <2>1, <2>2 DEF ConnRec
<1> HIDE DEF freed
<1>4. /\ cn \in ConnRec /\ cn.pcb = conn[c].pcb
      /\ \/ cn.state = "none" /\ cn.current_msg = NoThread
         \/ cn.state = conn[c].state /\ cn.current_msg = conn[c].current_msg
  BY <1>3, Writemore
<1> HIDE DEF cn
<1>5. /\ conn' \in [Conns -> ConnRec] /\ Owners'
      /\ \A t \in owner \ {NoThread} : Complete(t)'
      /\ \A t \in Threads : Complete(t) => Complete(t)'
      /\ owner \in SUBSET (Threads \cup {NoThread})
  <2>1. CASE cn.state = "none" /\ cn.current_msg = NoThread
    <3>1. owner \subseteq {conn[c].current_msg}
      OBVIOUS
    <3>2. /\ conn' \in [Conns -> ConnRec] /\ Owners'
          /\ \A t \in {conn[c].current_msg} \ {NoThread} : Complete(t)'
          /\ \A t \in Threads : Complete(t) => Complete(t)'
          /\ {conn[c].current_msg} \in SUBSET (Threads \cup {NoThread})
      BY <2>1, <1>2, <1>4, CallOver
    <3> HIDE DEF owner
    <3> QED
      BY <3>1, <3>2
  <2>2. CASE cn.state = conn[c].state /\ cn.current_msg = conn[c].current_msg
    <3>1. owner = {}
      BY <2>2
    <3>2. conn' \in [Conns -> ConnRec] /\ UNCHANGED <<pc, on>>
      BY <1>2, <1>4 DEF calls
    <3>3. \A d \in Conns : /\ conn'[d].state = conn[d].state /\ conn'[d].pcb = conn[d].pcb
                           /\ conn'[d].current_msg = conn[d].current_msg
      BY <2>2, <1>2, <1>4
    <3>4. Owners'
      BY <3>2, <3>3 DEF Owners
    <3>5. \A t \in Threads : Complete(t) => Complete(t)'
      BY <3>2, <3>3 DEF Complete, Waiters
    <3> QED
      BY <3>1, <3>2, <3>4, <3>5
  <2> QED
    BY <2>1, <2>2, <1>4
<1>6. sock[c] \in SockRec /\ (~sock[c].sendevent) \in BOOLEAN
  BY DEF SockRec
<1>7. Told(owner)
  <2>1. /\ s1 \in SockRec /\ s1.select_waiting = sock[c].select_waiting /\ s1.valid = sock[c].valid
        /\ s2 \in SockRec /\ s2.select_waiting = sock[c].select_waiting /\ s2.valid = sock[c].valid
        /\ \A e \in {"in", "out"} : Ready(s1, e) => ~sock[c].sendevent \/ Ready(sock[c], e)
        /\ \A e \in {"in", "out"} : Ready(s2, e) => FALSE \/ Ready(sock[c], e)
    BY <1>6, SockEvents
  <2> HIDE DEF s1, s2, owner
  <2>2. CASE Event(c, s1, ~sock[c].sendevent, owner)
    BY <2>1, <2>2, <1>5, <1>6, EventTells, Zenon
  <2>3. CASE Event(c, s2, FALSE, owner)
    BY <2>1, <2>3, <1>5, EventTells, Zenon
  <2>4. CASE Event(c, sock[c], FALSE, owner)
    <3>1. \A e \in {"in", "out"} : Ready(sock[c], e) => FALSE \/ Ready(sock[c], e)
      OBVIOUS
    <3> QED
      BY <2>4, <3>1, <1>5, <1>6, EventTells, Zenon
  <2> QED
    BY <2>2, <2>3, <2>4, <1>2
<1> HIDE DEF owner
<1> QED
  BY <1>2, <1>5, <1>7, StackKeeps

----------------------------------------------------------------------------
(* connect(), write() and close(): no poll is in progress.                   *)

LEMMA QuietKeeps ==
    ASSUME NetInv, UNCHANGED <<poll, scb>>,
           \A t \in Threads : pc[t] \notin PollPcs, \A t \in Threads : pc'[t] \notin PollPcs,
           sock' \in [Conns -> SockRec], signalled' \in [Threads -> BOOLEAN],
           \A c \in Conns : sock'[c].select_waiting = sock[c].select_waiting,
           \A t \in Threads : signalled'[t] => signalled[t] \/ t \in scb
    PROVE  Listed' /\ Counted' /\ Valid' /\ Known'
<1> USE DEF NetInv, NetTyped, PollPcs
<1>1. \A t \in Threads : t \notin scb /\ ~signalled[t]
  BY DEF Listed, ListedAt, PollPcs
<1>2. Listed'
  BY <1>1 DEF Listed, ListedAt, PollPcs
<1>3. Counted'
  BY DEF Counted, In
<1>4. Valid' /\ Known'
  BY DEF Valid, ValidAt, Known, KnownAt
<1> QED
  BY <1>2, <1>3, <1>4

\* A thread that waits or frees a socket is not next to a poll.
LEMMA NoPollNextTo ==
    ASSUME NetInv, NEW t \in Threads, pc[t] \in {"asleep", "woken", "free"}
    PROVE  \A u \in Threads : pc[u] \notin PollPcs
<1> SUFFICES ASSUME NEW u \in Threads, pc[u] \in PollPcs PROVE FALSE
  OBVIOUS
<1>1. u # t
  BY DEF PollPcs
<1> QED
  BY <1>1 DEF NetInv, Waiters

LEMMA AtMoves ==
    ASSUME NetInv, NEW t \in Threads, NEW where \in Pcs, NEW c \in Conns \cup {NoConn},
           NEW what \in {"none", "connect", "write", "close"}, At(t, where, c, what)
    PROVE  /\ pc' \in [Threads -> Pcs] /\ on' \in [Threads -> Conns \cup {NoConn}]
           /\ op' \in [Threads -> {"none", "connect", "write", "close"}]
           /\ pc'[t] = where /\ (where # "idle" => on'[t] = c /\ op'[t] = what)
           /\ \A u \in Threads \ {t} : pc'[u] = pc[u] /\ on'[u] = on[u] /\ op'[u] = op[u]
BY DEF NetInv, NetTyped, At

LEMMA StepConnect ==
    ASSUME NetInv, Sharing = {}, NEW t \in Threads, NEW c \in Conns, Connect(t, c)
    PROVE  NetInv'
<1> USE DEF NetInv, NetTyped
<1>1. /\ ~aborted /\ pc[t] = "idle" /\ \A u \in Threads \ {t} : pc[u] = "idle"
      /\ At(t, "asleep", c, "connect") /\ UNCHANGED <<sock, sem, poll, scb, signalled, aborted>>
      /\ conn' = [conn EXCEPT ![c] = WithCall(conn[c], "syn", "connect", t)]
  BY DEF Connect, MayCall, Alone, WithCall
<1>2. /\ pc' \in [Threads -> Pcs] /\ on' \in [Threads -> Conns \cup {NoConn}]
      /\ op' \in [Threads -> {"none", "connect", "write", "close"}]
      /\ pc'[t] = "asleep" /\ on'[t] = c /\ op'[t] # "none"
      /\ \A u \in Threads \ {t} : pc'[u] = pc[u] /\ on'[u] = on[u] /\ op'[u] = op[u]
  BY <1>1, AtMoves DEF Pcs
<1> DEFINE w == WithCall(conn[c], "syn", "connect", t)
<1>3. w \in ConnRec /\ w.pcb = "syn" /\ w.state = "connect" /\ w.current_msg = t
  BY SetCall
<1> HIDE DEF w
<1>4. conn' \in [Conns -> ConnRec] /\ \A d \in Conns : conn'[d] = IF d = c THEN w ELSE conn[d]
  BY <1>1, <1>3 DEF w
<1>5. NetTyped'
  BY <1>1, <1>2, <1>4
<1>6. Waiters'
  BY <1>1, <1>2 DEF Waiters, PollPcs
<1>7. \A d \in Conns : conn[d].current_msg = NoThread
  BY <1>1 DEF Owners, ConnRec
<1>8. Owners'
  BY <1>1, <1>2, <1>3, <1>4, <1>7, NamesAssumption DEF Owners
<1>9. ~Pending
  BY <1>1 DEF Signals, Complete, Signalled
<1>10. Signals'
  BY <1>1, <1>9 DEF Signals, Pending
<1>11. Listed' /\ Counted' /\ Valid' /\ Known'
  <2>1. (\A u \in Threads : pc[u] \notin PollPcs) /\ (\A u \in Threads : pc'[u] \notin PollPcs)
    BY <1>1, <1>2 DEF PollPcs
  <2> QED
    BY <2>1, <1>1, QuietKeeps
<1> QED
  BY <1>1, <1>5, <1>6, <1>8, <1>10, <1>11

LEMMA StepWrite ==
    ASSUME NetInv, Sharing = {}, NEW t \in Threads, NEW c \in Conns, Write(t, c)
    PROVE  NetInv'
<1> USE DEF NetInv, NetTyped
<1>1. PICK len \in WriteLens :
      LET cn == do_writemore([conn[c] EXCEPT !.state = "write", !.current_msg = t, !.rem = len])
      IN  /\ MayCall(t, c) /\ Alone(t)
          /\ conn[c].pcb = "open" /\ conn[c].state = "none" /\ ~Connecting(c)
          /\ \A u \in Threads : op[u] # "write"
          /\ conn' = [conn EXCEPT ![c] = cn]
          /\ sock' = [sock EXCEPT ![c] = IF Writable(cn) THEN @ ELSE SendMinus(@)]
          /\ At(t, IF cn.state = "none" THEN "idle" ELSE "asleep", c, "write")
          /\ UNCHANGED <<sem, poll, scb, signalled, aborted>>
  BY DEF Write
<1> DEFINE c0 == [conn[c] EXCEPT !.state = "write", !.current_msg = t, !.rem = len]
           cn == do_writemore(c0)
           where == IF cn.state = "none" THEN "idle" ELSE "asleep"
<1>2. /\ ~aborted /\ pc[t] = "idle" /\ \A u \in Threads \ {t} : pc[u] = "idle"
      /\ conn[c].pcb = "open" /\ conn' = [conn EXCEPT ![c] = cn]
      /\ sock' = sock \/ sock' = [sock EXCEPT ![c] = SendMinus(sock[c])]
      /\ At(t, where, c, "write") /\ UNCHANGED <<sem, poll, scb, signalled, aborted>>
  <2>1. sock' = [sock EXCEPT ![c] = IF Writable(cn) THEN sock[c] ELSE SendMinus(sock[c])]
    BY <1>1
  <2>2. sock = [sock EXCEPT ![c] = sock[c]]
    OBVIOUS
  <2> QED
    BY <2>1, <2>2, <1>1 DEF MayCall, Alone
<1>3. c0 \in ConnRec /\ c0.pcb = "open" /\ c0.state = "write" /\ c0.current_msg = t
  <2> DEFINE a == WithCall(conn[c], "open", "write", t)
  <2>1. a \in ConnRec /\ a.pcb = "open" /\ a.state = "write" /\ a.current_msg = t
    BY SetCall
  <2>2. c0 = [a EXCEPT !.rem = len]
    BY <1>2 DEF WithCall, ConnRec
  <2>3. len \in Int
    BY NetconnAssumption
  <2> HIDE DEF a, c0
  <2>4. [a EXCEPT !.rem = len] \in ConnRec
    BY <2>1, <2>3 DEF ConnRec
  <2>5. /\ [a EXCEPT !.rem = len].pcb = a.pcb /\ [a EXCEPT !.rem = len].state = a.state
        /\ [a EXCEPT !.rem = len].current_msg = a.current_msg
    BY <2>1 DEF ConnRec
  <2> QED
    BY <2>1, <2>2, <2>4, <2>5
<1> HIDE DEF c0
<1>4. /\ cn \in ConnRec /\ cn.pcb = "open"
      /\ \/ cn.state = "none" /\ cn.current_msg = NoThread
         \/ cn.state = "write" /\ cn.current_msg = t
  BY <1>3, Writemore
<1> HIDE DEF cn
<1>5. /\ pc' \in [Threads -> Pcs] /\ on' \in [Threads -> Conns \cup {NoConn}]
      /\ op' \in [Threads -> {"none", "connect", "write", "close"}]
      /\ pc'[t] = where /\ (where # "idle" => on'[t] = c /\ op'[t] # "none")
      /\ \A u \in Threads \ {t} : pc'[u] = pc[u] /\ on'[u] = on[u] /\ op'[u] = op[u]
  <2>1. where \in Pcs
    BY DEF Pcs
  <2> HIDE DEF where
  <2> QED
    BY <2>1, <1>2, AtMoves
<1>6. conn' \in [Conns -> ConnRec] /\ \A d \in Conns : conn'[d] = IF d = c THEN cn ELSE conn[d]
  BY <1>2, <1>4
<1>7. /\ sock' \in [Conns -> SockRec]
      /\ \A d \in Conns : sock'[d].select_waiting = sock[d].select_waiting
  <2>1. /\ SendMinus(sock[c]) \in SockRec
        /\ SendMinus(sock[c]).select_waiting = sock[c].select_waiting
    BY SockEvents
  <2> QED
    BY <2>1, <1>2
<1>8. NetTyped'
  BY <1>2, <1>5, <1>6, <1>7
<1>9. Waiters'
  BY <1>2, <1>5 DEF Waiters, PollPcs
<1>10. \A d \in Conns : conn[d].current_msg = NoThread
  BY <1>2 DEF Owners, ConnRec
<1>11. Owners'
  <2>1. cn.state = "write" => pc'[t] = "asleep" /\ on'[t] = c
    BY <1>5
  <2> QED
    BY <2>1, <1>4, <1>6, <1>10, NamesAssumption DEF Owners
<1>12. ~Pending
  BY <1>2 DEF Signals, Complete, Signalled
<1>13. Signals'
  BY <1>2, <1>12 DEF Signals, Pending
<1>14. Listed' /\ Counted' /\ Valid' /\ Known'
  <2>1. (\A u \in Threads : pc[u] \notin PollPcs) /\ (\A u \in Threads : pc'[u] \notin PollPcs)
    BY <1>2, <1>5 DEF PollPcs
  <2> QED
    BY <2>1, <1>2, <1>7, QuietKeeps
<1> QED
  BY <1>2, <1>8, <1>9, <1>11, <1>13, <1>14

\* close() of a socket, on which another thread may wait: that one's call is over.
LEMMA StepClose ==
    ASSUME NetInv, Sharing = {}, NEW t \in Threads, NEW c \in Conns, Close(t, c)
    PROVE  NetInv'
<1> USE DEF NetInv, NetTyped
<1> DEFINE owner == {conn[c].current_msg}
<1>1. /\ ~aborted /\ aborted' = aborted /\ pc[t] = "idle" /\ UNCHANGED <<poll, scb>>
      /\ \A u \in Threads : pc[u] \notin PollPcs
  <2>1. aborted' = aborted
    <3>1. conn[c].state # "connect" /\ aborted' = ~(conn[c].state # "connect")
      BY DEF Close, LWIP_ASSERT
    <3>2. aborted' = FALSE
      BY <3>1
    <3>3. aborted = FALSE
      OBVIOUS
    <3> QED
      BY <3>2, <3>3
  <2>2. ~aborted /\ pc[t] = "idle" /\ UNCHANGED <<poll, scb>>
    BY DEF Close, MayCall
  <2>3. \A u \in Threads : pc[u] \notin PollPcs
    BY DEF Close, MayCall
  <2> QED
    BY <2>1, <2>2, <2>3
<1>2. scb = {} /\ \A u \in Threads : ~signalled[u] /\ ~Signalled(u)
  BY <1>1 DEF Listed, ListedAt, PollPcs, Signalled
<1>3. conn[c] \in ConnRec /\ sock[c] \in SockRec /\ owner \in SUBSET (Threads \cup {NoThread})
  BY DEF ConnRec
<1>4. \A u \in Threads : conn[c].current_msg = u => pc[u] = "asleep" /\ on[u] = c /\ u # t
  BY <1>1 DEF Owners
<1>5. CASE /\ conn' = [conn EXCEPT ![c] = Closed(conn[c])]
           /\ IF conn[c].pcb = "gone"
              THEN UNCHANGED <<sock, sem, signalled>>
              ELSE Event(c, Gone(sock[c]), TRUE, {conn[c].current_msg})
           /\ At(t, "free", c, "close")
  <2>1. /\ pc' \in [Threads -> Pcs] /\ on' \in [Threads -> Conns \cup {NoConn}]
        /\ op' \in [Threads -> {"none", "connect", "write", "close"}]
        /\ pc'[t] = "free" /\ on'[t] = c /\ op'[t] # "none"
        /\ \A u \in Threads \ {t} : pc'[u] = pc[u] /\ on'[u] = on[u] /\ op'[u] = op[u]
    BY <1>5, AtMoves DEF Pcs
  <2>2. /\ conn' \in [Conns -> ConnRec]
        /\ \A d \in Conns : conn'[d] = IF d = c THEN Closed(conn[c]) ELSE conn[d]
        /\ Closed(conn[c]).state = "none" /\ Closed(conn[c]).current_msg = NoThread
    <3>1. /\ Closed(conn[c]) \in ConnRec
          /\ Closed(conn[c]).state = "none" /\ Closed(conn[c]).current_msg = NoThread
      BY <1>3, ClosedConn
    <3> QED
      BY <3>1, <1>5
  <2>3. /\ sock' \in [Conns -> SockRec] /\ signalled' \in [Threads -> BOOLEAN]
        /\ sem' \in [{sys_arch_netconn_sem_get(u) : u \in Threads} -> {0, 1}]
        /\ \A d \in Conns : sock'[d].select_waiting = sock[d].select_waiting
        /\ \A u \in Threads : ~signalled'[u]
        /\ Pending' => Pending \/ owner \ {NoThread} # {}
    <3>1. CASE conn[c].pcb = "gone"
      BY <3>1, <1>2, <1>5 DEF Pending
    <3>2. CASE conn[c].pcb # "gone"
      <4>1. /\ Gone(sock[c]) \in SockRec
            /\ Gone(sock[c]).select_waiting = sock[c].select_waiting
            /\ Gone(sock[c]).valid = sock[c].valid
        BY <1>3, SockEvents
      <4>2. Event(c, Gone(sock[c]), TRUE, owner)
        BY <3>2, <1>5
      <4> HIDE DEF owner
      <4>3. Told(owner)
        BY <4>1, <4>2, <1>3, EventTells
      <4> QED
        BY <4>3, <1>2 DEF Told
    <3> QED
      BY <3>1, <3>2
  <2>4. NetTyped'
    BY <2>1, <2>2, <2>3, <1>1
  <2>5. Waiters'
    BY <2>1, <1>1 DEF Waiters, PollPcs
  <2>6. Owners'
    BY <2>1, <2>2, <1>1, NamesAssumption DEF Owners
  <2>7. Signals'
    <3> SUFFICES ASSUME Pending' PROVE \E u \in Threads : Complete(u)' \/ Signalled(u)'
      BY DEF Signals
    <3>1. CASE Pending
      <4>1. PICK u \in Threads : Complete(u)
        BY <3>1, <1>2 DEF Signals
      <4>2. u # t /\ on[u] \in Conns
        BY <4>1, <1>1 DEF Complete, Waiters
      <4>3. Complete(u)'
        BY <4>1, <4>2, <2>1, <2>2, NamesAssumption DEF Complete
      <4> QED
        BY <4>3
    <3>2. CASE owner \ {NoThread} # {}
      <4>1. PICK u \in Threads : conn[c].current_msg = u
        BY <3>2, <1>3
      <4>2. Complete(u)'
        BY <4>1, <2>1, <2>2, <1>4, NamesAssumption DEF Complete
      <4> QED
        BY <4>2
    <3> QED
      BY <3>1, <3>2, <2>3
  <2>8. Listed' /\ Counted' /\ Valid' /\ Known'
    <3>1. \A u \in Threads : pc'[u] \notin PollPcs
      BY <2>1, <1>1 DEF PollPcs
    <3> QED
      BY <3>1, <2>3, <1>1, QuietKeeps
  <2> QED
    BY <2>4, <2>5, <2>6, <2>7, <2>8, <1>1
<1>6. CASE /\ conn[c].pcb = "open" /\ \A u \in Threads \ {t} : pc[u] = "idle"
           /\ conn' = [conn EXCEPT ![c].state = "close", ![c].current_msg = t, ![c].rem = 0]
           /\ Event(c, sock[c], FALSE, {conn[c].current_msg})
           /\ At(t, "asleep", c, "close")
  <2>1. /\ pc' \in [Threads -> Pcs] /\ on' \in [Threads -> Conns \cup {NoConn}]
        /\ op' \in [Threads -> {"none", "connect", "write", "close"}]
        /\ pc'[t] = "asleep" /\ on'[t] = c /\ op'[t] # "none"
        /\ \A u \in Threads \ {t} : pc'[u] = pc[u] /\ on'[u] = on[u] /\ op'[u] = op[u]
    BY <1>6, AtMoves DEF Pcs
  <2> DEFINE a == WithCall(conn[c], "open", "close", t)
             w == [a EXCEPT !.rem = 0]
  <2>2. conn' = [conn EXCEPT ![c] = w]
    BY <1>3, <1>6 DEF WithCall, ConnRec
  <2>3. a \in ConnRec /\ a.pcb = "open" /\ a.state = "close" /\ a.current_msg = t
    BY <1>3, SetCall
  <2> HIDE DEF a
  <2>4. w \in ConnRec
    BY <2>3 DEF ConnRec
  <2>5. w.pcb = "open" /\ w.state = "close" /\ w.current_msg = t
    BY <2>3 DEF ConnRec
  <2> HIDE DEF w
  <2>6. conn' \in [Conns -> ConnRec] /\ \A d \in Conns : conn'[d] = IF d = c THEN w ELSE conn[d]
    BY <2>2, <2>4
  <2>7. \A d \in Conns : conn[d].current_msg = NoThread
    BY <1>1, <1>6 DEF Owners, ConnRec
  <2>8. /\ sock' \in [Conns -> SockRec] /\ signalled' \in [Threads -> BOOLEAN]
        /\ sem' \in [{sys_arch_netconn_sem_get(u) : u \in Threads} -> {0, 1}]
        /\ \A d \in Conns : sock'[d].select_waiting = sock[d].select_waiting
        /\ \A u \in Threads : ~signalled'[u]
        /\ Pending' => Pending
    <3>1. Event(c, sock[c], FALSE, owner) /\ owner \ {NoThread} = {}
      BY <2>7, <1>6
    <3> HIDE DEF owner
    <3>2. Told(owner)
      BY <3>1, <1>3, EventTells
    <3> QED
      BY <3>1, <3>2, <1>2 DEF Told
  <2>9. NetTyped'
    BY <2>1, <2>6, <2>8, <1>1
  <2>10. Waiters'
    BY <2>1, <1>1, <1>6 DEF Waiters, PollPcs
  <2>11. Owners'
    BY <2>1, <2>5, <2>6, <2>7, NamesAssumption DEF Owners
  <2>12. Signals'
    <3>1. ~Pending
      BY <1>1, <1>2, <1>6 DEF Signals, Complete
    <3> QED
      BY <3>1, <2>8 DEF Signals
  <2>13. Listed' /\ Counted' /\ Valid' /\ Known'
    <3>1. \A u \in Threads : pc'[u] \notin PollPcs
      BY <2>1, <1>1 DEF PollPcs
    <3> QED
      BY <3>1, <2>8, <1>1, QuietKeeps
  <2> QED
    BY <2>9, <2>10, <2>11, <2>12, <2>13, <1>1
<1> QED
  BY <1>5, <1>6 DEF Close

\* The semaphore has one count.
LEMMA SemIs ==
    ASSUME NetInv, NEW t \in Threads
    PROVE  /\ Sem(t) \in {0, 1} /\ (Pending <=> Sem(t) > 0)
           /\ [sem EXCEPT ![sys_arch_netconn_sem_get(t)] = @ - 1] =
                [sem EXCEPT !["global_netconn_sem"] = @ - 1]
           /\ \A s \in DOMAIN sem : s = "global_netconn_sem"
           /\ "global_netconn_sem" \in DOMAIN sem /\ Sem(t) = sem["global_netconn_sem"]
BY DEF NetInv, NetTyped, Sem, Pending, sys_arch_netconn_sem_get

\* The signal is taken by the one thread that waits for it, whose call is complete.
LEMMA StepWake ==
    ASSUME NetInv, NEW t \in Threads, Wake(t)
    PROVE  NetInv'
<1> USE DEF NetInv, NetTyped
<1> DEFINE g == "global_netconn_sem"
<1>1. /\ pc[t] = "asleep" /\ Sem(t) > 0 /\ pc' = [pc EXCEPT ![t] = "woken"]
      /\ sem' = [sem EXCEPT ![sys_arch_netconn_sem_get(t)] = @ - 1]
      /\ UNCHANGED <<conn, sock, on, op, poll, scb, signalled, aborted>>
  BY DEF Wake
<1>2. \A u \in Threads : pc[u] \notin PollPcs
  BY <1>1, NoPollNextTo
<1>3. \A u \in Threads \ {t} : pc[u] \in {"idle", "free"}
  BY <1>1 DEF Waiters
<1>4. Complete(t)
  <2>1. Pending
    BY <1>1, SemIs
  <2>2. PICK u \in Threads : Complete(u) \/ Signalled(u)
    BY <2>1 DEF Signals
  <2> QED
    BY <2>2, <1>2, <1>3 DEF Complete, Signalled, PollPcs
<1>5. /\ sem' \in [{sys_arch_netconn_sem_get(u) : u \in Threads} -> {0, 1}]
      /\ ~Pending'
  <2>1. /\ sem[g] \in {0, 1} /\ sem[g] > 0 /\ g \in DOMAIN sem
        /\ \A s \in DOMAIN sem : s = g
        /\ sem' = [sem EXCEPT ![g] = @ - 1]
    BY <1>1, SemIs
  <2> HIDE DEF g
  <2>2. DOMAIN sem' = DOMAIN sem /\ \A s \in DOMAIN sem : sem'[s] = 0
    BY <2>1
  <2>3. sem' \in [DOMAIN sem -> {0, 1}]
    BY <2>1
  <2> QED
    BY <2>2, <2>3 DEF Pending
<1>6. /\ pc' \in [Threads -> Pcs] /\ pc'[t] = "woken"
      /\ \A u \in Threads \ {t} : pc'[u] = pc[u]
  BY <1>1 DEF Pcs
<1>7. NetTyped'
  BY <1>1, <1>5, <1>6
<1>8. Waiters'
  BY <1>1, <1>2, <1>3, <1>6 DEF Waiters, PollPcs
<1>9. Owners'
  <2>1. \A c \in Conns : conn[c].current_msg # t
    BY <1>4 DEF Owners, Complete
  <2> QED
    BY <2>1, <1>1, <1>6 DEF Owners
<1>10. Signals'
  BY <1>5 DEF Signals
<1>11. Listed' /\ Counted' /\ Valid' /\ Known'
  <2>1. \A u \in Threads : pc'[u] \notin PollPcs
    BY <1>2, <1>6 DEF PollPcs
  <2> QED
    BY <2>1, <1>1, <1>2, QuietKeeps
<1> QED
  BY <1>1, <1>7, <1>8, <1>9, <1>10, <1>11

\* No assertion fails: nobody else has a call on the socket.
LEMMA StepResume ==
    ASSUME NetInv, NEW t \in Threads, Resume(t) \/ Free(t)
    PROVE  NetInv'
<1> USE DEF NetInv, NetTyped
<1>1. /\ pc[t] \in {"woken", "free"} /\ ~aborted /\ on[t] \in Conns
      /\ UNCHANGED <<conn, sem, poll, scb, signalled>>
      /\ sock' = sock \/ (pc[t] = "free" /\ sock' = [sock EXCEPT ![on[t]].valid = FALSE])
  BY DEF Resume, Free, Waiters
<1>2. \A u \in Threads : pc[u] \notin PollPcs
  BY <1>1, NoPollNextTo
<1>3. pc[t] = "woken" => conn[on[t]].state = "none"
  <2> SUFFICES ASSUME pc[t] = "woken", conn[on[t]].state # "none" PROVE FALSE
    OBVIOUS
  <2>1. PICK u \in Threads : conn[on[t]].current_msg = u
    BY <1>1 DEF Owners, ConnRec
  <2>2. pc[u] = "asleep" /\ u # t
    BY <2>1, <1>1 DEF Owners
  <2> QED
    BY <2>2 DEF Waiters
<1>4. aborted' = FALSE
  <2>1. CASE Resume(t)
    <3>1. pc[t] = "woken" /\ LWIP_ASSERT(IF op[t] = "close" THEN conn[on[t]].state = "none"
                                         ELSE conn[on[t]].state # op[t])
      BY <2>1 DEF Resume
    <3>2. op[t] # "none"
      BY <3>1 DEF Waiters
    <3> QED
      BY <3>1, <3>2, <1>3 DEF LWIP_ASSERT
  <2>2. CASE Free(t)
    BY <2>2, <1>1 DEF Free
  <2> QED
    BY <2>1, <2>2
<1>5. /\ pc' \in [Threads -> Pcs] /\ on' \in [Threads -> Conns \cup {NoConn}]
      /\ op' \in [Threads -> {"none", "connect", "write", "close"}]
      /\ pc'[t] \in {"idle", "free"} /\ (pc'[t] = "free" => on'[t] \in Conns /\ op'[t] = "close")
      /\ \A u \in Threads \ {t} : pc'[u] = pc[u] /\ on'[u] = on[u] /\ op'[u] = op[u]
  <2>1. CASE Resume(t)
    <3> DEFINE where == IF op[t] = "close" THEN "free" ELSE "idle"
    <3>1. At(t, where, on[t], op[t]) /\ where \in Pcs
      BY <2>1 DEF Resume, Pcs
    <3>2. (where # "idle" => op[t] = "close") /\ where \in {"idle", "free"}
      OBVIOUS
    <3> HIDE DEF where
    <3> QED
      BY <3>1, <3>2, <1>1, AtMoves
  <2>2. CASE Free(t)
    <3>1. At(t, "idle", NoConn, "none")
      BY <2>2 DEF Free
    <3> QED
      BY <3>1, AtMoves DEF Pcs
  <2> QED
    BY <2>1, <2>2
<1>6. /\ sock' \in [Conns -> SockRec]
      /\ \A d \in Conns : sock'[d].select_waiting = sock[d].select_waiting
  <2> DEFINE w == Freed(sock[on[t]])
  <2>1. sock[on[t]] \in SockRec
    BY <1>1
  <2>2. w \in SockRec /\ w.select_waiting = sock[on[t]].select_waiting
    BY <2>1, SockCounts
  <2>3. sock' = sock \/ sock' = [sock EXCEPT ![on[t]] = w]
    BY <1>1 DEF Freed
  <2> HIDE DEF w
  <2> QED
    BY <2>1, <2>2, <2>3, <1>1
<1>7. NetTyped'
  BY <1>1, <1>5, <1>6
<1>8. Waiters'
  BY <1>1, <1>2, <1>5 DEF Waiters, PollPcs
<1>9. Owners'
  BY <1>1, <1>5 DEF Owners
<1>10. Signals'
  <2> SUFFICES ASSUME Pending' PROVE \E u \in Threads : Complete(u)'
    BY DEF Signals
  <2>1. Pending
    BY <1>1 DEF Pending
  <2>2. PICK u \in Threads : Complete(u) \/ Signalled(u)
    BY <2>1 DEF Signals
  <2>3. Complete(u) /\ u # t
    BY <2>2, <1>1, <1>2 DEF Complete, Signalled, PollPcs
  <2> QED
    BY <2>3, <1>1, <1>5 DEF Complete
<1>11. Listed' /\ Counted' /\ Valid' /\ Known'
  <2>1. \A u \in Threads : pc'[u] \notin PollPcs
    BY <1>2, <1>5 DEF PollPcs
  <2> QED
    BY <2>1, <1>1, <1>2, <1>6, QuietKeeps
<1> QED
  BY <1>4, <1>7, <1>8, <1>9, <1>10, <1>11

\* The number of a socket is used again.
LEMMA StepSocket ==
    ASSUME NetInv, NEW c \in Conns, Socket(c)
    PROVE  NetInv'
<1> USE DEF NetInv, NetTyped
<1>1. /\ \A t \in Threads : pc[t] \notin PollPcs /\ ~(pc[t] \in {"asleep", "woken"} /\ on[t] = c)
      /\ LWIP_ASSERT(sock[c].select_waiting = 0)
      /\ sock' = [sock EXCEPT ![c] = NewSock(sock[c].select_waiting)]
      /\ conn' = [conn EXCEPT ![c] = NewConn]
      /\ UNCHANGED <<sem, pc, on, op, poll, scb, signalled>>
  BY DEF Socket
<1>2. sock[c].select_waiting = 0
  BY <1>1 DEF Counted, In, PollPcs
<1>3. ~aborted'
  BY <1>1, <1>2 DEF LWIP_ASSERT
<1>4. /\ NewConn \in ConnRec /\ NewConn.state = "none" /\ NewConn.current_msg = NoThread
      /\ NewConn.pcb = "new"
  BY NetconnAssumption DEF NewConn, ConnRec
<1>5. NewSock(0) \in SockRec /\ NewSock(0).select_waiting = 0
  BY DEF NewSock, SockRec
<1>6. /\ sock' \in [Conns -> SockRec]
      /\ \A d \in Conns : sock'[d].select_waiting = sock[d].select_waiting
  BY <1>1, <1>2, <1>5
<1>7. conn' \in [Conns -> ConnRec] /\ \A d \in Conns : conn'[d] = IF d = c THEN NewConn ELSE conn[d]
  BY <1>1, <1>4
<1>8. NetTyped' /\ Waiters'
  BY <1>1, <1>6, <1>7 DEF Waiters
<1>9. Owners'
  BY <1>1, <1>4, <1>7, NamesAssumption DEF Owners
<1>10. Signals'
  <2> SUFFICES ASSUME Pending' PROVE \E u \in Threads : Complete(u)'
    BY DEF Signals
  <2>1. Pending
    BY <1>1 DEF Pending
  <2>2. PICK u \in Threads : Complete(u) \/ Signalled(u)
    BY <2>1 DEF Signals
  <2>3. Complete(u) /\ on[u] \in Conns /\ on[u] # c
    BY <2>2, <1>1 DEF Complete, Signalled, PollPcs, Waiters
  <2> QED
    BY <2>3, <1>1, <1>7 DEF Complete
<1>11. Listed' /\ Counted' /\ Valid' /\ Known'
  BY <1>1, <1>6, QuietKeeps
<1> QED
  BY <1>3, <1>8, <1>9, <1>10, <1>11

----------------------------------------------------------------------------
(* lwip_poll(): no other call is in progress.                                *)

\* The thread has the API for itself; so what there is, is its own.
Solo(t) ==
    /\ pc[t] \in PollPcs \cup {"idle"}
    /\ \A u \in Threads \ {t} : pc[u] = "idle"

LEMMA SoloHas ==
    ASSUME NetInv, NEW t \in Threads, Solo(t)
    PROVE  /\ ListedAt(t) /\ \A c \in Conns : ValidAt(t, c) /\ KnownAt(t, c)
           /\ \A c \in Conns : sock[c].select_waiting = IF In(t, c) THEN 1 ELSE 0
           /\ Pending => Signalled(t)
           /\ \A u \in Threads \ {t} : u \notin scb /\ ~signalled[u]
           /\ \A c \in Conns : conn[c].current_msg = NoThread
           /\ poll[t] \in PollRec
<1> USE DEF NetInv, NetTyped, Solo
<1>1. ListedAt(t) /\ \A c \in Conns : ValidAt(t, c) /\ KnownAt(t, c)
  BY DEF Listed, Valid, Known
<1>2. \A c \in Conns, u \in Threads : In(u, c) => u = t
  BY DEF In
<1>3. \A c \in Conns : sock[c].select_waiting = IF In(t, c) THEN 1 ELSE 0
  BY <1>2 DEF Counted
<1>4. Pending => Signalled(t)
  BY DEF Signals, Complete, Signalled, PollPcs
<1>5. \A u \in Threads \ {t} : u \notin scb /\ ~signalled[u]
  BY DEF Listed, ListedAt, PollPcs
<1>6. \A c \in Conns : conn[c].current_msg = NoThread
  BY DEF Owners, ConnRec, PollPcs
<1> QED
  BY <1>1, <1>3, <1>4, <1>5, <1>6

LEMMA SoloKeeps ==
    ASSUME NetInv, NEW t \in Threads, Solo(t), UNCHANGED <<conn, on, op, aborted>>,
           NEW where \in Pcs \cap (PollPcs \cup {"idle"}), pc' = [pc EXCEPT ![t] = where],
           sock' \in [Conns -> SockRec], poll' \in [Threads -> PollRec],
           sem' \in [{sys_arch_netconn_sem_get(u) : u \in Threads} -> {0, 1}],
           scb' \subseteq Threads, signalled' \in [Threads -> BOOLEAN],
           \A u \in Threads \ {t} : u \notin scb' /\ ~signalled'[u],
           ListedAt(t)', \A c \in Conns : ValidAt(t, c)', \A c \in Conns : KnownAt(t, c)',
           \A c \in Conns : sock'[c].select_waiting = IF In(t, c)' THEN 1 ELSE 0,
           Pending' => Signalled(t)'
    PROVE  NetInv'
<1> USE DEF NetInv, NetTyped, Solo
<1>1. /\ pc' \in [Threads -> Pcs] /\ pc'[t] = where
      /\ \A u \in Threads \ {t} : pc'[u] = "idle" /\ pc[u] = "idle"
  OBVIOUS
<1>2. NetTyped' /\ ~aborted'
  BY <1>1
<1>3. Waiters'
  BY <1>1 DEF Waiters, PollPcs
<1>4. Owners'
  BY SoloHas, NamesAssumption DEF Owners
<1>5. Signals'
  BY DEF Signals
<1>6. Listed'
  <2> SUFFICES ASSUME NEW u \in Threads \ {t} PROVE ListedAt(u)'
    BY DEF Listed
  <2> QED
    BY <1>1 DEF ListedAt, PollPcs
<1>7. Counted'
  <2>1. \A c \in Conns, u \in Threads : In(u, c)' => u = t
    BY <1>1 DEF In
  <2> QED
    BY <2>1 DEF Counted
<1>8. Valid'
  <2> SUFFICES ASSUME NEW u \in Threads \ {t}, NEW c \in Conns PROVE ValidAt(u, c)'
    BY DEF Valid
  <2> QED
    BY <1>1 DEF ValidAt
<1>9. Known'
  <2> SUFFICES ASSUME NEW u \in Threads \ {t}, NEW c \in Conns PROVE KnownAt(u, c)'
    BY DEF Known
  <2> QED
    BY <1>1 DEF KnownAt
<1> QED
  BY <1>2, <1>3, <1>4, <1>5, <1>6, <1>7, <1>8, <1>9

LEMMA PollSolo ==
    ASSUME NetInv, NEW t \in Threads, pc[t] \in PollPcs
    PROVE  Solo(t)
BY DEF NetInv, Waiters, Solo

\* The end of a poll: its signal, if there is one, is taken first.
LEMMA SoloReturns ==
    ASSUME NetInv, NEW t \in Threads, Solo(t), UNCHANGED <<conn, sock, on, op, aborted>>,
           PollReturn(t), scb' = scb \ {t}, ~Pending',
           sem' \in [{sys_arch_netconn_sem_get(u) : u \in Threads} -> {0, 1}],
           \A c \in Conns : ~In(t, c)
    PROVE  NetInv'
<1> USE DEF NetInv, NetTyped
<1>1. /\ pc' = [pc EXCEPT ![t] = "idle"] /\ poll' = [poll EXCEPT ![t] = NoPoll]
      /\ signalled' = [signalled EXCEPT ![t] = FALSE]
  BY DEF PollReturn, Goto
<1>2. "idle" \in Pcs \cap (PollPcs \cup {"idle"})
  BY DEF Pcs
<1>3. poll' \in [Threads -> PollRec]
  <2>1. NoPoll \in PollRec
    BY DEF NoPoll, PollRec
  <2> QED
    BY <2>1, <1>1
<1>4. signalled' \in [Threads -> BOOLEAN] /\ scb' \subseteq Threads
  BY <1>1
<1>5. /\ \A u \in Threads \ {t} : u \notin scb' /\ ~signalled'[u]
      /\ t \notin scb' /\ ~signalled'[t] /\ pc'[t] = "idle"
  BY <1>1, SoloHas
<1>6. ListedAt(t)'
  BY <1>5 DEF ListedAt, PollPcs
<1>7. \A c \in Conns : ValidAt(t, c)' /\ KnownAt(t, c)' /\ ~In(t, c)'
  BY <1>5 DEF ValidAt, KnownAt, In
<1>8. \A c \in Conns : sock'[c].select_waiting = IF In(t, c)' THEN 1 ELSE 0
  BY <1>7, SoloHas
<1> QED
  BY <1>1, <1>2, <1>3, <1>4, <1>5, <1>6, <1>7, <1>8, SoloKeeps

LEMMA StepPollCall ==
    ASSUME NetInv, Sharing = {}, NEW t \in Threads, PollCall(t)
    PROVE  NetInv'
<1> USE DEF NetInv, NetTyped
<1>1. /\ pc[t] = "idle" /\ \A u \in Threads \ {t} : pc[u] = "idle"
      /\ pc' = [pc EXCEPT ![t] = "scan"]
      /\ UNCHANGED <<conn, sock, sem, on, op, scb, signalled, aborted>>
  BY DEF PollCall, Alone, Goto
<1>2. PICK timeout \in {-1, 0, 1}, events \in {"in", "out"} :
         poll' = [poll EXCEPT ![t] = [timeout |-> timeout, events |-> events, todo |-> Conns,
                                      res |-> "none", waited |-> "no"]]
  BY DEF PollCall
<1>3. Solo(t)
  BY <1>1 DEF Solo
<1>4. poll' \in [Threads -> PollRec] /\ poll'[t].todo = Conns /\ poll'[t].waited = "no"
      /\ poll'[t].res = "none"
  <2> DEFINE p == [timeout |-> timeout, events |-> events, todo |-> Conns,
                   res |-> "none", waited |-> "no"]
  <2>1. p \in PollRec /\ p.todo = Conns /\ p.waited = "no" /\ p.res = "none"
    BY DEF PollRec
  <2> HIDE DEF p
  <2> QED
    BY <2>1, <1>2 DEF p
<1>5. "scan" \in Pcs \cap (PollPcs \cup {"idle"}) /\ pc'[t] = "scan"
  BY <1>1 DEF Pcs, PollPcs
<1>6. ~signalled[t] /\ t \notin scb /\ ~Pending /\ \A c \in Conns : ~In(t, c)
  BY <1>1, <1>3, SoloHas DEF ListedAt, PollPcs, Signalled, In
<1>7. ListedAt(t)'
  BY <1>1, <1>4, <1>5, <1>6 DEF ListedAt, PollPcs
<1>8. \A c \in Conns : ValidAt(t, c)' /\ KnownAt(t, c)' /\ ~In(t, c)'
  BY <1>4, <1>5 DEF ValidAt, KnownAt, In
<1>9. \A c \in Conns : sock'[c].select_waiting = IF In(t, c)' THEN 1 ELSE 0
  BY <1>1, <1>3, <1>6, <1>8, SoloHas
<1>10. ~Pending'
  BY <1>1, <1>6 DEF Pending
<1>11. \A u \in Threads \ {t} : u \notin scb' /\ ~signalled'[u]
  BY <1>1, <1>3, SoloHas
<1> QED
  BY <1>1, <1>3, <1>4, <1>5, <1>7, <1>8, <1>9, <1>10, <1>11, SoloKeeps

\* One socket: the poll sees it ready, or will be told of its next event.
LEMMA StepPollScan ==
    ASSUME NetInv, NEW t \in Threads, PollScan(t)
    PROVE  NetInv'
<1> USE DEF NetInv, NetTyped
<1>1. PICK c \in poll[t].todo :
         \/ pc[t] = "scan" /\ Scanned(t, c, 0)
         \/ pc[t] = "inc"  /\ Scanned(t, c, 1)
         \/ pc[t] = "dec"  /\ Scanned(t, c, -1)
  BY DEF PollScan
<1>2. /\ UNCHANGED <<conn, sem, pc, on, op, scb, signalled, aborted>>
      /\ pc[t] \in {"scan", "inc", "dec"} /\ pc[t] \in PollPcs
  BY <1>1 DEF PollScan, PollPcs
<1>3. Solo(t)
  BY <1>2, PollSolo
<1>4. /\ poll[t] \in PollRec /\ c \in Conns /\ sock[c] \in SockRec
      /\ pc' = [pc EXCEPT ![t] = pc[t]] /\ pc[t] \in Pcs \cap (PollPcs \cup {"idle"})
  BY <1>1, <1>2 DEF PollRec
<1> DEFINE n == IF pc[t] = "scan" THEN 0 ELSE IF pc[t] = "inc" THEN 1 ELSE -1
           w == CountedBy(sock[c], n)
           p == [poll[t] EXCEPT !.todo = @ \ {c},
                                !.res = IF Ready(sock[c], poll[t].events) THEN "ready" ELSE @]
           q == [poll[t] EXCEPT !.todo = {}, !.res = "bad"]
<1>5. n \in Int /\ Scanned(t, c, n)
  BY <1>1
<1>6. w \in SockRec /\ w.select_waiting = sock[c].select_waiting + n /\ w.valid = sock[c].valid
      /\ \A e : Ready(w, e) <=> Ready(sock[c], e)
  BY <1>4, <1>5, SockCounts
<1>7. \/ /\ sock[c].valid /\ poll' = [poll EXCEPT ![t] = p] /\ sock' = [sock EXCEPT ![c] = w]
      \/ /\ ~sock[c].valid /\ poll' = [poll EXCEPT ![t] = q] /\ sock' = sock
  BY <1>5 DEF Scanned, CountedBy
<1>8. /\ p \in PollRec /\ p.todo = poll[t].todo \ {c} /\ p.waited = poll[t].waited
      /\ p.events = poll[t].events
      /\ p.res = IF Ready(sock[c], poll[t].events) THEN "ready" ELSE poll[t].res
  <2> DEFINE r == IF Ready(sock[c], poll[t].events) THEN "ready" ELSE poll[t].res
             a == [poll[t] EXCEPT !.todo = @ \ {c}]
  <2>1. p = [a EXCEPT !.res = r]
    BY <1>4
  <2>2. r \in {"none", "ready", "bad"}
    BY <1>4 DEF PollRec
  <2> HIDE DEF r
  <2>3. a \in PollRec
    BY <1>4 DEF PollRec
  <2>4. a.todo = poll[t].todo \ {c} /\ a.waited = poll[t].waited /\ a.events = poll[t].events
    BY <1>4 DEF PollRec
  <2> HIDE DEF a, p
  <2>5. [a EXCEPT !.res = r] \in PollRec
    BY <2>2, <2>3 DEF PollRec
  <2>6. /\ [a EXCEPT !.res = r].todo = a.todo /\ [a EXCEPT !.res = r].waited = a.waited
        /\ [a EXCEPT !.res = r].events = a.events /\ [a EXCEPT !.res = r].res = r
    BY <2>3 DEF PollRec
  <2> QED
    BY <2>1, <2>4, <2>5, <2>6 DEF r
<1>9. /\ q \in PollRec /\ q.todo = {} /\ q.waited = poll[t].waited /\ q.res = "bad"
  <2> DEFINE a == [poll[t] EXCEPT !.todo = {}]
  <2>1. q = [a EXCEPT !.res = "bad"]
    BY <1>4
  <2>2. a \in PollRec
    BY <1>4 DEF PollRec
  <2>3. a.todo = {} /\ a.waited = poll[t].waited
    BY <1>4 DEF PollRec
  <2> HIDE DEF a, q
  <2>4. [a EXCEPT !.res = "bad"] \in PollRec
    BY <2>2 DEF PollRec
  <2>5. /\ [a EXCEPT !.res = "bad"].todo = a.todo /\ [a EXCEPT !.res = "bad"].waited = a.waited
        /\ [a EXCEPT !.res = "bad"].res = "bad"
    BY <2>2 DEF PollRec
  <2> QED
    BY <2>1, <2>3, <2>4, <2>5
<1> HIDE DEF w, p, q
<1>10. /\ ListedAt(t) /\ \A d \in Conns : ValidAt(t, d) /\ KnownAt(t, d)
       /\ \A d \in Conns : sock[d].select_waiting = IF In(t, d) THEN 1 ELSE 0
       /\ Pending => Signalled(t)
       /\ \A u \in Threads \ {t} : u \notin scb /\ ~signalled[u]
  BY <1>3, SoloHas
<1>11. CASE /\ sock[c].valid /\ poll' = [poll EXCEPT ![t] = p] /\ sock' = [sock EXCEPT ![c] = w]
  <2>1. /\ poll' \in [Threads -> PollRec] /\ poll'[t] = p /\ sock' \in [Conns -> SockRec]
        /\ \A d \in Conns : sock'[d] = IF d = c THEN w ELSE sock[d]
    BY <1>4, <1>6, <1>8, <1>11
  <2>2. ListedAt(t)'
    <3>1. poll[t].res # "bad"
      BY <1>1, <1>2, <1>10 DEF ListedAt, PollPcs
    <3> QED
      BY <3>1, <2>1, <1>2, <1>8, <1>10 DEF ListedAt, Sem, PollPcs
  <2>3. \A d \in Conns : ValidAt(t, d)'
    <3> SUFFICES ASSUME NEW d \in Conns PROVE ValidAt(t, d)'
      OBVIOUS
    <3>1. ValidAt(t, d) /\ poll[t].res # "bad"
      BY <1>1, <1>2, <1>10 DEF ListedAt, PollPcs
    <3>2. CASE d = c
      BY <3>2, <2>1, <1>6, <1>11 DEF ValidAt
    <3>3. CASE d # c
      BY <3>1, <3>3, <2>1, <1>2, <1>8 DEF ValidAt
    <3> QED
      BY <3>2, <3>3
  <2>4. \A d \in Conns : KnownAt(t, d)'
    <3> SUFFICES ASSUME NEW d \in Conns PROVE KnownAt(t, d)'
      OBVIOUS
    <3>1. CASE d = c
      BY <3>1, <2>1, <1>2, <1>6, <1>8 DEF KnownAt
    <3>2. CASE d # c
      <4>1. KnownAt(t, d) /\ (p.res = "none" => poll[t].res = "none")
        BY <1>8, <1>10
      <4> QED
        BY <3>2, <4>1, <2>1, <1>2, <1>8 DEF KnownAt
    <3> QED
      BY <3>1, <3>2
  <2>5. \A d \in Conns : sock'[d].select_waiting = IF In(t, d)' THEN 1 ELSE 0
    <3> SUFFICES ASSUME NEW d \in Conns
                 PROVE  sock'[d].select_waiting = IF In(t, d)' THEN 1 ELSE 0
      OBVIOUS
    <3>1. CASE d = c
      <4>1. /\ pc[t] = "scan" => ~In(t, c) /\ ~In(t, c)'
            /\ pc[t] = "inc"  => ~In(t, c) /\ In(t, c)'
            /\ pc[t] = "dec"  => In(t, c) /\ ~In(t, c)'
        BY <2>1, <1>1, <1>2, <1>8 DEF In
      <4>2. sock[c].select_waiting = IF In(t, c) THEN 1 ELSE 0
        BY <1>4, <1>10
      <4>3. sock'[c].select_waiting = sock[c].select_waiting + n
        BY <2>1, <1>4, <1>6
      <4> QED
        BY <3>1, <4>1, <4>2, <4>3, <1>2
    <3>2. CASE d # c
      <4>1. In(t, d)' <=> In(t, d)
        BY <3>2, <2>1, <1>2, <1>8 DEF In
      <4> QED
        BY <3>2, <4>1, <2>1, <1>10
    <3> QED
      BY <3>1, <3>2
  <2>6. Pending' => Signalled(t)'
    BY <2>1, <1>2, <1>8, <1>10 DEF Pending, Signalled
  <2>7. \A u \in Threads \ {t} : u \notin scb' /\ ~signalled'[u]
    BY <1>2, <1>10
  <2> QED
    BY <2>1, <2>2, <2>3, <2>4, <2>5, <2>6, <2>7, <1>2, <1>3, <1>4, SoloKeeps
<1>12. CASE /\ ~sock[c].valid /\ poll' = [poll EXCEPT ![t] = q] /\ sock' = sock
  <2>1. /\ poll' \in [Threads -> PollRec] /\ poll'[t] = q /\ sock' \in [Conns -> SockRec]
    BY <1>9, <1>12
  <2>2. pc[t] = "scan"
    BY <1>2, <1>4, <1>10, <1>12 DEF ValidAt
  <2>3. ListedAt(t)'
    BY <2>1, <2>2, <1>2, <1>9, <1>10 DEF ListedAt, PollPcs
  <2>4. \A d \in Conns : ValidAt(t, d)' /\ KnownAt(t, d)' /\ ~In(t, d)' /\ ~In(t, d)
    BY <2>1, <2>2, <1>2, <1>9 DEF ValidAt, KnownAt, In
  <2>5. \A d \in Conns : sock'[d].select_waiting = IF In(t, d)' THEN 1 ELSE 0
    BY <2>4, <1>10, <1>12
  <2>6. Pending' => Signalled(t)'
    BY <2>2, <1>2, <1>10 DEF Pending, Signalled
  <2>7. \A u \in Threads \ {t} : u \notin scb' /\ ~signalled'[u]
    BY <1>2, <1>10
  <2> QED
    BY <2>1, <2>3, <2>4, <2>5, <2>6, <2>7, <1>2, <1>3, <1>4, SoloKeeps
<1> QED
  BY <1>7, <1>11, <1>12

\* What is left unchanged by the poll between two scans.
LEMMA SoloQuiet ==
    ASSUME NetInv, NEW t \in Threads, Solo(t), UNCHANGED <<sem, scb, signalled>>
    PROVE  /\ Pending' <=> Pending
           /\ \A u \in Threads \ {t} : u \notin scb' /\ ~signalled'[u]
           /\ sem' \in [{sys_arch_netconn_sem_get(u) : u \in Threads} -> {0, 1}]
           /\ scb' \subseteq Threads /\ signalled' \in [Threads -> BOOLEAN]
BY SoloHas DEF NetInv, NetTyped, Pending

\* The scan starts again.
LEMMA RescanSets ==
    ASSUME NetInv, NEW t \in Threads, Rescan(t)
    PROVE  /\ poll' \in [Threads -> PollRec] /\ poll'[t].todo = Conns
           /\ poll'[t].res = "none" /\ poll'[t].waited = poll[t].waited
<1> USE DEF NetInv, NetTyped
<1> DEFINE a == [poll[t] EXCEPT !.todo = Conns]
           b == [a EXCEPT !.res = "none"]
<1>1. poll' = [poll EXCEPT ![t] = b]
  BY DEF Rescan
<1>2. poll[t] \in PollRec
  OBVIOUS
<1>3. a \in PollRec
  BY <1>2 DEF PollRec
<1>4. a.todo = Conns /\ a.waited = poll[t].waited
  BY <1>2 DEF PollRec
<1> HIDE DEF a
<1>5. b \in PollRec
  BY <1>3 DEF PollRec
<1>6. b.todo = a.todo /\ b.waited = a.waited /\ b.res = "none"
  BY <1>3 DEF PollRec
<1> HIDE DEF b
<1> QED
  BY <1>1, <1>4, <1>5, <1>6

LEMMA StepPollFirst ==
    ASSUME NetInv, NEW t \in Threads, PollFirst(t)
    PROVE  NetInv'
<1> USE DEF NetInv, NetTyped
<1>1. /\ UNCHANGED <<conn, sock, sem, on, op, scb, aborted>> /\ pc[t] = "scan"
      /\ poll[t].todo = {}
  BY DEF PollFirst
<1>2. Solo(t)
  BY <1>1, PollSolo DEF PollPcs
<1>3. /\ ListedAt(t) /\ \A d \in Conns : ValidAt(t, d)
      /\ \A d \in Conns : sock[d].select_waiting = IF In(t, d) THEN 1 ELSE 0
      /\ ~Pending /\ ~signalled[t] /\ t \notin scb /\ \A d \in Conns : ~In(t, d)
  BY <1>1, <1>2, SoloHas DEF Signalled, ListedAt, PollPcs, In
<1>4. ~Pending'
  BY <1>1, <1>3 DEF Pending
<1>5. CASE PollReturn(t)
  <2>1. scb' = scb \ {t}
    BY <1>1, <1>3
  <2> QED
    BY <2>1, <1>1, <1>2, <1>3, <1>4, <1>5, SoloReturns
<1>6. CASE Goto(t, "link") /\ UNCHANGED <<poll, signalled>> /\ poll[t].res = "none"
  <2>1. pc' = [pc EXCEPT ![t] = "link"] /\ "link" \in Pcs \cap (PollPcs \cup {"idle"})
        /\ pc'[t] = "link"
    BY <1>6 DEF Goto, Pcs, PollPcs
  <2>2. ListedAt(t)'
    BY <2>1, <1>1, <1>3, <1>6 DEF ListedAt, PollPcs
  <2>3. \A d \in Conns : ValidAt(t, d)' /\ KnownAt(t, d)' /\ ~In(t, d)'
    BY <2>1, <1>1, <1>3, <1>6 DEF ValidAt, KnownAt, In
  <2>4. \A d \in Conns : sock'[d].select_waiting = IF In(t, d)' THEN 1 ELSE 0
    BY <2>3, <1>1, <1>3
  <2> QED
    BY <2>1, <2>2, <2>3, <2>4, <1>1, <1>2, <1>4, <1>6, SoloQuiet, SoloKeeps
<1> QED
  BY <1>5, <1>6 DEF PollFirst

LEMMA StepLink ==
    ASSUME NetInv, NEW t \in Threads, Link(t)
    PROVE  NetInv'
<1> USE DEF NetInv, NetTyped
<1>1. /\ UNCHANGED <<conn, sock, sem, on, op, aborted>> /\ pc[t] = "link"
      /\ pc' = [pc EXCEPT ![t] = "inc"] /\ scb' = scb \cup {t} /\ Rescan(t)
      /\ signalled' = [signalled EXCEPT ![t] = FALSE]
  BY DEF Link, Goto
<1>2. Solo(t)
  BY <1>1, PollSolo DEF PollPcs
<1>3. /\ ListedAt(t) /\ \A d \in Conns : ValidAt(t, d)
      /\ \A d \in Conns : sock[d].select_waiting = IF In(t, d) THEN 1 ELSE 0
      /\ ~Pending /\ \A d \in Conns : ~In(t, d)
      /\ \A u \in Threads \ {t} : u \notin scb /\ ~signalled[u]
  BY <1>1, <1>2, SoloHas DEF Signalled, In
<1>4. ~Pending'
  BY <1>1, <1>3 DEF Pending
<1>5. /\ poll' \in [Threads -> PollRec] /\ poll'[t].todo = Conns
      /\ poll'[t].waited = "no" /\ poll'[t].res = "none"
  BY <1>1, <1>3, RescanSets DEF ListedAt, PollPcs
<1>6. /\ "inc" \in Pcs \cap (PollPcs \cup {"idle"}) /\ pc'[t] = "inc" /\ t \in scb'
      /\ ~signalled'[t] /\ signalled' \in [Threads -> BOOLEAN] /\ scb' \subseteq Threads
      /\ \A u \in Threads \ {t} : u \notin scb' /\ ~signalled'[u]
  BY <1>1, <1>3 DEF Pcs, PollPcs
<1>7. ListedAt(t)'
  BY <1>5, <1>6 DEF ListedAt, PollPcs
<1>8. \A d \in Conns : ValidAt(t, d)' /\ KnownAt(t, d)' /\ ~In(t, d)'
  BY <1>1, <1>3, <1>5, <1>6 DEF ValidAt, KnownAt, In
<1>9. \A d \in Conns : sock'[d].select_waiting = IF In(t, d)' THEN 1 ELSE 0
  BY <1>1, <1>3, <1>8
<1> QED
  BY <1>1, <1>2, <1>4, <1>5, <1>6, <1>7, <1>8, <1>9, SoloKeeps

LEMMA StepPollSecond ==
    ASSUME NetInv, NEW t \in Threads, PollSecond(t)
    PROVE  NetInv'
<1> USE DEF NetInv, NetTyped
<1>1. /\ UNCHANGED <<conn, sock, sem, on, op, scb, signalled, aborted>> /\ pc[t] = "inc"
      /\ poll[t].todo = {}
  BY DEF PollSecond
<1>2. Solo(t)
  BY <1>1, PollSolo DEF PollPcs
<1>3. /\ ListedAt(t) /\ \A d \in Conns : ValidAt(t, d) /\ KnownAt(t, d)
      /\ \A d \in Conns : sock[d].select_waiting = IF In(t, d) THEN 1 ELSE 0
      /\ Pending => Signalled(t)
  BY <1>2, SoloHas
<1>4. \A d \in Conns : In(t, d)
  BY <1>1 DEF In
<1>5. CASE poll[t].res = "none" /\ Goto(t, "sleep") /\ UNCHANGED poll
  <2>1. pc' = [pc EXCEPT ![t] = "sleep"] /\ "sleep" \in Pcs \cap (PollPcs \cup {"idle"})
        /\ pc'[t] = "sleep"
    BY <1>5 DEF Goto, Pcs, PollPcs
  <2>2. ListedAt(t)'
    BY <2>1, <1>1, <1>3, <1>5 DEF ListedAt, PollPcs, Sem
  <2>3. \A d \in Conns : ValidAt(t, d)' /\ In(t, d)'
    BY <2>1, <1>1, <1>3, <1>5 DEF ValidAt, In
  <2>4. \A d \in Conns : KnownAt(t, d)'
    BY <2>1, <1>1, <1>3, <1>5 DEF KnownAt
  <2>5. \A d \in Conns : sock'[d].select_waiting = IF In(t, d)' THEN 1 ELSE 0
    BY <2>3, <1>1, <1>3, <1>4
  <2>6. Pending' => Signalled(t)'
    BY <2>1, <1>1, <1>3, <1>5 DEF Pending, Signalled
  <2> QED
    BY <2>1, <2>2, <2>3, <2>4, <2>5, <2>6, <1>1, <1>2, <1>5, SoloQuiet, SoloKeeps
<1>6. CASE Goto(t, "dec") /\ Rescan(t)
  <2>1. pc' = [pc EXCEPT ![t] = "dec"] /\ "dec" \in Pcs \cap (PollPcs \cup {"idle"})
        /\ pc'[t] = "dec"
    BY <1>6 DEF Goto, Pcs, PollPcs
  <2>2. /\ poll' \in [Threads -> PollRec] /\ poll'[t].todo = Conns
        /\ poll'[t].waited = "no" /\ poll[t].waited = "no" /\ poll'[t].res = "none"
    BY <1>1, <1>3, <1>6, RescanSets DEF ListedAt, PollPcs
  <2>3. ListedAt(t)'
    BY <2>1, <2>2, <1>1, <1>3 DEF ListedAt, PollPcs
  <2>4. \A d \in Conns : ValidAt(t, d)' /\ KnownAt(t, d)' /\ In(t, d)'
    BY <2>1, <2>2, <1>1, <1>3 DEF ValidAt, KnownAt, In
  <2>5. \A d \in Conns : sock'[d].select_waiting = IF In(t, d)' THEN 1 ELSE 0
    BY <2>4, <1>1, <1>3, <1>4
  <2>6. Pending' => Signalled(t)'
    BY <2>1, <2>2, <1>1, <1>3 DEF Pending, Signalled
  <2> QED
    BY <2>1, <2>2, <2>3, <2>4, <2>5, <2>6, <1>1, <1>2, SoloQuiet, SoloKeeps
<1> QED
  BY <1>5, <1>6 DEF PollSecond

LEMMA StepPollWake ==
    ASSUME NetInv, NEW t \in Threads, PollWake(t)
    PROVE  NetInv'
<1> USE DEF NetInv, NetTyped
<1> DEFINE g == "global_netconn_sem"
<1>1. /\ UNCHANGED <<conn, sock, on, op, scb, signalled, aborted>> /\ pc[t] = "sleep"
      /\ pc' = [pc EXCEPT ![t] = "dec"]
  BY DEF PollWake, Goto
<1>2. Solo(t)
  BY <1>1, PollSolo DEF PollPcs
<1>3. /\ ListedAt(t) /\ \A d \in Conns : ValidAt(t, d) /\ KnownAt(t, d)
      /\ \A d \in Conns : sock[d].select_waiting = IF In(t, d) THEN 1 ELSE 0
      /\ Pending => Signalled(t)
      /\ \A u \in Threads \ {t} : u \notin scb /\ ~signalled[u]
  BY <1>2, SoloHas
<1>4. \A d \in Conns : In(t, d)
  BY <1>1, <1>3 DEF In, ListedAt
<1>5. PICK x \in {"yes", "timeout"} :
        /\ poll' = [poll EXCEPT ![t].todo = Conns, ![t].res = "none", ![t].waited = x]
        /\ x = "yes" => Sem(t) > 0 /\ sem' = [sem EXCEPT ![sys_arch_netconn_sem_get(t)] = @ - 1]
        /\ x = "timeout" => Sem(t) = 0 /\ sem' = sem
  BY DEF PollWake
<1>6. /\ poll' \in [Threads -> PollRec] /\ poll'[t].todo = Conns
      /\ poll'[t].res = "none" /\ poll'[t].waited = x
  <2> DEFINE a == [poll[t] EXCEPT !.todo = Conns]
             b == [a EXCEPT !.res = "none"]
             d == [b EXCEPT !.waited = x]
  <2>1. poll' = [poll EXCEPT ![t] = d]
    BY <1>5
  <2>2. poll[t] \in PollRec
    OBVIOUS
  <2>3. a \in PollRec
    BY <2>2 DEF PollRec
  <2>4. a.todo = Conns
    BY <2>2 DEF PollRec
  <2> HIDE DEF a
  <2>5. b \in PollRec
    BY <2>3 DEF PollRec
  <2>6. b.todo = a.todo /\ b.res = "none"
    BY <2>3 DEF PollRec
  <2> HIDE DEF b
  <2>7. d \in PollRec
    BY <2>5 DEF PollRec
  <2>8. d.todo = b.todo /\ d.res = b.res /\ d.waited = x
    BY <2>5 DEF PollRec
  <2> HIDE DEF d
  <2> QED
    BY <2>1, <2>4, <2>6, <2>7, <2>8
<1>7. /\ sem' \in [{sys_arch_netconn_sem_get(u) : u \in Threads} -> {0, 1}]
      /\ ~Pending' /\ (x = "yes" => signalled[t])
  <2>1. CASE x = "timeout"
    <3>1. ~Pending
      <4>1. Sem(t) = 0 /\ (Pending <=> Sem(t) > 0)
        BY <2>1, <1>5, SemIs, Zenon
      <4> QED
        BY <4>1
    <3> QED
      BY <2>1, <3>1, <1>5 DEF Pending
  <2>2. CASE x = "yes"
    <3>1. /\ sem[g] \in {0, 1} /\ sem[g] > 0 /\ g \in DOMAIN sem
          /\ \A s \in DOMAIN sem : s = g
          /\ sem' = [sem EXCEPT ![g] = @ - 1]
      BY <2>2, <1>5, SemIs
    <3>2. signalled[t]
      BY <2>2, <1>3, <1>5, SemIs DEF Signalled
    <3> HIDE DEF g
    <3>3. DOMAIN sem' = DOMAIN sem /\ \A s \in DOMAIN sem : sem'[s] = 0
      BY <3>1
    <3>4. sem' \in [DOMAIN sem -> {0, 1}]
      BY <3>1
    <3> QED
      BY <3>2, <3>3, <3>4 DEF Pending
  <2> QED
    BY <2>1, <2>2, <1>5
<1>8. "dec" \in Pcs \cap (PollPcs \cup {"idle"}) /\ pc'[t] = "dec"
  BY <1>1 DEF Pcs, PollPcs
<1>9. ListedAt(t)'
  BY <1>1, <1>3, <1>6, <1>7, <1>8 DEF ListedAt, PollPcs
<1>10. \A d \in Conns : ValidAt(t, d)' /\ KnownAt(t, d)' /\ In(t, d)'
  BY <1>1, <1>3, <1>6, <1>8 DEF ValidAt, KnownAt, In
<1>11. \A d \in Conns : sock'[d].select_waiting = IF In(t, d)' THEN 1 ELSE 0
  BY <1>1, <1>3, <1>4, <1>10
<1>12. /\ \A u \in Threads \ {t} : u \notin scb' /\ ~signalled'[u]
       /\ scb' \subseteq Threads /\ signalled' \in [Threads -> BOOLEAN]
       /\ sock' \in [Conns -> SockRec]
  BY <1>1, <1>3
<1> QED
  BY <1>1, <1>2, <1>6, <1>7, <1>8, <1>9, <1>10, <1>11, <1>12, SoloKeeps

\* A signal that was not taken is taken before poll() returns.
LEMMA StepUnlink ==
    ASSUME NetInv, NEW t \in Threads, Unlink(t)
    PROVE  NetInv'
<1> USE DEF NetInv, NetTyped
<1>1. /\ UNCHANGED <<conn, sock, sem, on, op, aborted>> /\ pc[t] = "dec"
      /\ poll[t].todo = {} /\ scb' = scb \ {t}
  BY DEF Unlink
<1>2. Solo(t)
  BY <1>1, PollSolo DEF PollPcs
<1>3. /\ ListedAt(t)
      /\ \A d \in Conns : sock[d].select_waiting = IF In(t, d) THEN 1 ELSE 0
      /\ Pending => Signalled(t)
      /\ \A u \in Threads \ {t} : u \notin scb /\ ~signalled[u]
      /\ \A d \in Conns : ~In(t, d)
  BY <1>1, <1>2, SoloHas DEF In
<1>4. CASE ~(signalled[t] /\ poll[t].waited # "yes") /\ PollReturn(t)
  <2>1. ~Pending'
    BY <1>1, <1>3, <1>4 DEF Pending, Signalled
  <2> QED
    BY <2>1, <1>1, <1>2, <1>3, <1>4, SoloReturns
<1>5. CASE signalled[t] /\ poll[t].waited # "yes" /\ Goto(t, "drain") /\ UNCHANGED <<poll, signalled>>
  <2>1. pc' = [pc EXCEPT ![t] = "drain"] /\ "drain" \in Pcs \cap (PollPcs \cup {"idle"})
        /\ pc'[t] = "drain"
    BY <1>5 DEF Goto, Pcs, PollPcs
  <2>2. ListedAt(t)'
    BY <2>1, <1>1, <1>3, <1>5 DEF ListedAt, PollPcs
  <2>3. \A d \in Conns : ValidAt(t, d)' /\ KnownAt(t, d)' /\ ~In(t, d)'
    BY <2>1, <1>1, <1>3, <1>5 DEF ValidAt, KnownAt, In
  <2>4. \A d \in Conns : sock'[d].select_waiting = IF In(t, d)' THEN 1 ELSE 0
    BY <2>3, <1>1, <1>3
  <2>5. Signalled(t)'
    BY <2>1, <1>5 DEF Signalled
  <2>6. /\ \A u \in Threads \ {t} : u \notin scb' /\ ~signalled'[u]
        /\ scb' \subseteq Threads /\ signalled' \in [Threads -> BOOLEAN]
    BY <1>1, <1>3, <1>5
  <2> QED
    BY <2>1, <2>2, <2>3, <2>4, <2>5, <2>6, <1>1, <1>2, <1>5, SoloKeeps
<1> QED
  BY <1>4, <1>5 DEF Unlink

LEMMA StepDrain ==
    ASSUME NetInv, NEW t \in Threads, Drain(t)
    PROVE  NetInv'
<1> USE DEF NetInv, NetTyped
<1> DEFINE g == "global_netconn_sem"
<1>1. /\ UNCHANGED <<conn, sock, on, op, scb, aborted>> /\ pc[t] = "drain" /\ PollReturn(t)
      /\ sem' = [sem EXCEPT ![sys_arch_netconn_sem_get(t)] = 0]
  BY DEF Drain
<1>2. Solo(t)
  BY <1>1, PollSolo DEF PollPcs
<1>3. ListedAt(t) /\ \A d \in Conns : ~In(t, d)
  BY <1>1, <1>2, SoloHas DEF In
<1>4. scb' = scb \ {t}
  BY <1>1, <1>3 DEF ListedAt
<1>5. /\ sem' \in [{sys_arch_netconn_sem_get(u) : u \in Threads} -> {0, 1}]
      /\ ~Pending'
  <2>1. /\ g \in DOMAIN sem /\ (\A s \in DOMAIN sem : s = g)
        /\ sem' = [sem EXCEPT ![g] = 0]
    BY <1>1, SemIs DEF sys_arch_netconn_sem_get
  <2> HIDE DEF g
  <2>2. DOMAIN sem' = DOMAIN sem /\ \A s \in DOMAIN sem : sem'[s] = 0
    BY <2>1
  <2>3. sem' \in [DOMAIN sem -> {0, 1}]
    BY <2>1
  <2> QED
    BY <2>2, <2>3 DEF Pending
<1> QED
  BY <1>1, <1>2, <1>3, <1>4, <1>5, SoloReturns

----------------------------------------------------------------------------
LEMMA NetStep ==
    ASSUME NetInv, Sharing = {}, [Next]_vars
    PROVE  NetInv'
<1>1. ASSUME NEW t \in Threads, Call(t) PROVE NetInv'
  BY <1>1, StepPollCall, StepConnect, StepWrite, StepClose DEF Call
<1>2. ASSUME NEW t \in Threads, Go(t) PROVE NetInv'
  BY <1>2, StepWake, StepResume DEF Go
<1>3. ASSUME NEW t \in Threads, GoPoll(t) PROVE NetInv'
  BY <1>3, StepPollScan, StepPollFirst, StepLink, StepPollSecond, StepPollWake, StepUnlink,
     StepDrain DEF GoPoll
<1>4. ASSUME NEW c \in Conns, Socket(c) \/ Stack(c) PROVE NetInv'
  BY <1>4, StepSocket, StackConnected, StackSent, StackRecv, StackRecvData DEF Stack
<1>5. CASE UNCHANGED vars
  BY <1>5 DEF vars, NetInv, NetTyped, Waiters, Owners, Signals, Pending, Complete, Signalled,
     Listed, ListedAt, Sem, Counted, In, Valid, ValidAt, Known, KnownAt
<1> QED
  BY <1>1, <1>2, <1>3, <1>4, <1>5 DEF Next

\* One waiting call at a time: no LWIP_ASSERT("state!") of do_connect, do_write and
\* do_delconn fails, nor that of alloc_socket on the count of waiting polls.
THEOREM NetNoAbort == Sharing = {} => (Spec => []NoAbort)
<1> SUFFICES ASSUME Sharing = {} PROVE Spec => []NoAbort
  OBVIOUS
<1>1. NetInv /\ [Next]_vars => NetInv'
  BY NetStep
<1>2. NetInv => NoAbort
  BY DEF NetInv, NoAbort
<1> QED
  BY NetInit, <1>1, <1>2, PTL DEF Spec

\* One waiting call at a time: every signal of the shared semaphore is for a call in
\* progress; none is left behind by a poll() that timed out or saw an event itself.
THEOREM NetNoStaleSignal == Sharing = {} => (Spec => []NoStaleSignal)
<1> SUFFICES ASSUME Sharing = {} PROVE Spec => []NoStaleSignal
  OBVIOUS
<1>1. NetInv /\ [Next]_vars => NetInv'
  BY NetStep
<1>2. NetInv => NoStaleSignal
  BY DEF NetInv, Signals, Pending, Complete, Signalled, NoStaleSignal, PollPcs
<1> QED
  BY NetInit, <1>1, <1>2, PTL DEF Spec

\* One waiting call at a time: lwip_poll() does not sleep on a socket that is ready;
\* an event between its scans and its entry in select_cb_list is not lost.
THEOREM NetPollNotMissed == Sharing = {} => (Spec => []PollNotMissed)
<1> SUFFICES ASSUME Sharing = {} PROVE Spec => []PollNotMissed
  OBVIOUS
<1>1. NetInv /\ [Next]_vars => NetInv'
  BY NetStep
<1>2. NetInv => PollNotMissed
  BY DEF NetInv, Listed, ListedAt, Known, KnownAt, PollNotMissed
<1> QED
  BY NetInit, <1>1, <1>2, PTL DEF Spec

============================================================================
