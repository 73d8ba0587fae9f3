-------------------------- MODULE SessTableProofs --------------------------
(* Proofs about module SessTable, for any number of threads, slots and      *)
(* sessions: as long as no two threads have met in the table or in          *)
(* initTcp(), every session keeps its slot, its actions and its headers,    *)
(* and every packet is whole and is fed back to its sender.                 *)
(*                                                                          *)
(* The argument.  A session is in one slot from addTcpSess() to the close,  *)
(* and two threads that hold a slot hold different ones: a slot is looked   *)
(* for and cleared by one thread at a time.  What a thread has put into its *)
(* slot's buffers is there when the packet is copied, and the spin lock of  *)
(* the WC window keeps the descriptor in front of its packet.               *)
EXTENDS SessTable, ModArith, SequenceTheorems, FiniteSetTheorems, TLAPS

\* The types of the variables.
Pcs == {"idle", "initTcp", "control", "lock", "getFree", "new", "reread", "socket",
        "load", "follow", "bind", "syn", "synSent", "failed", "conn", "hdr", "payload",
        "wcDesc", "wcPayload", "null", "delete", "free", "nullAfter"}
Rets == {"none", "bind", "hdr", "null", "delete", "syn", "synSent", "conn", "free"}
AppRec == [pc : Pcs, api : Apis \cup {"none"}, sess : Obj \cup {NULL}, slot : Slot,
           i : Nat, ptr : Obj \cup {NULL}, ret : Rets,
           kind : {"none", "preload", "fast", "full"}, how : {"none", "socketClose"}]
Bodies  == (Nat \X Nat) \cup {<<>>}
Csums   == ((Obj \cup {NULL}) \X Nat \X Bodies) \cup {<<>>}
BufRec  == [hdr : Obj \cup {NULL}, len : Nat, size : Nat, body : Bodies, csum : Csums]
DescRec == [idx : 0 .. CONTROL_SESS_ID, size : Nat, csum : Csums, buf : {0, 1},
            opc : {"none", "Send", "DontSend"}]
ServRec == [pc : {"idle", "load", "follow", "write"}, i : Nat, ptr : Obj \cup {NULL}]

TableTyped ==
    /\ pLwipNetIf \in BOOLEAN /\ raced \in BOOLEAN
    /\ tcpSess \in [Slot -> Obj \cup {NULL}]
    /\ a_ \in [0 .. CONTROL_SESS_ID -> Obj \cup {NULL, Ctl}]
    /\ opened \in 0 .. MaxOpens /\ sends \in Nat
    /\ app \in [Thread -> AppRec]
BufTyped ==
    /\ heap \in [0 .. CONTROL_SESS_ID -> BufRec]
    /\ ackHeap \in [Slot -> Obj \cup {NULL}] /\ fpgaAck \in [Slot -> Obj \cup {NULL}]
    /\ wcDesc \in DescRec /\ busy \subseteq Thread /\ torn \in BOOLEAN
    /\ sent \in [Obj -> Nat] /\ mirrored \in [Obj -> Nat]
    /\ epmFeedback \in Seq(Obj \cup {NULL}) /\ serv \in ServRec

\* A thread in a look-up or with a packet goes on where its call wants it to.
Sending(r) == r.pc \in {"wcDesc", "wcPayload"}
Looking(r) == r.pc \in {"load", "follow"}
Path(r) ==
    /\ Looking(r) => r.ret \in {"bind", "hdr", "null", "delete"}
    /\ Looking(r) => (r.ret = "delete" <=> r.how = "socketClose")
    /\ Sending(r) => \/ r.ret = "syn" /\ r.kind = "preload"
                     \/ r.ret = "conn" /\ r.kind = "fast"
                     \/ r.ret \in {"synSent", "free"} /\ r.kind = "full"
    /\ r.how = "socketClose" => \/ r.pc \in {"load", "follow", "delete", "free", "nullAfter"}
                                \/ Sending(r) /\ r.ret = "free"
    /\ r.pc = "nullAfter" => r.how = "socketClose"
Paths == \A t \in Thread : Path(app[t])

\* The window belongs to the thread that has written the descriptor and not yet the packet.
Window ==
    /\ txBuf \in {0, 1} /\ lastBuf = 1 - txBuf
    /\ \A t \in Thread : t \in busy <=> app[t].pc = "wcPayload"
    /\ \A t, u \in busy : t = u
    /\ wcDesc.opc # "none" => wcDesc.buf = txBuf
    /\ busy = {} => wcDesc.opc = "none"
    /\ \A t \in busy : /\ wcDesc.opc = IF app[t].kind = "preload" THEN "DontSend" ELSE "Send"
                       /\ wcDesc.idx = IF app[t].kind = "full" THEN CONTROL_SESS_ID
                                                               ELSE app[t].slot

\* What holds whether or not threads have met.
Always == TableTyped /\ BufTyped /\ Paths /\ Window /\ (Overlap => raced)

\* A thread that is opening a session, one that has a slot, and one that has cleared
\* its slot and not yet deleted the session.
Starting == {"initTcp", "control", "lock", "getFree", "new"}
Holds(r) == r.pc \notin Starting \cup {"idle"}
Leaving(r) == r.how = "none" /\ (r.pc \in {"delete", "free"} \/ (Sending(r) /\ r.ret = "free"))

In(s, o) == tcpSess[s] = o \/ a_[s] = o

\* The control session comes before every other session.
ControlAt(t) ==
    /\ app[t].pc = "initTcp" => ~pLwipNetIf
    /\ app[t].pc = "control" => pLwipNetIf /\ Ctl \notin live
    /\ app[t].pc \in {"lock", "getFree", "new"} => Ctl \in live
Control ==
    /\ ~pLwipNetIf => Ctl \notin live
    /\ pLwipNetIf => Ctl \in live \/ \E t \in Thread : app[t].pc = "control"
    /\ a_[CONTROL_SESS_ID] # NULL => Ctl \in live
    /\ \A t \in Thread : ControlAt(t)

\* The session a thread is opening is new.
FreshAt(t) ==
    app[t].pc \in Starting =>
      /\ app[t].ptr \in 1 .. opened /\ app[t].ptr \notin est
      /\ \A s \in Slot : ~In(s, app[t].ptr)
      /\ \A u \in Thread \ {t} : app[u].pc \in Starting => app[u].ptr # app[t].ptr
Fresh == \A t \in Thread : FreshAt(t)

\* What a thread finds in its slot.
OwnerAt(t) ==
    /\ ~Holds(app[t]) => app[t].sess = NULL
    /\ app[t].pc = "new" => tcpSess[app[t].slot] = NULL /\ a_[app[t].slot] = NULL
    /\ app[t].pc = "reread" =>
         /\ app[t].sess = NULL
         /\ tcpSess[app[t].slot] # NULL /\ a_[app[t].slot] = tcpSess[app[t].slot]
         /\ tcpSess[app[t].slot] \in live /\ tcpSess[app[t].slot] \in controlTcpSess
    /\ Holds(app[t]) /\ app[t].pc # "reread" =>
         /\ app[t].sess # NULL /\ app[t].sess \in controlTcpSess
         /\ tcpSess[app[t].slot] = IF Leaving(app[t]) THEN NULL ELSE app[t].sess
         /\ a_[app[t].slot] = IF app[t].pc = "nullAfter" THEN NULL ELSE app[t].sess
         /\ app[t].pc # "nullAfter" => app[t].sess \in live
Owners == \A t \in Thread : OwnerAt(t)

\* One session has one slot, one slot has one thread, and a taken slot has a thread
\* or belongs to a session that was given up.
OneSlot == \A s1, s2 \in Slot : \A o \in Obj : In(s1, o) /\ In(s2, o) => s1 = s2
OneThread ==
    \A t, u \in Thread : Holds(app[t]) /\ Holds(app[u]) /\ app[t].slot = app[u].slot => t = u
Accounted ==
    \A s \in Slot : \A o \in Obj : In(s, o) =>
      /\ o <= opened
      /\ \/ tcpSess[s] = o /\ a_[s] = o /\ o \in leaked
         \/ \E t \in Thread : Holds(app[t]) /\ app[t].slot = s
Plain == (\A s \in Slot : a_[s] # Ctl) /\ est \subseteq 1 .. opened

TableInv ==
    Control /\ Fresh /\ Owners /\ OneSlot /\ OneThread /\ Accounted /\ Plain

\* The headers of the empty ACK are the session's when it goes to the FPGA, and stay so.
AckAt(t) ==
    /\ Sending(app[t]) /\ app[t].ret = "syn" => ackHeap[app[t].slot] = app[t].sess
    /\ app[t].pc \in {"syn", "synSent"} \/ (Sending(app[t]) /\ app[t].ret = "synSent") =>
         fpgaAck[app[t].slot] = app[t].sess
AckInv ==
    /\ \A t \in Thread : AckAt(t)
    /\ \A s \in Slot : tcpSess[s] \in est => fpgaAck[s] = tcpSess[s]

\* What a thread has put into the buffer of its action.
BufferAt(t) ==
    /\ \/ app[t].pc \in {"synSent", "conn", "hdr", "payload"}
       \/ Looking(app[t]) /\ app[t].ret = "hdr"
       \/ Sending(app[t]) /\ app[t].ret \in {"synSent", "conn"}
       => heap[app[t].slot].hdr = app[t].sess
    /\ app[t].pc = "payload" => heap[app[t].slot].size = heap[app[t].slot].len
    /\ Sending(app[t]) /\ app[t].kind = "fast" =>
         /\ heap[app[t].slot].size = heap[app[t].slot].len
         /\ heap[app[t].slot].csum =
              <<heap[app[t].slot].hdr, heap[app[t].slot].len, heap[app[t].slot].body>>
    /\ app[t].pc = "wcPayload" /\ app[t].kind = "fast" =>
         /\ wcDesc.size = heap[app[t].slot].size /\ wcDesc.csum = heap[app[t].slot].csum
    /\ Sending(app[t]) /\ app[t].kind = "full" =>
         /\ heap[CONTROL_SESS_ID].size = 1 /\ heap[CONTROL_SESS_ID].len = 1
         /\ heap[CONTROL_SESS_ID].csum = <<>>
    /\ app[t].pc = "wcPayload" /\ app[t].kind = "full" =>
         wcDesc.size = 1 /\ wcDesc.csum = <<>>
PacketInv == (\A t \in Thread : BufferAt(t)) /\ ~torn

\* A packet is looked up while it is the first one.
Count(q, o) == Cardinality({k \in DOMAIN q : q[k] = o})
ServInv == /\ serv.pc # "idle" => epmFeedback # <<>>
           /\ serv.pc = "write" => serv.ptr = Head(epmFeedback)
Fed == \A o \in Obj : mirrored[o] + Count(epmFeedback, o) = sent[o]

\* What holds as long as no threads have met.
Alone == TableInv /\ AckInv /\ PacketInv /\ Fed /\ fatal \notin {"alreadySet", "noControl"}

SessInv == Always /\ ServInv /\ (~raced => Alone)

----------------------------------------------------------------------------
(* What a step does to the record of its thread.                            *)

Sets(t, p, o, s, q, x, k, h) ==
    /\ app' \in [Thread -> AppRec] /\ \A u \in Thread \ {t} : app'[u] = app[u]
    /\ app'[t].pc = p /\ app'[t].sess = o /\ app'[t].slot = s /\ app'[t].ptr = q
    /\ app'[t].ret = x /\ app'[t].kind = k /\ app'[t].how = h

\* Goes to p, with a look-up or a packet in view, and keeps its session.
Steps(t, p, x, k, h) == Sets(t, p, app[t].sess, app[t].slot, app[t].ptr, x, k, h)
Ends(t) == Sets(t, "idle", NULL, 0, NULL, "none", "none", "none")

LEMMA SetField ==
    ASSUME NEW f \in [Thread -> AppRec], NEW t \in Thread
    PROVE  /\ \A v \in Pcs : [f EXCEPT ![t].pc = v] \in [Thread -> AppRec]
           /\ \A v \in Rets : [f EXCEPT ![t].ret = v] \in [Thread -> AppRec]
           /\ \A v \in Nat : [f EXCEPT ![t].i = v] \in [Thread -> AppRec]
           /\ \A v \in Slot : [f EXCEPT ![t].slot = v] \in [Thread -> AppRec]
<1>1. ASSUME NEW v \in Pcs PROVE [f EXCEPT ![t].pc = v] \in [Thread -> AppRec]
  BY DEF AppRec
<1>2. ASSUME NEW v \in Rets PROVE [f EXCEPT ![t].ret = v] \in [Thread -> AppRec]
  BY DEF AppRec
<1>3. ASSUME NEW v \in Nat PROVE [f EXCEPT ![t].i = v] \in [Thread -> AppRec]
  BY DEF AppRec
<1>4. ASSUME NEW v \in Slot PROVE [f EXCEPT ![t].slot = v] \in [Thread -> AppRec]
  BY DEF AppRec
<1> QED
  BY <1>1, <1>2, <1>3, <1>4

LEMMA SetField2 ==
    ASSUME NEW f \in [Thread -> AppRec], NEW t \in Thread
    PROVE  /\ \A v \in {"none", "preload", "fast", "full"} :
                [f EXCEPT ![t].kind = v] \in [Thread -> AppRec]
           /\ \A v \in {"none", "socketClose"} : [f EXCEPT ![t].how = v] \in [Thread -> AppRec]
           /\ \A v \in Obj \cup {NULL} : [f EXCEPT ![t].sess = v] \in [Thread -> AppRec]
           /\ \A v \in Obj \cup {NULL} : [f EXCEPT ![t].ptr = v] \in [Thread -> AppRec]
<1>1. ASSUME NEW v \in {"none", "preload", "fast", "full"}
      PROVE  [f EXCEPT ![t].kind = v] \in [Thread -> AppRec]
  BY DEF AppRec
<1>2. ASSUME NEW v \in {"none", "socketClose"} PROVE [f EXCEPT ![t].how = v] \in [Thread -> AppRec]
  BY DEF AppRec
<1>3. ASSUME NEW v \in Obj \cup {NULL} PROVE [f EXCEPT ![t].sess = v] \in [Thread -> AppRec]
  BY DEF AppRec
<1>4. ASSUME NEW v \in Obj \cup {NULL} PROVE [f EXCEPT ![t].ptr = v] \in [Thread -> AppRec]
  BY DEF AppRec
<1> QED
  BY <1>1, <1>2, <1>3, <1>4

LEMMA SetsGoto ==
    ASSUME TableTyped, NEW t \in Thread, NEW p \in Pcs, Goto(t, p)
    PROVE  Steps(t, p, app[t].ret, app[t].kind, app[t].how)
<1>1. app' \in [Thread -> AppRec]
  BY SetField DEF Goto, TableTyped
<1> QED
  BY <1>1 DEF TableTyped, Goto, Steps, Sets, AppRec

LEMMA SetsWc ==
    ASSUME TableTyped, NEW t \in Thread, NEW k \in {"preload", "fast", "full"}, NEW x \in Rets,
           app' = [app EXCEPT ![t].pc = "wcDesc", ![t].kind = k, ![t].ret = x]
    PROVE  Steps(t, "wcDesc", x, k, app[t].how)
<1> DEFINE a == [app EXCEPT ![t].pc = "wcDesc"]
           b == [a EXCEPT ![t].kind = k]
           c == [b EXCEPT ![t].ret = x]
<1>1. app' = c
  OBVIOUS
<1>2. a \in [Thread -> AppRec]
  BY SetField DEF TableTyped, Pcs
<1> HIDE DEF a
<1>3. b \in [Thread -> AppRec]
  BY <1>2, SetField2
<1> HIDE DEF b
<1>4. c \in [Thread -> AppRec]
  BY <1>3, SetField
<1> HIDE DEF c
<1>5. app' \in [Thread -> AppRec]
  BY <1>1, <1>4
<1> QED
  BY <1>5 DEF TableTyped, Steps, Sets, AppRec

LEMMA SetsFind ==
    ASSUME TableTyped, NEW t \in Thread, NEW x \in Rets, NEW h \in {"none", "socketClose"},
           Find(t, x, h)
    PROVE  Steps(t, "load", x, app[t].kind, h)
<1> DEFINE a == [app EXCEPT ![t].pc = "load"]
           b == [a EXCEPT ![t].i = 0]
           c == [b EXCEPT ![t].ret = x]
           d == [c EXCEPT ![t].how = h]
<1>1. app' = d
  BY DEF Find
<1>2. a \in [Thread -> AppRec]
  BY SetField DEF TableTyped, Pcs
<1> HIDE DEF a
<1>3. b \in [Thread -> AppRec]
  BY <1>2, SetField
<1> HIDE DEF b
<1>4. c \in [Thread -> AppRec]
  BY <1>3, SetField
<1> HIDE DEF c
<1>5. d \in [Thread -> AppRec]
  BY <1>4, SetField2
<1> HIDE DEF d
<1>6. app' \in [Thread -> AppRec]
  BY <1>1, <1>5
<1> QED
  BY <1>6 DEF TableTyped, Steps, Sets, AppRec, Find

LEMMA SetsInit ==
    ASSUME TableTyped, NEW t \in Thread, app' = [app EXCEPT ![t] = AppInit]
    PROVE  Ends(t)
<1>1. 0 \in Slot
  BY TableAssumption DEF Slot
<1>2. AppInit \in AppRec
  BY <1>1 DEF AppInit, AppRec, Pcs, Rets
<1> QED
  BY <1>2 DEF TableTyped, Ends, Sets, AppInit

LEMMA SetsOpen ==
    ASSUME TableTyped, NEW t \in Thread, Open(t)
    PROVE  \E x \in Apis :
             Sets(t, IF pLwipNetIf THEN AfterInit(x) ELSE "initTcp", NULL, 0, opened + 1,
                  "none", "none", "none")
<1>1. PICK x \in Apis :
        app' = [app EXCEPT ![t] = [AppInit EXCEPT
                  !.pc = IF pLwipNetIf THEN AfterInit(x) ELSE "initTcp",
                  !.api = x, !.ptr = opened + 1]]
  BY DEF Open
<1> DEFINE p == IF pLwipNetIf THEN AfterInit(x) ELSE "initTcp"
           n == opened + 1
           a == [AppInit EXCEPT !.pc = p]
           b == [a EXCEPT !.api = x]
           c == [b EXCEPT !.ptr = n]
<1>2. app' = [app EXCEPT ![t] = c]
  BY <1>1
<1>3. 0 \in Slot /\ n \in Obj
  BY TableAssumption DEF Slot, Open, Obj, TableTyped
<1>4. p \in Pcs
  BY DEF AfterInit, Pcs
<1> HIDE DEF p, n
<1>5. /\ a \in AppRec /\ a.pc = p /\ a.sess = NULL /\ a.slot = 0 /\ a.ret = "none"
      /\ a.kind = "none" /\ a.how = "none"
  BY <1>3, <1>4 DEF AppInit, AppRec, Rets
<1> HIDE DEF a
<1>6. /\ b \in AppRec /\ b.pc = p /\ b.sess = NULL /\ b.slot = 0 /\ b.ret = "none"
      /\ b.kind = "none" /\ b.how = "none"
  BY <1>5 DEF AppRec
<1> HIDE DEF b
<1>7. /\ c \in AppRec /\ c.pc = p /\ c.sess = NULL /\ c.slot = 0 /\ c.ret = "none"
      /\ c.kind = "none" /\ c.how = "none" /\ c.ptr = n
  BY <1>3, <1>6 DEF AppRec
<1> HIDE DEF c
<1>8. Sets(t, p, NULL, 0, n, "none", "none", "none")
  BY <1>2, <1>7 DEF Sets, TableTyped
<1> QED
  BY <1>8 DEF p, n

LEMMA SetsGetFree ==
    ASSUME TableTyped, NEW t \in Thread, NEW s \in Slot,
           app' = [app EXCEPT ![t].slot = s, ![t].pc = "new"]
    PROVE  Sets(t, "new", app[t].sess, s, app[t].ptr, app[t].ret, app[t].kind, app[t].how)
<1> DEFINE a == [app EXCEPT ![t].slot = s]
           b == [a EXCEPT ![t].pc = "new"]
<1>1. app' = b
  OBVIOUS
<1>2. a \in [Thread -> AppRec]
  BY SetField DEF TableTyped
<1> HIDE DEF a
<1>3. b \in [Thread -> AppRec]
  BY <1>2, SetField DEF Pcs
<1> HIDE DEF b
<1>4. app' \in [Thread -> AppRec]
  BY <1>1, <1>3
<1> QED
  BY <1>4 DEF TableTyped, Sets, AppRec

LEMMA SetsAdd ==
    ASSUME TableTyped, NEW t \in Thread, app' = [app EXCEPT ![t].ptr = NULL, ![t].pc = "reread"]
    PROVE  Sets(t, "reread", app[t].sess, app[t].slot, NULL, app[t].ret, app[t].kind, app[t].how)
<1> DEFINE a == [app EXCEPT ![t].ptr = NULL]
           b == [a EXCEPT ![t].pc = "reread"]
<1>1. app' = b
  OBVIOUS
<1>2. a \in [Thread -> AppRec]
  BY SetField2 DEF TableTyped
<1> HIDE DEF a
<1>3. b \in [Thread -> AppRec]
  BY <1>2, SetField DEF Pcs
<1> HIDE DEF b
<1>4. app' \in [Thread -> AppRec]
  BY <1>1, <1>3
<1> QED
  BY <1>4 DEF TableTyped, Sets, AppRec

LEMMA SetsReread ==
    ASSUME TableTyped, NEW t \in Thread, NEW o \in Obj \cup {NULL}, NEW p \in Pcs,
           app' = [app EXCEPT ![t].sess = o, ![t].pc = p, ![t].i = 0, ![t].ret = "bind"]
    PROVE  Sets(t, p, o, app[t].slot, app[t].ptr, "bind", app[t].kind, app[t].how)
<1> DEFINE a == [app EXCEPT ![t].sess = o]
           b == [a EXCEPT ![t].pc = p]
           c == [b EXCEPT ![t].i = 0]
           d == [c EXCEPT ![t].ret = "bind"]
<1>1. app' = d
  OBVIOUS
<1>2. a \in [Thread -> AppRec]
  BY SetField2 DEF TableTyped
<1> HIDE DEF a
<1>3. b \in [Thread -> AppRec]
  BY <1>2, SetField
<1> HIDE DEF b
<1>4. c \in [Thread -> AppRec]
  BY <1>3, SetField
<1> HIDE DEF c
<1>5. d \in [Thread -> AppRec]
  BY <1>4, SetField DEF Rets
<1> HIDE DEF d
<1>6. app' \in [Thread -> AppRec]
  BY <1>1, <1>5
<1> QED
  BY <1>6 DEF TableTyped, Sets, AppRec

LEMMA SetsLoad ==
    ASSUME TableTyped, NEW t \in Thread, Load(t)
    PROVE  \E p \in {"load", "follow"}, o \in Obj \cup {NULL} :
             Sets(t, p, app[t].sess, app[t].slot, o, app[t].ret, app[t].kind, app[t].how)
<1> DEFINE o == tcpSess[app[t].i]
           n == IF o = NULL THEN app[t].i + 1 ELSE app[t].i
           p == IF o = NULL THEN "load" ELSE "follow"
<1>1. app' = [app EXCEPT ![t].ptr = o, ![t].i = n, ![t].pc = p]
  BY DEF Load, TableTyped, AppRec
<1>2. o \in Obj \cup {NULL} /\ n \in Nat /\ p \in {"load", "follow"}
  BY DEF Load, TableTyped, AppRec
<1> HIDE DEF o, n, p
<1> DEFINE a == [app EXCEPT ![t].ptr = o]
           b == [a EXCEPT ![t].i = n]
           c == [b EXCEPT ![t].pc = p]
<1>3. app' = c
  BY <1>1
<1>4. a \in [Thread -> AppRec]
  BY <1>2, SetField2 DEF TableTyped
<1> HIDE DEF a
<1>5. b \in [Thread -> AppRec]
  BY <1>2, <1>4, SetField
<1> HIDE DEF b
<1>6. c \in [Thread -> AppRec]
  BY <1>2, <1>5, SetField DEF Pcs
<1> HIDE DEF c
<1>7. app' \in [Thread -> AppRec]
  BY <1>3, <1>6
<1>8. Sets(t, p, app[t].sess, app[t].slot, o, app[t].ret, app[t].kind, app[t].how)
  BY <1>1, <1>7 DEF TableTyped, Sets, AppRec
<1> QED
  BY <1>2, <1>8

LEMMA SetsFollow ==
    ASSUME TableTyped, Paths, NEW t \in Thread, Follow(t), app[t].ptr \in live
    PROVE  \E p \in {"load", app[t].ret} :
             Sets(t, p, app[t].sess, app[t].slot, NULL, app[t].ret, app[t].kind, app[t].how)
<1> DEFINE p == IF app[t].ptr = app[t].sess THEN app[t].ret ELSE "load"
           n == IF app[t].ptr = app[t].sess THEN 0 ELSE app[t].i + 1
           r == app[t]
           a == [r EXCEPT !.pc = p]
           b == [a EXCEPT !.i = n]
           c == [b EXCEPT !.ptr = NULL]
<1>1. app' = [app EXCEPT ![t] = c]
  <2>1. app' = [app EXCEPT ![t] = IF app[t].ptr = app[t].sess
                 THEN [app[t] EXCEPT !.pc = app[t].ret, !.i = 0, !.ptr = NULL]
                 ELSE [app[t] EXCEPT !.pc = "load", !.i = app[t].i + 1, !.ptr = NULL]]
    BY Zenon DEF Follow
  <2> QED
    BY <2>1
<1>2. r \in AppRec /\ p \in {"load", r.ret} /\ p \in Pcs /\ n \in Nat
  BY DEF TableTyped, AppRec, Paths, Path, Looking, Follow, At, Pcs
<1> HIDE DEF p, n, r
<1>3. a \in AppRec /\ a.pc = p /\ a.sess = r.sess /\ a.slot = r.slot /\ a.ret = r.ret
      /\ a.kind = r.kind /\ a.how = r.how
  BY <1>2 DEF AppRec
<1> HIDE DEF a
<1>4. b \in AppRec /\ b.pc = p /\ b.sess = r.sess /\ b.slot = r.slot /\ b.ret = r.ret
      /\ b.kind = r.kind /\ b.how = r.how
  BY <1>2, <1>3 DEF AppRec
<1> HIDE DEF b
<1>5. c \in AppRec /\ c.pc = p /\ c.sess = r.sess /\ c.slot = r.slot /\ c.ret = r.ret
      /\ c.kind = r.kind /\ c.how = r.how /\ c.ptr = NULL
  BY <1>4 DEF AppRec
<1> HIDE DEF c
<1>6. Sets(t, p, r.sess, r.slot, NULL, r.ret, r.kind, r.how)
  BY <1>1, <1>5 DEF Sets, TableTyped
<1> QED
  BY <1>2, <1>6 DEF r

LEMMA SetsClose ==
    ASSUME TableTyped, NEW t \in Thread, app' = [app EXCEPT ![t].pc = "null", ![t].ret = "none"]
    PROVE  Steps(t, "null", "none", app[t].kind, app[t].how)
<1> DEFINE a == [app EXCEPT ![t].pc = "null"]
           b == [a EXCEPT ![t].ret = "none"]
<1>1. app' = b
  OBVIOUS
<1>2. a \in [Thread -> AppRec]
  BY SetField DEF TableTyped, Pcs
<1> HIDE DEF a
<1>3. b \in [Thread -> AppRec]
  BY <1>2, SetField DEF Rets
<1> HIDE DEF b
<1>4. app' \in [Thread -> AppRec]
  BY <1>1, <1>3
<1> QED
  BY <1>4 DEF TableTyped, Steps, Sets, AppRec

LEMMA SetsPayload ==
    ASSUME TableTyped, Paths, NEW t \in Thread, WcPayload(t)
    PROVE  Steps(t, app[t].ret, "none", "none", app[t].how)
<1> DEFINE x == app[t].ret
           a == [app EXCEPT ![t].pc = x]
           b == [a EXCEPT ![t].ret = "none"]
           c == [b EXCEPT ![t].kind = "none"]
<1>0. x \in Pcs
  BY DEF Paths, Path, Sending, WcPayload, At, Pcs
<1>1. app' = c
  BY DEF WcPayload
<1> HIDE DEF x
<1>2. a \in [Thread -> AppRec]
  BY <1>0, SetField DEF TableTyped
<1>3. [a EXCEPT ![t].ret = "none"] \in [Thread -> AppRec]
  BY <1>2, SetField DEF Rets
<1>4. c \in [Thread -> AppRec]
  BY <1>3, SetField2
<1>5. app' \in [Thread -> AppRec]
  BY <1>1, <1>4
<1>6. app' = [app EXCEPT ![t].pc = x, ![t].ret = "none", ![t].kind = "none"]
  BY DEF WcPayload, x
<1> QED
  BY <1>5, <1>6 DEF TableTyped, Steps, Sets, AppRec, x

LEMMA SetsDelete ==
    ASSUME TableTyped, NEW t \in Thread, DeleteTcpSess(t)
    PROVE  IF app[t].how = "socketClose"
           THEN Steps(t, "nullAfter", app[t].ret, app[t].kind, app[t].how) ELSE Ends(t)
<1>1. app' = [app EXCEPT ![t] = IF app[t].how = "socketClose"
                                 THEN [app[t] EXCEPT !.pc = "nullAfter"] ELSE AppInit]
  BY DEF DeleteTcpSess
<1>2. CASE app[t].how = "socketClose"
  <2>1. Goto(t, "nullAfter")
    BY <1>1, <1>2 DEF Goto, TableTyped, AppRec
  <2> QED
    BY <1>2, <2>1, SetsGoto DEF Pcs
<1>3. CASE app[t].how # "socketClose"
  BY <1>1, <1>3, SetsInit
<1> QED
  BY <1>2, <1>3

LEMMA SetsRefuse ==
    ASSUME TableTyped, NEW t \in Thread, Refuse(t)
    PROVE  \/ leaked' = leaked /\ Steps(t, "failed", app[t].ret, app[t].kind, app[t].how)
           \/ leaked' = leaked \cup {app[t].sess} /\ Ends(t)
<1>1. CASE app[t].api = "exc"
  <2>1. Goto(t, "failed") /\ leaked' = leaked
    BY <1>1 DEF Refuse, Goto, TableTyped, AppRec
  <2> QED
    BY <2>1, SetsGoto DEF Pcs
<1>2. CASE app[t].api # "exc"
  BY <1>2, SetsInit DEF Refuse
<1> QED
  BY <1>1, <1>2

USE DEF lockVars, tableVars, bufVars, wcVars, servVars

\* A step of a thread that stays outside the window.
AppMove(t) ==
    /\ app' \in [Thread -> AppRec] /\ \A u \in Thread \ {t} : app'[u] = app[u]
    /\ Path(app'[t]) /\ app[t].pc # "wcPayload" /\ app'[t].pc # "wcPayload"
    /\ Track

LEMMA PathsKept ==
    ASSUME Paths, NEW t \in Thread, \A u \in Thread \ {t} : app'[u] = app[u], Path(app'[t])
    PROVE  Paths'
BY DEF Paths, Path, Sending, Looking

LEMMA TrackKeeps ==
    ASSUME Track, raced \in BOOLEAN
    PROVE  raced' \in BOOLEAN /\ (Overlap => raced)' /\ (~raced' => ~raced /\ ~Overlap')
BY Zenon DEF Track

LEMMA WindowKept ==
    ASSUME Window, busy \subseteq Thread, NEW t \in Thread, AppMove(t),
           UNCHANGED <<busy, wcDesc, txBuf, lastBuf>>
    PROVE  Window'
<1>1. t \notin busy
  BY DEF Window, AppMove
<1>2. \A u \in busy : app'[u] = app[u]
  BY <1>1 DEF AppMove
<1>3. \A u \in Thread : u \in busy' <=> app'[u].pc = "wcPayload"
  BY <1>1 DEF AppMove, Window
<1> QED
  BY <1>2, <1>3 DEF Window

LEMMA AlwaysMove ==
    ASSUME Always, NEW t \in Thread, AppMove(t), TableTyped', BufTyped',
           UNCHANGED <<busy, wcDesc, txBuf, lastBuf>>
    PROVE  Always' /\ (~raced' => ~raced /\ ~Overlap /\ ~Overlap')
<1>1. Track /\ raced \in BOOLEAN /\ busy \subseteq Thread
  BY DEF AppMove, Always, TableTyped, BufTyped
<1>2. Paths'
  BY PathsKept DEF AppMove, Always
<1>3. Window'
  BY <1>1, WindowKept DEF Always
<1>4. (Overlap => raced)' /\ (~raced' => ~raced /\ ~Overlap')
  BY <1>1, TrackKeeps
<1> QED
  BY <1>2, <1>3, <1>4 DEF Always

\* The step changes no more than the record of its thread and what no type is about.
LEMMA AlwaysApp ==
    ASSUME Always, NEW t \in Thread, AppMove(t), UNCHANGED <<bufVars, wcVars, servVars>>,
           UNCHANGED <<tcpSess, a_>>, pLwipNetIf' \in BOOLEAN, opened' \in 0 .. MaxOpens,
           sends' \in Nat
    PROVE  Always' /\ (~raced' => ~raced /\ ~Overlap /\ ~Overlap')
<1>1. raced' \in BOOLEAN
  BY TrackKeeps DEF AppMove, Always, TableTyped
<1>2. TableTyped' /\ BufTyped'
  BY <1>1 DEF Always, TableTyped, BufTyped, AppMove
<1> QED
  BY <1>2, AlwaysMove

\* The thread keeps its slot and the table stays as it is.
LEMMA TableMove ==
    ASSUME Always, TableInv, NEW t \in Thread, \A u \in Thread \ {t} : app'[u] = app[u],
           Holds(app[t]), Holds(app'[t]), app'[t].slot = app[t].slot, OwnerAt(t)',
           UNCHANGED <<pLwipNetIf, tcpSess, a_, live, controlTcpSess, opened>>,
           \A o \in est' : o \in est \/ (o \in Obj /\ In(app[t].slot, o)),
           leaked \subseteq leaked'
    PROVE  TableInv'
<1> USE DEF TableInv
<1>1. app[t].pc \notin Starting /\ app'[t].pc \notin Starting
      /\ app[t].slot \in Slot
  BY DEF Holds, Always, TableTyped, AppRec
<1>2. \A s \in Slot : \A o : In(s, o)' <=> In(s, o)
  BY DEF In
<1>3. Control'
  <2>1. \A u \in Thread : app[u].pc = "control" => app'[u].pc = "control"
    BY <1>1 DEF Starting
  <2>2. \A u \in Thread : ControlAt(u)'
    BY <1>1 DEF Control, ControlAt, Starting
  <2> QED
    BY <2>1, <2>2 DEF Control
<1>4. Fresh'
  <2> SUFFICES ASSUME NEW u \in Thread, app'[u].pc \in Starting PROVE FreshAt(u)'
    BY DEF Fresh, FreshAt
  <2>1. u # t /\ app'[u] = app[u] /\ FreshAt(u)
    BY <1>1 DEF Fresh
  <2>2. app[u].ptr \in 1 .. opened /\ app[u].ptr \notin est
        /\ \A s \in Slot : ~In(s, app[u].ptr)
    BY <2>1 DEF FreshAt
  <2>3. app[u].ptr \notin est'
    BY <2>2, <1>1
  <2>4. \A v \in Thread \ {u} : app'[v].pc \in Starting => app'[v].ptr # app'[u].ptr
    BY <1>1, <2>1 DEF FreshAt
  <2> QED
    BY <1>2, <2>1, <2>2, <2>3, <2>4 DEF FreshAt
<1>5. Owners'
  <2> SUFFICES ASSUME NEW u \in Thread \ {t} PROVE OwnerAt(u)'
    BY DEF Owners
  <2>1. OwnerAt(u) /\ app'[u] = app[u]
    BY DEF Owners
  <2> QED
    BY <2>1 DEF OwnerAt, Leaving, Holds, Sending
<1>6. OneSlot'
  BY <1>2 DEF OneSlot
<1>7. \A u \in Thread : Holds(app'[u]) => Holds(app[u]) /\ app'[u].slot = app[u].slot
  OBVIOUS
<1>8. \A u \in Thread : Holds(app[u]) => Holds(app'[u]) /\ app'[u].slot = app[u].slot
  OBVIOUS
<1>9. OneThread'
  BY <1>7 DEF OneThread
<1>10. Accounted'
  BY <1>2, <1>8 DEF Accounted
<1>11. Plain'
  <2>1. \A o \in Obj : In(app[t].slot, o) => o <= opened
    BY <1>1 DEF Accounted
  <2>2. ASSUME NEW o \in est' PROVE o \in 1 .. opened
    <3>1. o \in est => o \in 1 .. opened
      BY DEF Plain
    <3>2. opened \in Nat /\ MaxOpens \in Nat
      BY TableAssumption DEF Always, TableTyped
    <3>3. ASSUME o \in Obj, In(app[t].slot, o) PROVE o \in 1 .. opened
      <4>1. o <= opened
        BY <2>1, <3>3
      <4>2. o \in 1 .. MaxOpens
        BY <3>3 DEF Obj
      <4> QED
        BY <4>1, <4>2, <3>2
    <3> QED
      BY <3>1, <3>3
  <2> QED
    BY <2>2 DEF Plain
<1> QED
  BY <1>3, <1>4, <1>5, <1>6, <1>9, <1>10, <1>11

\* The slots of the other threads keep their buffers; the buffer of the control
\* session is that of a frame.
Untouched(t) ==
    \A u \in Thread \ {t} :
      /\ Holds(app[u]) => /\ ackHeap'[app[u].slot] = ackHeap[app[u].slot]
                          /\ fpgaAck'[app[u].slot] = fpgaAck[app[u].slot]
                          /\ heap'[app[u].slot] = heap[app[u].slot]
      /\ app[u].pc = "wcPayload" => wcDesc' = wcDesc
IsFrame(b) == b.size = 1 /\ b.len = 1 /\ b.csum = <<>>
FrameKept == IsFrame(heap[CONTROL_SESS_ID]) => IsFrame(heap'[CONTROL_SESS_ID])

LEMMA BuffersOthers ==
    ASSUME AckInv, PacketInv, NEW t \in Thread, \A u \in Thread \ {t} : app'[u] = app[u],
           Untouched(t), FrameKept
    PROVE  \A u \in Thread \ {t} : AckAt(u)' /\ BufferAt(u)'
<1> SUFFICES ASSUME NEW u \in Thread \ {t} PROVE AckAt(u)' /\ BufferAt(u)'
  OBVIOUS
<1>1. AckAt(u) /\ BufferAt(u) /\ app'[u] = app[u]
  BY DEF AckInv, PacketInv
<1>2. AckAt(u)'
  <2>1. Sending(app[u]) \/ app[u].pc \in {"syn", "synSent"} => Holds(app[u])
    BY DEF Sending, Holds, Starting
  <2> QED
    BY <1>1, <2>1 DEF AckAt, Untouched, Sending
<1>3. BufferAt(u)'
  <2>1. Sending(app[u]) \/ Looking(app[u])
        \/ app[u].pc \in {"synSent", "conn", "hdr", "payload", "wcPayload"} => Holds(app[u])
    BY DEF Sending, Looking, Holds, Starting
  <2>2. Holds(app[u]) => heap'[app[u].slot] = heap[app[u].slot]
    BY DEF Untouched
  <2>3. app[u].pc = "wcPayload" => wcDesc' = wcDesc
    BY DEF Untouched
  <2> QED
    BY <1>1, <2>1, <2>2, <2>3 DEF BufferAt, Sending, Looking, FrameKept, IsFrame
<1> QED
  BY <1>2, <1>3

\* A step of a thread that keeps its slot and leaves the table as it is.
LEMMA AloneBuf ==
    ASSUME Always, Alone, NEW t \in Thread, \A u \in Thread \ {t} : app'[u] = app[u],
           Holds(app[t]), Holds(app'[t]), app'[t].slot = app[t].slot, OwnerAt(t)', AckAt(t)',
           BufferAt(t)', UNCHANGED <<tableVars, est, fatal>>, leaked \subseteq leaked', ~torn',
           Untouched(t), FrameKept, Fed',
           \A s \in Slot : tcpSess[s] \in est => fpgaAck'[s] = tcpSess[s]
    PROVE  Alone'
<1> USE DEF Alone
<1>1. TableInv'
  BY TableMove
<1>2. \A u \in Thread : AckAt(u)' /\ BufferAt(u)'
  BY BuffersOthers
<1>3. AckInv' /\ PacketInv'
  BY <1>2 DEF AckInv, PacketInv
<1> QED
  BY <1>1, <1>3

LEMMA AloneMove ==
    ASSUME Always, Alone, NEW t \in Thread, AppMove(t),
           Holds(app[t]), Holds(app'[t]), app'[t].slot = app[t].slot, OwnerAt(t)', AckAt(t)',
           BufferAt(t)', UNCHANGED <<tableVars, bufVars, wcVars, servVars, est, fatal>>,
           leaked \subseteq leaked'
    PROVE  Alone'
<1>1. Untouched(t) /\ FrameKept
  BY DEF Untouched, FrameKept, IsFrame
<1>2. Fed' /\ ~torn'
  BY DEF Alone, Fed, Count, PacketInv
<1>3. \A s \in Slot : tcpSess[s] \in est => fpgaAck'[s] = tcpSess[s]
  BY DEF Alone, AckInv
<1>4. \A u \in Thread \ {t} : app'[u] = app[u]
  BY DEF AppMove
<1> QED
  BY <1>1, <1>2, <1>3, <1>4, AloneBuf

\* Nothing but the reason of the end changes.
LEMMA Dies ==
    ASSUME SessInv, NEW why, Die(why), why \in {"alreadySet", "noControl"} => raced
    PROVE  SessInv'
<1> USE DEF SessInv, Die
<1>1. raced \in BOOLEAN /\ (Overlap => raced)
  BY DEF Always, TableTyped
<1>2. Overlap' <=> Overlap
  BY DEF Overlap, InTable, InInit
<1>3. raced' \in BOOLEAN /\ (raced' <=> raced)
  BY <1>1, <1>2, Zenon DEF Track
<1>4. Always'
  <2>1. TableTyped' /\ BufTyped'
    BY <1>3 DEF Always, TableTyped, BufTyped
  <2>2. Paths' /\ Window'
    BY DEF Always, Paths, Path, Looking, Sending, Window
  <2> QED
    BY <2>1, <2>2, <1>1, <1>2, <1>3 DEF Always
<1>5. ServInv'
  BY DEF ServInv
<1>6. ASSUME ~raced' PROVE Alone'
  <2>1. Alone
    BY <1>3, <1>6
  <2>2. Control' /\ Fresh'
    BY <2>1 DEF Alone, TableInv, Control, ControlAt, Fresh, FreshAt, In
  <2>3. Owners'
    BY <2>1 DEF Alone, TableInv, Owners, OwnerAt, Leaving, Sending, Holds
  <2>4. OneSlot' /\ OneThread' /\ Accounted' /\ Plain'
    BY <2>1 DEF Alone, TableInv, OneSlot, OneThread, Accounted, Plain, In, Holds
  <2>5. AckInv'
    BY <2>1 DEF Alone, AckInv, AckAt, Sending
  <2>6. PacketInv'
    BY <2>1 DEF Alone, PacketInv, BufferAt, Sending, Looking
  <2>7. Fed'
    BY <2>1 DEF Alone, Fed, Count
  <2>8. fatal' \notin {"alreadySet", "noControl"}
    BY <1>3, <1>6
  <2> QED
    BY <2>2, <2>3, <2>4, <2>5, <2>6, <2>7, <2>8 DEF Alone, TableInv
<1> QED
  BY <1>4, <1>5, <1>6

----------------------------------------------------------------------------
(* Calls that look a session up, or go from one part to the next.           *)

HasHdr(r) == \/ r.pc \in {"synSent", "conn", "hdr", "payload"}
             \/ Looking(r) /\ r.ret = "hdr"
             \/ Sending(r) /\ r.ret \in {"synSent", "conn"}

\* The thread has its session, and is not sending, opening or closing.
Quiet == {"socket", "load", "follow", "bind", "failed", "conn", "hdr", "null"}

LEMMA CallMove ==
    ASSUME SessInv, NEW t \in Thread, NEW p \in Quiet \cup {"delete"}, NEW q, NEW x, NEW k, NEW h,
           Sets(t, p, app[t].sess, app[t].slot, q, x, k, h), app[t].pc \in Quiet, Track,
           Path(app'[t]), p = "delete" => h = "socketClose",
           HasHdr(app'[t]) => HasHdr(app[t]),
           UNCHANGED <<tableVars, bufVars, wcVars, servVars, est, sends, leaked, fatal>>
    PROVE  SessInv'
<1> USE DEF SessInv
<1>1. AppMove(t)
  BY DEF AppMove, Sets, Quiet
<1>2. Always' /\ (~raced' => ~raced /\ ~Overlap /\ ~Overlap')
  BY <1>1, AlwaysApp DEF Always, TableTyped
<1>3. ServInv'
  BY DEF ServInv
<1>4. ASSUME ~raced' PROVE Alone'
  <2>1. Alone /\ OwnerAt(t) /\ BufferAt(t)
    BY <1>2, <1>4 DEF Alone, TableInv, Owners, PacketInv
  <2>2. Holds(app[t]) /\ Holds(app'[t]) /\ app'[t].slot = app[t].slot
    BY DEF Sets, Holds, Starting, Quiet
  <2>3. ~Leaving(app[t]) /\ ~Leaving(app'[t])
    BY DEF Sets, Leaving, Quiet, Sending
  <2>4. OwnerAt(t)'
    BY <2>1, <2>2, <2>3 DEF OwnerAt, Sets, Quiet
  <2>5. AckAt(t)'
    BY DEF AckAt, Sets, Quiet, Sending
  <2>6. BufferAt(t)'
    <3>1. HasHdr(app'[t]) => heap'[app'[t].slot].hdr = app'[t].sess
      BY <2>1, <2>2 DEF HasHdr, BufferAt, Sets
    <3>2. app'[t].pc \notin {"payload", "wcDesc", "wcPayload"}
      BY DEF Sets, Quiet
    <3> QED
      BY <3>1, <3>2 DEF BufferAt, HasHdr, Sending
  <2> QED
    BY <1>1, <2>1, <2>2, <2>4, <2>5, <2>6, AloneMove
<1> QED
  BY <1>2, <1>3, <1>4

LEMMA FindMove ==
    ASSUME SessInv, NEW t \in Thread, NEW x \in {"bind", "hdr", "null", "delete"},
           NEW h \in {"none", "socketClose"}, Find(t, x, h), Track,
           app[t].pc \in {"socket", "failed", "conn"}, x = "delete" <=> h = "socketClose",
           x = "hdr" => app[t].pc = "conn",
           UNCHANGED <<tableVars, bufVars, wcVars, servVars, est, sends, leaked, fatal>>
    PROVE  SessInv'
<1>1. Sets(t, "load", app[t].sess, app[t].slot, app[t].ptr, x, app[t].kind, h)
  BY SetsFind DEF SessInv, Always, Steps, Rets
<1>2. Path(app'[t])
  BY <1>1 DEF Sets, Path, Looking, Sending
<1>3. HasHdr(app'[t]) => HasHdr(app[t])
  BY <1>1 DEF Sets, HasHdr, Looking, Sending
<1> QED
  BY <1>1, <1>2, <1>3, CallMove DEF Quiet

LEMMA CallFinds ==
    ASSUME SessInv, NEW t \in Thread,
           ExcConnect(t) \/ TcpSend(t) \/ CloseSock(t) \/ ExcSocketClose(t)
    PROVE  SessInv'
<1>1. CASE ExcConnect(t)
  BY <1>1, FindMove DEF ExcConnect, At
<1>2. CASE TcpSend(t)
  BY <1>2, FindMove DEF TcpSend, At
<1>3. CASE CloseSock(t)
  BY <1>3, FindMove DEF CloseSock, At
<1>4. CASE ExcSocketClose(t)
  BY <1>4, FindMove DEF ExcSocketClose, At
<1> QED
  BY <1>1, <1>2, <1>3, <1>4

LEMMA CallExc ==
    ASSUME SessInv, NEW t \in Thread, ExcSend(t) \/ ExcClose(t)
    PROVE  SessInv'
<1>1. app[t].pc = "conn" /\ Track /\ TableTyped /\ Path(app[t])
      /\ UNCHANGED <<tableVars, bufVars, wcVars, servVars, est, sends, leaked, fatal>>
  BY DEF ExcSend, ExcClose, At, SessInv, Always, Paths
<1>2. CASE ExcSend(t)
  <2>1. Sets(t, "hdr", app[t].sess, app[t].slot, app[t].ptr, app[t].ret, app[t].kind, app[t].how)
    BY <1>1, <1>2, SetsGoto DEF ExcSend, Steps, Pcs
  <2>2. Path(app'[t]) /\ HasHdr(app[t])
    BY <1>1, <2>1 DEF Sets, Path, Looking, Sending, HasHdr
  <2> QED
    BY <1>1, <2>1, <2>2, CallMove DEF Quiet
<1>3. CASE ExcClose(t)
  <2>1. Sets(t, "null", app[t].sess, app[t].slot, app[t].ptr, "none", app[t].kind, app[t].how)
    BY <1>1, <1>3, SetsClose DEF ExcClose, Steps
  <2>2. Path(app'[t]) /\ HasHdr(app[t])
    BY <1>1, <2>1 DEF Sets, Path, Looking, Sending, HasHdr
  <2> QED
    BY <1>1, <2>1, <2>2, CallMove DEF Quiet
<1> QED
  BY <1>2, <1>3

LEMMA CallLoad ==
    ASSUME SessInv, NEW t \in Thread, Load(t)
    PROVE  SessInv'
<1>1. app[t].pc = "load" /\ Track /\ TableTyped /\ Path(app[t])
      /\ UNCHANGED <<tableVars, bufVars, wcVars, servVars, est, sends, leaked, fatal>>
  BY DEF Load, At, SessInv, Always, Paths
<1>2. PICK p \in {"load", "follow"}, o \in Obj \cup {NULL} :
        Sets(t, p, app[t].sess, app[t].slot, o, app[t].ret, app[t].kind, app[t].how)
  BY <1>1, SetsLoad
<1>3. Path(app'[t]) /\ (HasHdr(app'[t]) => HasHdr(app[t]))
  BY <1>1, <1>2 DEF Sets, Path, Looking, Sending, HasHdr
<1> QED
  BY <1>1, <1>2, <1>3, CallMove DEF Quiet

LEMMA CallFollow ==
    ASSUME SessInv, NEW t \in Thread, Follow(t)
    PROVE  SessInv'
<1>1. CASE app[t].ptr \notin live
  BY <1>1, Dies DEF Follow
<1>2. CASE app[t].ptr \in live
  <2>1. app[t].pc = "follow" /\ Track /\ TableTyped /\ Paths /\ Path(app[t])
        /\ UNCHANGED <<tableVars, bufVars, wcVars, servVars, est, sends, leaked, fatal>>
    BY <1>2 DEF Follow, At, SessInv, Always, Paths
  <2>2. PICK p \in {"load", app[t].ret} :
          Sets(t, p, app[t].sess, app[t].slot, NULL, app[t].ret, app[t].kind, app[t].how)
    BY <1>2, <2>1, SetsFollow
  <2>3. /\ p \in {"load", "bind", "hdr", "null", "delete"}
        /\ p = "delete" => app[t].how = "socketClose"
        /\ app[t].how = "socketClose" => p \in {"load", "delete"}
    BY <2>1 DEF Path, Looking
  <2>4. Path(app'[t])
    BY <2>1, <2>2, <2>3 DEF Sets, Path, Looking, Sending
  <2>5. HasHdr(app'[t]) => HasHdr(app[t])
    BY <2>1, <2>2, <2>3 DEF Sets, HasHdr, Looking, Sending, Path
  <2> QED
    BY <2>1, <2>2, <2>3, <2>4, <2>5, CallMove DEF Quiet
<1> QED
  BY <1>1, <1>2

\* The thread gives its session up.
LEMMA GiveUp ==
    ASSUME SessInv, NEW t \in Thread, Ends(t), leaked' = leaked \cup {app[t].sess}, Track,
           app[t].pc \in Quiet \cup {"synSent"},
           UNCHANGED <<tableVars, bufVars, wcVars, servVars, est, sends, fatal>>
    PROVE  SessInv'
<1> USE DEF SessInv
<1>1. AppMove(t)
  BY DEF AppMove, Ends, Sets, Quiet, Path, Looking, Sending
<1>2. Always' /\ (~raced' => ~raced /\ ~Overlap /\ ~Overlap')
  BY <1>1, AlwaysApp DEF Always, TableTyped
<1>3. ServInv'
  BY DEF ServInv
<1>4. ASSUME ~raced' PROVE Alone'
  <2>1. Alone /\ TableInv /\ OwnerAt(t)
    BY <1>2, <1>4 DEF Alone, TableInv, Owners
  <2>2. /\ app'[t].pc = "idle" /\ app'[t].sess = NULL /\ ~Holds(app'[t])
        /\ \A u \in Thread \ {t} : app'[u] = app[u]
    BY DEF Ends, Sets, Holds, Starting
  <2>3. Holds(app[t]) /\ ~Leaving(app[t]) /\ app[t].pc # "nullAfter" /\ app[t].pc # "reread"
        /\ app[t].slot \in Slot /\ app[t].sess \in Obj \cup {NULL}
    BY DEF Quiet, Holds, Starting, Leaving, Sending, Always, TableTyped, AppRec
  <2>4. tcpSess[app[t].slot] = app[t].sess /\ a_[app[t].slot] = app[t].sess
    BY <2>1, <2>3 DEF OwnerAt
  <2>5. \A s \in Slot : \A o : In(s, o)' <=> In(s, o)
    BY DEF In
  <2>6. Control'
    <3>1. \A u \in Thread : app[u].pc = "control" => app'[u].pc = "control"
      BY <2>2, <2>3 DEF Holds, Starting
    <3>2. \A u \in Thread : ControlAt(u)'
      BY <2>1, <2>2 DEF TableInv, Control, ControlAt
    <3> QED
      BY <2>1, <3>1, <3>2 DEF TableInv, Control
  <2>7. Fresh'
    BY <2>1, <2>2, <2>5 DEF TableInv, Fresh, FreshAt, Starting
  <2>8. Owners'
    BY <2>1, <2>2 DEF TableInv, Owners, OwnerAt, Leaving, Sending, Holds
  <2>9. OneSlot' /\ Plain'
    BY <2>1, <2>5 DEF TableInv, OneSlot, Plain
  <2>10. OneThread'
    BY <2>1, <2>2 DEF TableInv, OneThread
  <2>11. Accounted'
    <3> SUFFICES ASSUME NEW s \in Slot, NEW o \in Obj, In(s, o)
                 PROVE  /\ o <= opened
                        /\ \/ tcpSess[s] = o /\ a_[s] = o /\ o \in leaked'
                           \/ \E u \in Thread : Holds(app'[u]) /\ app'[u].slot = s
      BY <2>5 DEF Accounted
    <3>1. o <= opened /\ (\/ tcpSess[s] = o /\ a_[s] = o /\ o \in leaked
                          \/ \E u \in Thread : Holds(app[u]) /\ app[u].slot = s)
      BY <2>1 DEF TableInv, Accounted
    <3>2. CASE s = app[t].slot
      BY <3>1, <3>2, <2>4 DEF In
    <3>3. CASE s # app[t].slot
      BY <3>1, <3>3, <2>2
    <3> QED
      BY <3>2, <3>3
  <2>12. \A u \in Thread \ {t} : AckAt(u)' /\ BufferAt(u)'
    <3>1. Untouched(t) /\ FrameKept
      BY DEF Untouched, FrameKept, IsFrame
    <3> QED
      BY <2>1, <2>2, <3>1, BuffersOthers DEF Alone
  <2>13. AckAt(t)' /\ BufferAt(t)'
    BY <2>2 DEF AckAt, BufferAt, Sending, Looking
  <2>14. AckInv' /\ PacketInv' /\ Fed'
    BY <2>1, <2>12, <2>13 DEF Alone, AckInv, PacketInv, Fed, Count
  <2> QED
    BY <2>1, <2>6, <2>7, <2>8, <2>9, <2>10, <2>11, <2>14 DEF Alone, TableInv
<1> QED
  BY <1>2, <1>3, <1>4

LEMMA CallNotFound ==
    ASSUME SessInv, NEW t \in Thread, NotFound(t)
    PROVE  SessInv'
<1>1. Ends(t)
  BY SetsInit DEF NotFound, SessInv, Always
<1> QED
  BY <1>1, GiveUp DEF NotFound, At, Quiet

LEMMA CallRefused ==
    ASSUME SessInv, NEW t \in Thread, ConnectNoArp(t) \/ Refused(t)
    PROVE  SessInv'
<1>1. app[t].pc \in {"bind", "synSent"} /\ Track /\ Refuse(t) /\ TableTyped /\ Path(app[t])
      /\ UNCHANGED <<tableVars, bufVars, wcVars, servVars, est, sends, fatal>>
  BY DEF ConnectNoArp, Refused, At, SessInv, Always, Paths
<1>2. CASE leaked' = leaked \cup {app[t].sess} /\ Ends(t)
  BY <1>1, <1>2, GiveUp DEF Quiet
<1>3. CASE leaked' = leaked /\ Steps(t, "failed", app[t].ret, app[t].kind, app[t].how)
  <2> USE DEF SessInv
  <2>1. AppMove(t)
    BY <1>1, <1>3 DEF AppMove, Steps, Sets, Path, Looking, Sending
  <2>2. Always' /\ (~raced' => ~raced /\ ~Overlap /\ ~Overlap')
    BY <1>1, <2>1, AlwaysApp DEF Always, TableTyped
  <2>3. ServInv'
    BY <1>1 DEF ServInv
  <2>4. ASSUME ~raced' PROVE Alone'
    <3>1. Alone /\ OwnerAt(t)
      BY <2>2, <2>4 DEF Alone, TableInv, Owners
    <3>2. Holds(app[t]) /\ Holds(app'[t]) /\ app'[t].slot = app[t].slot
      BY <1>1, <1>3 DEF Steps, Sets, Holds, Starting
    <3>3. ~Leaving(app[t]) /\ ~Leaving(app'[t])
      BY <1>1, <1>3 DEF Steps, Sets, Leaving, Sending
    <3>4. OwnerAt(t)'
      BY <1>1, <1>3, <3>1, <3>2, <3>3 DEF OwnerAt, Steps, Sets
    <3>5. AckAt(t)' /\ BufferAt(t)'
      BY <1>3 DEF AckAt, BufferAt, Steps, Sets, Sending, Looking
    <3> QED
      BY <1>1, <1>3, <2>1, <3>1, <3>2, <3>4, <3>5, AloneMove
  <2> QED
    BY <2>2, <2>3, <2>4
<1> QED
  BY <1>1, <1>2, <1>3, SetsRefuse

LEMMA CallReread ==
    ASSUME SessInv, NEW t \in Thread, RereadSock(t)
    PROVE  SessInv'
<1> USE DEF SessInv
<1> DEFINE o == tcpSess[app[t].slot]
           p == IF app[t].api = "exc" THEN "socket" ELSE "load"
<1>1. CASE o \notin live
  BY <1>1, Dies DEF RereadSock
<1>2. CASE o \in live
  <2>1. app[t].pc = "reread" /\ Track /\ TableTyped /\ Path(app[t])
        /\ UNCHANGED <<tableVars, bufVars, wcVars, servVars, est, sends, leaked, fatal>>
        /\ app' = [app EXCEPT ![t].sess = o, ![t].pc = p, ![t].i = 0, ![t].ret = "bind"]
    BY <1>2 DEF RereadSock, At, Always, Paths
  <2>2. o \in Obj \cup {NULL} /\ p \in {"socket", "load"}
    BY <2>1 DEF TableTyped, AppRec
  <2> HIDE DEF o, p
  <2>3. Sets(t, p, o, app[t].slot, app[t].ptr, "bind", app[t].kind, app[t].how)
    BY <2>1, <2>2, SetsReread DEF Pcs
  <2>4. AppMove(t)
    BY <2>1, <2>2, <2>3 DEF AppMove, Sets, Path, Looking, Sending
  <2>5. Always' /\ (~raced' => ~raced /\ ~Overlap /\ ~Overlap')
    BY <2>1, <2>4, AlwaysApp DEF Always, TableTyped
  <2>6. ServInv'
    BY <2>1 DEF ServInv
  <2>7. ASSUME ~raced' PROVE Alone'
    <3>1. Alone /\ OwnerAt(t)
      BY <2>5, <2>7 DEF Alone, TableInv, Owners
    <3>2. Holds(app[t]) /\ Holds(app'[t]) /\ app'[t].slot = app[t].slot
      BY <2>1, <2>2, <2>3 DEF Sets, Holds, Starting
    <3>3. ~Leaving(app'[t])
      BY <2>2, <2>3 DEF Sets, Leaving, Sending
    <3>4. OwnerAt(t)'
      BY <2>1, <2>2, <2>3, <3>1, <3>2, <3>3 DEF OwnerAt, Sets, o
    <3>5. AckAt(t)' /\ BufferAt(t)'
      BY <2>2, <2>3 DEF AckAt, BufferAt, Sets, Sending, Looking
    <3> QED
      BY <2>1, <2>4, <3>1, <3>2, <3>4, <3>5, AloneMove
  <2> QED
    BY <2>5, <2>6, <2>7
<1> QED
  BY <1>1, <1>2

----------------------------------------------------------------------------
(* Opening a session.                                                       *)

LEMMA StartMove ==
    ASSUME Always, Alone, NEW t \in Thread, AppMove(t),
           ~Holds(app[t]), ~Holds(app'[t]), OwnerAt(t)', Control', Fresh',
           UNCHANGED <<tcpSess, controlTcpSess, bufVars, wcVars, servVars, est, leaked, fatal>>,
           \A s \in Slot : a_'[s] = a_[s], live \subseteq live', opened' \in Nat, opened <= opened'
    PROVE  Alone'
<1> USE DEF Alone, TableInv
<1>1. \A u \in Thread \ {t} : app'[u] = app[u]
  BY DEF AppMove
<1>2. \A u \in Thread : app[u].slot \in Slot
  BY DEF Always, TableTyped, AppRec
<1>3. \A s \in Slot : \A o : In(s, o)' <=> In(s, o)
  BY DEF In
<1>4. Owners'
  <2> SUFFICES ASSUME NEW u \in Thread \ {t} PROVE OwnerAt(u)'
    BY DEF Owners
  <2>1. OwnerAt(u) /\ app'[u] = app[u]
    BY <1>1 DEF Owners
  <2> QED
    BY <1>2, <2>1 DEF OwnerAt, Leaving, Sending, Holds
<1>5. OneSlot'
  BY <1>3 DEF OneSlot
<1>6. OneThread'
  BY <1>1 DEF OneThread
<1>7. Accounted'
  <2> SUFFICES ASSUME NEW s \in Slot, NEW o \in Obj, In(s, o)
               PROVE  /\ o <= opened'
                      /\ \/ tcpSess[s] = o /\ a_'[s] = o /\ o \in leaked
                         \/ \E u \in Thread : Holds(app'[u]) /\ app'[u].slot = s
    BY <1>3 DEF Accounted
  <2>1. o <= opened /\ (\/ tcpSess[s] = o /\ a_[s] = o /\ o \in leaked
                        \/ \E u \in Thread : Holds(app[u]) /\ app[u].slot = s)
    BY DEF Accounted
  <2>2. o <= opened'
    BY <2>1, TableAssumption DEF Obj, Always, TableTyped
  <2> QED
    BY <1>1, <2>1, <2>2
<1>8. Plain'
  <2>1. est' \subseteq 1 .. opened'
    BY DEF Plain, Always, TableTyped
  <2> QED
    BY <2>1 DEF Plain
<1>9. \A u \in Thread \ {t} : AckAt(u)' /\ BufferAt(u)'
  <2>1. Untouched(t) /\ FrameKept
    BY DEF Untouched, FrameKept, IsFrame
  <2> QED
    BY <1>1, <2>1, BuffersOthers
<1>10. AckAt(t)' /\ BufferAt(t)'
  BY DEF AckAt, BufferAt, Sending, Looking, Holds, Starting
<1>11. AckInv' /\ PacketInv' /\ Fed'
  BY <1>9, <1>10 DEF AckInv, PacketInv, Fed, Count
<1> QED
  BY <1>4, <1>5, <1>6, <1>7, <1>8, <1>11

LEMMA CallOpen ==
    ASSUME SessInv, NEW t \in Thread, Open(t)
    PROVE  SessInv'
<1> USE DEF SessInv
<1>1. /\ app[t].pc = "idle" /\ Track /\ TableTyped /\ opened' = opened + 1 /\ opened < MaxOpens
      /\ UNCHANGED <<pLwipNetIf, tcpSess, a_, live, controlTcpSess, bufVars, wcVars, servVars,
                     est, sends, leaked, fatal>>
  BY DEF Open, At, Always
<1>2. PICK x \in Apis :
        Sets(t, IF pLwipNetIf THEN AfterInit(x) ELSE "initTcp", NULL, 0, opened + 1,
             "none", "none", "none")
  BY <1>1, SetsOpen
<1> DEFINE p == IF pLwipNetIf THEN AfterInit(x) ELSE "initTcp"
<1>3. p \in {"initTcp", "lock", "getFree"} /\ (p = "initTcp" <=> ~pLwipNetIf)
  BY DEF AfterInit
<1>4. Sets(t, p, NULL, 0, opened + 1, "none", "none", "none")
  BY <1>2
<1> HIDE DEF p
<1>5. AppMove(t)
  BY <1>1, <1>3, <1>4 DEF AppMove, Sets, Path, Looking, Sending
<1>6. opened' \in 0 .. MaxOpens /\ opened' \in Nat /\ opened <= opened' /\ opened \in Nat
  BY <1>1, TableAssumption DEF TableTyped
<1>7. Always' /\ (~raced' => ~raced /\ ~Overlap /\ ~Overlap')
  BY <1>1, <1>5, <1>6, AlwaysApp DEF TableTyped
<1>8. ServInv'
  BY <1>1 DEF ServInv
<1>9. ASSUME ~raced' PROVE Alone'
  <2>1. Alone /\ TableInv
    BY <1>7, <1>9 DEF Alone
  <2>2. ~Holds(app[t]) /\ ~Holds(app'[t]) /\ \A u \in Thread \ {t} : app'[u] = app[u]
    BY <1>1, <1>3, <1>4 DEF Sets, Holds, Starting
  <2>3. OwnerAt(t)'
    BY <1>3, <1>4, <2>2 DEF OwnerAt, Sets
  <2>4. Control'
    <3>1. \A u \in Thread : app[u].pc = "control" => u # t /\ app'[u].pc = "control"
      BY <1>1, <2>2
    <3>2. ASSUME p \in {"lock", "getFree"} PROVE Ctl \in live
      <4>1. \A u \in Thread : app[u].pc # "control"
        BY <1>4, <1>7, <1>9, <3>1, <3>2 DEF Overlap, InInit, Sets
      <4> QED
        BY <1>3, <2>1, <3>2, <4>1 DEF TableInv, Control
    <3>3. ControlAt(t)'
      BY <1>1, <1>3, <1>4, <3>2 DEF ControlAt, Sets
    <3>4. \A u \in Thread \ {t} : ControlAt(u)'
      BY <1>1, <2>1, <2>2 DEF TableInv, Control, ControlAt
    <3> QED
      BY <1>1, <2>1, <3>1, <3>3, <3>4 DEF TableInv, Control
  <2>5. Fresh'
    <3>1. \A s \in Slot : ~In(s, opened + 1)
      <4> SUFFICES ASSUME NEW s \in Slot, In(s, opened + 1) PROVE FALSE
        OBVIOUS
      <4>1. opened + 1 \in Obj
        BY <1>1, <1>6, TableAssumption DEF Obj
      <4>2. opened + 1 <= opened
        BY <2>1, <4>1 DEF TableInv, Accounted
      <4> QED
        BY <4>2, <1>6
    <3>2. opened + 1 \notin est /\ opened + 1 \in 1 .. opened'
      BY <1>1, <1>6, <2>1 DEF TableInv, Plain
    <3>3. \A u \in Thread \ {t} : app[u].pc \in Starting =>
            app[u].ptr \in 1 .. opened /\ app[u].ptr # opened + 1
      BY <1>6, <2>1 DEF TableInv, Fresh, FreshAt
    <3>4. FreshAt(t)'
      BY <1>1, <1>4, <2>2, <3>1, <3>2, <3>3 DEF FreshAt, Sets, In
    <3>5. ASSUME NEW u \in Thread \ {t} PROVE FreshAt(u)'
      <4>1. FreshAt(u) /\ app'[u] = app[u]
        BY <2>1, <2>2 DEF TableInv, Fresh
      <4>2. app[u].pc \in Starting => app[u].ptr \in 1 .. opened'
        BY <3>3, <1>6
      <4>3. \A v \in Thread \ {u} :
              app[u].pc \in Starting /\ app'[v].pc \in Starting => app'[v].ptr # app[u].ptr
        BY <1>4, <3>3, <2>2, <4>1 DEF FreshAt, Sets
      <4> QED
        BY <1>1, <4>1, <4>2, <4>3 DEF FreshAt, In
    <3> QED
      BY <3>4, <3>5 DEF Fresh
  <2> QED
    BY <1>1, <1>5, <1>6, <2>1, <2>2, <2>3, <2>4, <2>5, StartMove
<1> QED
  BY <1>7, <1>8, <1>9

LEMMA CallInitTcp ==
    ASSUME SessInv, NEW t \in Thread, InitTcp(t)
    PROVE  SessInv'
<1> USE DEF SessInv
<1>1. /\ app[t].pc = "initTcp" /\ Track /\ TableTyped /\ pLwipNetIf' = TRUE /\ Path(app[t])
      /\ UNCHANGED <<tcpSess, a_, live, controlTcpSess, opened, bufVars, wcVars, servVars,
                     est, sends, leaked, fatal>>
  BY DEF InitTcp, At, Always, Paths
<1>2. Sets(t, "control", app[t].sess, app[t].slot, app[t].ptr, app[t].ret, app[t].kind, app[t].how)
  BY <1>1, SetsGoto DEF InitTcp, Steps, Pcs
<1>3. AppMove(t)
  BY <1>1, <1>2 DEF AppMove, Sets, Path, Looking, Sending
<1>4. Always' /\ (~raced' => ~raced /\ ~Overlap /\ ~Overlap')
  BY <1>1, <1>3, AlwaysApp DEF TableTyped
<1>5. ServInv'
  BY <1>1 DEF ServInv
<1>6. ASSUME ~raced' PROVE Alone'
  <2>1. Alone /\ TableInv
    BY <1>4, <1>6 DEF Alone
  <2>2. /\ ~Holds(app[t]) /\ ~Holds(app'[t]) /\ \A u \in Thread \ {t} : app'[u] = app[u]
        /\ app[t].pc \in Starting /\ app'[t].pc = "control" /\ app'[t].ptr = app[t].ptr
    BY <1>1, <1>2 DEF Sets, Holds, Starting
  <2>3. OwnerAt(t)'
    BY <1>2, <2>1, <2>2 DEF TableInv, Owners, OwnerAt, Sets
  <2>4. Control'
    <3>1. \A u \in Thread \ {t} : app[u].pc \notin {"initTcp", "control"}
      BY <1>1, <1>4, <1>6 DEF Overlap, InInit
    <3>2. \A u \in Thread : ControlAt(u)'
      BY <1>1, <2>1, <2>2, <3>1 DEF TableInv, Control, ControlAt
    <3> QED
      BY <1>1, <2>1, <2>2, <3>2 DEF TableInv, Control
  <2>5. Fresh'
    BY <1>1, <2>1, <2>2 DEF TableInv, Fresh, FreshAt, In
  <2>6. opened' \in Nat /\ opened <= opened'
    BY <1>1 DEF TableTyped
  <2> QED
    BY <1>1, <1>3, <2>1, <2>2, <2>3, <2>4, <2>5, <2>6, StartMove
<1> QED
  BY <1>4, <1>5, <1>6

LEMMA CallLock ==
    ASSUME SessInv, NEW t \in Thread, SocketLock(t)
    PROVE  SessInv'
<1> USE DEF SessInv
<1>1. /\ app[t].pc = "lock" /\ Track /\ TableTyped /\ Path(app[t])
      /\ UNCHANGED <<tableVars, bufVars, wcVars, servVars, est, sends, leaked, fatal>>
  BY DEF SocketLock, At, Always, Paths
<1>2. Sets(t, "getFree", app[t].sess, app[t].slot, app[t].ptr, app[t].ret, app[t].kind, app[t].how)
  BY <1>1, SetsGoto DEF SocketLock, Steps, Pcs
<1>3. AppMove(t)
  BY <1>1, <1>2 DEF AppMove, Sets, Path, Looking, Sending
<1>4. Always' /\ (~raced' => ~raced /\ ~Overlap /\ ~Overlap')
  BY <1>1, <1>3, AlwaysApp DEF TableTyped
<1>5. ServInv'
  BY <1>1 DEF ServInv
<1>6. ASSUME ~raced' PROVE Alone'
  <2>1. Alone /\ TableInv
    BY <1>4, <1>6 DEF Alone
  <2>2. /\ ~Holds(app[t]) /\ ~Holds(app'[t]) /\ \A u \in Thread \ {t} : app'[u] = app[u]
        /\ app[t].pc \in Starting /\ app'[t].pc = "getFree" /\ app'[t].ptr = app[t].ptr
    BY <1>1, <1>2 DEF Sets, Holds, Starting
  <2>3. OwnerAt(t)'
    BY <1>2, <2>1, <2>2 DEF TableInv, Owners, OwnerAt, Sets
  <2>4. Control'
    BY <1>1, <2>1, <2>2 DEF TableInv, Control, ControlAt
  <2>5. Fresh'
    BY <1>1, <2>1, <2>2 DEF TableInv, Fresh, FreshAt, In
  <2>6. opened' \in Nat /\ opened <= opened'
    BY <1>1 DEF TableTyped
  <2> QED
    BY <1>1, <1>3, <2>1, <2>2, <2>3, <2>4, <2>5, <2>6, StartMove
<1> QED
  BY <1>4, <1>5, <1>6

LEMMA CallInitControl ==
    ASSUME SessInv, NEW t \in Thread, InitControl(t)
    PROVE  SessInv'
<1> USE DEF SessInv
<1>0. app[t].pc = "control" /\ TableTyped /\ Path(app[t])
  BY DEF InitControl, At, Always, Paths
<1>1. ~raced => Ctl \notin live /\ a_[CONTROL_SESS_ID] = NULL
  BY <1>0 DEF Alone, TableInv, Control, ControlAt
<1>2. CASE a_[CONTROL_SESS_ID] # NULL
  BY <1>1, <1>2, Dies DEF InitControl
<1>3. CASE a_[CONTROL_SESS_ID] = NULL
  <2> DEFINE p == AfterInit(app[t].api)
  <2>1. /\ a_' = [a_ EXCEPT ![CONTROL_SESS_ID] = Ctl] /\ live' = live \cup {Ctl}
        /\ Goto(t, p) /\ Track
        /\ UNCHANGED <<pLwipNetIf, tcpSess, controlTcpSess, opened, bufVars, wcVars, servVars,
                       est, sends, leaked, fatal>>
    BY <1>3 DEF InitControl
  <2>2. p \in {"lock", "getFree"}
    BY DEF AfterInit
  <2> HIDE DEF p
  <2>3. Sets(t, p, app[t].sess, app[t].slot, app[t].ptr, app[t].ret, app[t].kind, app[t].how)
    BY <1>0, <2>1, <2>2, SetsGoto DEF Steps, Pcs
  <2>4. AppMove(t)
    BY <1>0, <2>1, <2>2, <2>3 DEF AppMove, Sets, Path, Looking, Sending
  <2>5. a_' \in [0 .. CONTROL_SESS_ID -> Obj \cup {NULL, Ctl}]
    BY <1>0, <2>1 DEF TableTyped
  <2>6. raced' \in BOOLEAN
    BY <1>0, <2>1, TrackKeeps DEF TableTyped
  <2>7. TableTyped' /\ BufTyped'
    BY <2>1, <2>3, <2>5, <2>6 DEF Always, TableTyped, BufTyped, Sets
  <2>8. Always' /\ (~raced' => ~raced /\ ~Overlap /\ ~Overlap')
    BY <2>1, <2>4, <2>7, AlwaysMove
  <2>9. ServInv'
    BY <2>1 DEF ServInv
  <2>10. ASSUME ~raced' PROVE Alone'
    <3>1. Alone /\ TableInv
      BY <2>8, <2>10 DEF Alone
    <3>2. /\ ~Holds(app[t]) /\ ~Holds(app'[t]) /\ \A u \in Thread \ {t} : app'[u] = app[u]
          /\ app[t].pc \in Starting /\ app'[t].pc = p /\ app'[t].ptr = app[t].ptr
      BY <1>0, <2>2, <2>3 DEF Sets, Holds, Starting
    <3>3. OwnerAt(t)'
      BY <2>2, <2>3, <3>1, <3>2 DEF TableInv, Owners, OwnerAt, Sets
    <3>4. \A s \in Slot : a_'[s] = a_[s]
      BY <1>0, <2>1, TableAssumption DEF Slot, CONTROL_SESS_ID, TableTyped
    <3>5. Control'
      <4>1. \A u \in Thread \ {t} : app[u].pc \notin {"initTcp", "control"}
        BY <1>0, <2>8, <2>10 DEF Overlap, InInit
      <4>2. Ctl \in live'
        BY <2>1
      <4>3. \A u \in Thread : ControlAt(u)'
        BY <2>2, <3>2, <4>1, <4>2 DEF ControlAt
      <4>4. pLwipNetIf
        BY <1>0, <3>1 DEF TableInv, Control, ControlAt
      <4> QED
        BY <2>1, <4>2, <4>3, <4>4 DEF Control
    <3>6. Fresh'
      BY <2>1, <2>2, <3>1, <3>2, <3>4 DEF TableInv, Fresh, FreshAt, In, Starting
    <3>7. opened' \in Nat /\ opened <= opened'
      BY <1>0, <2>1 DEF TableTyped
    <3> QED
      BY <2>1, <2>4, <3>1, <3>2, <3>3, <3>4, <3>5, <3>6, <3>7, StartMove
  <2> QED
    BY <2>8, <2>9, <2>10
<1> QED
  BY <1>2, <1>3

\* Next to a thread in the table, no other thread has a slot that is clear.
LEMMA ClearIsFree ==
    ASSUME Always, TableInv, ~Overlap, NEW t \in Thread, InTable(t), NEW s \in Slot,
           tcpSess[s] = NULL
    PROVE  \A u \in Thread \ {t} : Holds(app[u]) => app[u].slot # s
<1> SUFFICES ASSUME NEW u \in Thread \ {t}, Holds(app[u]), app[u].slot = s PROVE FALSE
  OBVIOUS
<1>1. ~InTable(u)
  BY DEF Overlap
<1>2. OwnerAt(u)
  BY DEF TableInv, Owners
<1>3. Leaving(app[u])
  BY <1>2 DEF OwnerAt
<1> QED
  BY <1>1, <1>3 DEF Leaving, InTable, Sending

LEMMA CallGetFree ==
    ASSUME SessInv, NEW t \in Thread, GetFreeTcpSess(t)
    PROVE  SessInv'
<1> USE DEF SessInv
<1>1. CASE FreeSlots = {}
  BY <1>1, Dies DEF GetFreeTcpSess
<1>2. CASE FreeSlots # {}
  <2> DEFINE s == Min(FreeSlots)
  <2>1. /\ app[t].pc = "getFree" /\ Track /\ TableTyped /\ Path(app[t])
        /\ app' = [app EXCEPT ![t].slot = s, ![t].pc = "new"]
        /\ UNCHANGED <<tableVars, bufVars, wcVars, servVars, est, sends, leaked, fatal>>
    BY <1>2 DEF GetFreeTcpSess, At, Always, Paths
  <2>2. s \in FreeSlots
    <3>1. FreeSlots \subseteq Nat
      BY TableAssumption DEF FreeSlots, Slot
    <3>2. \E x \in FreeSlots : \A y \in FreeSlots : x <= y
      BY <1>2, <3>1, LeastNat
    <3> QED
      BY <3>2 DEF Min
  <2>3. s \in Slot /\ tcpSess[s] = NULL
    BY <2>2 DEF FreeSlots
  <2> HIDE DEF s
  <2>4. Sets(t, "new", app[t].sess, s, app[t].ptr, app[t].ret, app[t].kind, app[t].how)
    BY <2>1, <2>3, SetsGetFree
  <2>5. AppMove(t)
    BY <2>1, <2>4 DEF AppMove, Sets, Path, Looking, Sending
  <2>6. Always' /\ (~raced' => ~raced /\ ~Overlap /\ ~Overlap')
    BY <2>1, <2>5, AlwaysApp DEF TableTyped
  <2>7. ServInv'
    BY <2>1 DEF ServInv
  <2>8. ASSUME ~raced' PROVE Alone'
    <3>1. Alone /\ TableInv /\ ~Overlap
      BY <2>6, <2>8 DEF Alone
    <3>2. /\ ~Holds(app[t]) /\ ~Holds(app'[t]) /\ \A u \in Thread \ {t} : app'[u] = app[u]
          /\ app[t].pc \in Starting /\ app'[t].pc = "new" /\ app'[t].ptr = app[t].ptr
          /\ app'[t].pc \in Starting
      BY <2>1, <2>4 DEF Sets, Holds, Starting
    <3>3. a_[s] = NULL
      <4>1. a_[s] \in Obj \cup {NULL}
        BY <2>1, <2>3, <3>1, TableAssumption DEF TableTyped, TableInv, Plain, Slot, CONTROL_SESS_ID
      <4>2. InTable(t)
        BY <2>1 DEF InTable
      <4>3. \A u \in Thread : Holds(app[u]) => app[u].slot # s
        BY <2>3, <3>1, <3>2, <4>2, ClearIsFree
      <4>4. NULL \notin Obj
        BY TableAssumption DEF NULL, Obj
      <4> QED
        BY <2>3, <3>1, <4>1, <4>3, <4>4 DEF TableInv, Accounted, In
    <3>4. OwnerAt(t)'
      BY <2>1, <2>3, <2>4, <3>1, <3>2, <3>3 DEF TableInv, Owners, OwnerAt, Sets
    <3>5. Control'
      BY <2>1, <3>1, <3>2 DEF TableInv, Control, ControlAt
    <3>6. Fresh'
      <4>1. UNCHANGED <<tcpSess, a_, opened, est>>
        BY <2>1
      <4> QED
        BY <3>1, <3>2, <4>1 DEF TableInv, Fresh, FreshAt, In
    <3>7. opened' \in Nat /\ opened <= opened'
      BY <2>1 DEF TableTyped
    <3> QED
      BY <2>1, <2>5, <3>1, <3>2, <3>4, <3>5, <3>6, <3>7, StartMove
  <2> QED
    BY <2>6, <2>7, <2>8
<1> QED
  BY <1>1, <1>2

\* The buffers of new actions.
LEMMA BlankBuf ==
    ASSUME NEW o \in Obj \cup {NULL}
    PROVE  /\ Blank(o) \in BufRec /\ Blank(o).hdr = o
           /\ Frame(o) \in BufRec /\ IsFrame(Frame(o))
BY DEF Blank, Frame, BufRec, IsFrame, Bodies, Csums

LEMMA CallAdd ==
    ASSUME SessInv, NEW t \in Thread, AddTcpSess(t)
    PROVE  SessInv'
<1> USE DEF SessInv
<1> DEFINE s == app[t].slot
           o == app[t].ptr
<1>0. app[t].pc = "new" /\ TableTyped /\ Path(app[t]) /\ s \in Slot /\ o \in Obj \cup {NULL}
  BY DEF AddTcpSess, At, Always, Paths, TableTyped, AppRec
<1>1. ~raced => a_[s] = NULL /\ tcpSess[s] = NULL
  BY <1>0 DEF Alone, TableInv, Owners, OwnerAt
<1>2. CASE a_[s] # NULL
  BY <1>1, <1>2, Dies DEF AddTcpSess
<1>3. CASE a_[s] = NULL
  <2>1. /\ a_' = [a_ EXCEPT ![s] = o] /\ live' = live \cup {o}
        /\ controlTcpSess' = IF Ctl \in live THEN controlTcpSess \cup {o} ELSE controlTcpSess
        /\ heap' = [heap EXCEPT ![s] = Blank(NULL)] /\ ackHeap' = [ackHeap EXCEPT ![s] = NULL]
        /\ tcpSess' = [tcpSess EXCEPT ![s] = o]
        /\ app' = [app EXCEPT ![t].ptr = NULL, ![t].pc = "reread"] /\ Track
        /\ UNCHANGED <<pLwipNetIf, opened, wcVars, servVars, est, sends, leaked, fatal>>
    BY <1>3 DEF AddTcpSess
  <2>2. Sets(t, "reread", app[t].sess, s, NULL, app[t].ret, app[t].kind, app[t].how)
    BY <1>0, <2>1, SetsAdd
  <2> HIDE DEF s, o
  <2>3. AppMove(t)
    BY <1>0, <2>1, <2>2 DEF AppMove, Sets, Path, Looking, Sending
  <2>4. s \in 0 .. CONTROL_SESS_ID
    BY <1>0, TableAssumption DEF Slot, CONTROL_SESS_ID
  <2>5. TableTyped'
    <3>1. raced' \in BOOLEAN
      BY <1>0, <2>1, TrackKeeps DEF TableTyped
    <3>2. a_' \in [0 .. CONTROL_SESS_ID -> Obj \cup {NULL, Ctl}]
      BY <1>0, <2>1, <2>4 DEF TableTyped
    <3>3. tcpSess' \in [Slot -> Obj \cup {NULL}]
      BY <1>0, <2>1 DEF TableTyped
    <3> QED
      BY <1>0, <2>1, <2>2, <3>1, <3>2, <3>3 DEF TableTyped, Sets
  <2>6. BufTyped'
    <3>1. heap' \in [0 .. CONTROL_SESS_ID -> BufRec]
      BY <2>1, <2>4, BlankBuf DEF Always, BufTyped
    <3>2. ackHeap' \in [Slot -> Obj \cup {NULL}]
      BY <2>1, <1>0 DEF Always, BufTyped
    <3> QED
      BY <2>1, <3>1, <3>2 DEF Always, BufTyped
  <2>7. Always' /\ (~raced' => ~raced /\ ~Overlap /\ ~Overlap')
    BY <2>1, <2>3, <2>5, <2>6, AlwaysMove
  <2>8. ServInv'
    BY <2>1 DEF ServInv
  <2>9. ASSUME ~raced' PROVE Alone'
    <3>1. Alone /\ TableInv /\ ~Overlap /\ tcpSess[s] = NULL /\ FreshAt(t) /\ ControlAt(t)
          /\ OwnerAt(t)
      BY <1>1, <2>7, <2>9 DEF Alone, TableInv, Fresh, Control, Owners
    <3>2. /\ ~Holds(app[t]) /\ Holds(app'[t]) /\ \A u \in Thread \ {t} : app'[u] = app[u]
          /\ app'[t].pc = "reread" /\ app'[t].slot = s /\ app'[t].sess = NULL
      BY <1>0, <2>2, <3>1 DEF Sets, Holds, Starting, OwnerAt
    <3>3. \A u \in Thread \ {t} : ~InTable(u)
      BY <1>0, <3>1 DEF Overlap, InTable
    <3>4. \A u \in Thread \ {t} : Holds(app[u]) => app[u].slot # s
      <4>1. InTable(t)
        BY <1>0 DEF InTable
      <4> QED
        BY <1>0, <3>1, <4>1, ClearIsFree
    <3>5. o \in 1 .. opened /\ o \notin est /\ (\A r \in Slot : ~In(r, o)) /\ Ctl \in live
      BY <1>0, <3>1 DEF FreshAt, ControlAt, Starting, o
    <3>6. o \in Obj /\ o # NULL /\ o # Ctl /\ o <= opened
      BY <1>0, <3>5, TableAssumption DEF Obj, NULL, Ctl, TableTyped
    <3>7. /\ \A r \in Slot : tcpSess'[r] = IF r = s THEN o ELSE tcpSess[r]
          /\ \A r \in 0 .. CONTROL_SESS_ID : a_'[r] = IF r = s THEN o ELSE a_[r]
          /\ \A r \in Slot : r \in 0 .. CONTROL_SESS_ID
      BY <1>0, <2>1, TableAssumption DEF TableTyped, Slot, CONTROL_SESS_ID
    <3>8. \A r \in Slot : \A p : In(r, p)' <=> IF r = s THEN p = o ELSE In(r, p)
      BY <3>7 DEF In
    <3>9. Control'
      <4>1. \A u \in Thread : app[u].pc = "control" => app'[u].pc = "control"
        BY <1>0, <3>2
      <4>2. Ctl \in live'
        BY <2>1, <3>5
      <4>3. \A u \in Thread : ControlAt(u)'
        BY <2>1, <3>1, <3>2, <3>5, <4>2 DEF TableInv, Control, ControlAt
      <4>4. pLwipNetIf
        BY <3>1, <3>5 DEF TableInv, Control
      <4> QED
        BY <2>1, <4>2, <4>3, <4>4 DEF Control
    <3>10. Fresh'
      <4> SUFFICES ASSUME NEW u \in Thread, app'[u].pc \in Starting PROVE FreshAt(u)'
        BY DEF Fresh, FreshAt
      <4>1. u # t /\ app'[u] = app[u] /\ FreshAt(u) /\ app[u].pc \in Starting
        BY <3>1, <3>2 DEF TableInv, Fresh, Starting
      <4>2. app[u].ptr # o
        BY <1>0, <3>1, <4>1 DEF FreshAt, Starting, o
      <4>3. \A r \in Slot : ~In(r, app[u].ptr)'
        <5> SUFFICES ASSUME NEW r \in Slot PROVE ~In(r, app[u].ptr)'
          OBVIOUS
        <5>1. ~In(r, app[u].ptr)
          BY <4>1 DEF FreshAt
        <5> QED
          BY <3>8, <4>1, <4>2, <5>1 DEF In
      <4>4. \A v \in Thread \ {u} : app'[v].pc \in Starting => v # t
        BY <3>2 DEF Starting
      <4>5. \A v \in Thread \ {u} : app'[v].pc \in Starting => app'[v].ptr # app[u].ptr
        BY <3>2, <4>1, <4>4 DEF FreshAt
      <4>6. opened' = opened /\ est' = est
        BY <2>1
      <4> QED
        BY <4>1, <4>3, <4>5, <4>6 DEF FreshAt
    <3>11. Owners'
      <4>1. OwnerAt(t)'
        <5>1. tcpSess'[s] = o /\ a_'[s] = o /\ o \in live' /\ o \in controlTcpSess'
          BY <1>0, <2>1, <3>5, <3>7
        <5> QED
          BY <3>2, <3>6, <5>1 DEF OwnerAt
      <4>2. ASSUME NEW u \in Thread \ {t} PROVE OwnerAt(u)'
        <5>1. OwnerAt(u) /\ app'[u] = app[u] /\ app[u].slot \in Slot
          BY <1>0, <3>1, <3>2 DEF TableInv, Owners, TableTyped, AppRec
        <5>2. app[u].pc # "new"
          BY <3>3 DEF InTable
        <5>3. live \subseteq live' /\ controlTcpSess \subseteq controlTcpSess'
          BY <2>1
        <5>4. Holds(app[u]) => /\ tcpSess'[app[u].slot] = tcpSess[app[u].slot]
                               /\ a_'[app[u].slot] = a_[app[u].slot]
          BY <3>4, <3>7, <5>1
        <5>5. app[u].pc = "reread" => Holds(app[u])
          BY DEF Holds, Starting
        <5> QED
          BY <5>1, <5>2, <5>3, <5>4, <5>5 DEF OwnerAt
      <4> QED
        BY <4>1, <4>2 DEF Owners
    <3>12. OneSlot'
      BY <3>1, <3>5, <3>8 DEF TableInv, OneSlot
    <3>13. OneThread'
      BY <3>1, <3>2, <3>4 DEF TableInv, OneThread
    <3>14. Accounted'
      <4> SUFFICES ASSUME NEW r \in Slot, NEW p \in Obj, In(r, p)'
                   PROVE  /\ p <= opened
                          /\ \/ tcpSess'[r] = p /\ a_'[r] = p /\ p \in leaked
                             \/ \E u \in Thread : Holds(app'[u]) /\ app'[u].slot = r
        BY <2>1 DEF Accounted
      <4>1. CASE r = s
        BY <3>2, <3>6, <3>8, <4>1
      <4>2. CASE r # s
        <5>1. In(r, p)
          BY <3>8, <4>2
        <5>2. p <= opened /\ (\/ tcpSess[r] = p /\ a_[r] = p /\ p \in leaked
                              \/ \E u \in Thread : Holds(app[u]) /\ app[u].slot = r)
          BY <3>1, <5>1 DEF TableInv, Accounted
        <5> QED
          BY <3>2, <3>7, <4>2, <5>2
      <4> QED
        BY <4>1, <4>2
    <3>15. Plain'
      BY <2>1, <3>1, <3>6, <3>7 DEF TableInv, Plain
    <3>16. \A u \in Thread \ {t} : AckAt(u)' /\ BufferAt(u)'
      <4>1. s # CONTROL_SESS_ID
        BY <1>0, TableAssumption DEF Slot, CONTROL_SESS_ID
      <4>2. Untouched(t)
        BY <1>0, <2>1, <3>4 DEF Untouched, Always, BufTyped
      <4>3. FrameKept
        BY <2>1, <4>1 DEF FrameKept, Always, BufTyped
      <4> QED
        BY <3>1, <3>2, <4>2, <4>3, BuffersOthers DEF Alone
    <3>17. AckAt(t)' /\ BufferAt(t)'
      BY <3>2 DEF AckAt, BufferAt, Sending, Looking
    <3>18. AckInv' /\ PacketInv' /\ Fed'
      <4>1. \A r \in Slot : tcpSess'[r] \in est' => fpgaAck'[r] = tcpSess'[r]
        BY <2>1, <3>1, <3>5, <3>7 DEF Alone, AckInv
      <4> QED
        BY <2>1, <3>1, <3>16, <3>17, <4>1 DEF Alone, AckInv, PacketInv, Fed, Count
    <3> QED
      BY <2>1, <3>1, <3>9, <3>10, <3>11, <3>12, <3>13, <3>14, <3>15, <3>18 DEF Alone, TableInv
  <2> QED
    BY <2>7, <2>8, <2>9
<1> QED
  BY <1>2, <1>3

----------------------------------------------------------------------------
(* Connecting, and the buffers of the actions.                              *)

LEMMA CallBuf ==
    ASSUME SessInv, NEW t \in Thread, NEW p, NEW x, NEW k, NEW h, Steps(t, p, x, k, h), AppMove(t),
           heap' \in [0 .. CONTROL_SESS_ID -> BufRec], ackHeap' \in [Slot -> Obj \cup {NULL}],
           sends' \in Nat, FrameKept,
           \A s \in Slot \ {app[t].slot} : heap'[s] = heap[s] /\ ackHeap'[s] = ackHeap[s],
           UNCHANGED <<tableVars, wcVars, servVars, est, leaked, fatal>>,
           Holds(app[t]), Holds(app'[t]), app[t].pc \notin {"reread", "nullAfter"},
           p \notin {"reread", "nullAfter"}, Leaving(app'[t]) <=> Leaving(app[t]),
           ~raced => AckAt(t)' /\ BufferAt(t)'
    PROVE  SessInv'
<1> USE DEF SessInv
<1>1. raced' \in BOOLEAN
  BY TrackKeeps DEF AppMove, Always, TableTyped
<1>2. TableTyped' /\ BufTyped'
  BY <1>1 DEF Always, TableTyped, BufTyped, AppMove
<1>3. Always' /\ (~raced' => ~raced /\ ~Overlap /\ ~Overlap')
  BY <1>2, AlwaysMove
<1>4. ServInv'
  BY DEF ServInv
<1>5. ASSUME ~raced' PROVE Alone'
  <2>1. Alone /\ OwnerAt(t) /\ OneThread /\ ~raced
    BY <1>3, <1>5 DEF Alone, TableInv, Owners
  <2>2. /\ app'[t].slot = app[t].slot /\ app'[t].sess = app[t].sess /\ app'[t].pc = p
        /\ p # "new" /\ \A u \in Thread \ {t} : app'[u] = app[u]
    BY DEF Steps, Sets, Holds, Starting
  <2>3. OwnerAt(t)'
    <3>1. CASE Leaving(app[t])
      BY <2>1, <2>2, <3>1 DEF OwnerAt
    <3>2. CASE ~Leaving(app[t])
      BY <2>1, <2>2, <3>2 DEF OwnerAt
    <3> QED
      BY <3>1, <3>2
  <2>4. Untouched(t)
    <3>1. \A u \in Thread \ {t} : Holds(app[u]) => app[u].slot \in Slot \ {app[t].slot}
      BY <2>1 DEF OneThread, Always, TableTyped, AppRec
    <3> QED
      BY <3>1 DEF Untouched
  <2>5. Fed' /\ ~torn'
    BY <2>1 DEF Alone, Fed, Count, PacketInv
  <2>6. \A s \in Slot : tcpSess[s] \in est => fpgaAck'[s] = tcpSess[s]
    BY <2>1 DEF Alone, AckInv
  <2> QED
    BY <2>1, <2>2, <2>3, <2>4, <2>5, <2>6, AloneBuf
<1> QED
  BY <1>3, <1>4, <1>5

LEMMA CallConnect ==
    ASSUME SessInv, NEW t \in Thread, Connect(t)
    PROVE  SessInv'
<1> USE DEF SessInv
<1>1. /\ app[t].pc = "bind" /\ TableTyped /\ BufTyped /\ Path(app[t]) /\ Track
      /\ app' = [app EXCEPT ![t].pc = "wcDesc", ![t].kind = "preload", ![t].ret = "syn"]
      /\ ackHeap' = [ackHeap EXCEPT ![app[t].slot] = app[t].sess]
      /\ UNCHANGED <<tableVars, heap, wcVars, servVars, est, sends, leaked, fatal>>
  BY DEF Connect, At, Always, Paths
<1>2. Steps(t, "wcDesc", "syn", "preload", app[t].how)
  BY <1>1, SetsWc DEF Rets
<1>3. AppMove(t)
  BY <1>1, <1>2 DEF AppMove, Steps, Sets, Path, Looking, Sending
<1>4. app[t].slot \in Slot /\ app[t].sess \in Obj \cup {NULL}
  BY <1>1 DEF TableTyped, AppRec
<1>5. ackHeap' \in [Slot -> Obj \cup {NULL}] /\ ackHeap'[app[t].slot] = app[t].sess
      /\ \A s \in Slot \ {app[t].slot} : ackHeap'[s] = ackHeap[s]
  BY <1>1, <1>4 DEF BufTyped
<1>6. Holds(app[t]) /\ Holds(app'[t]) /\ ~Leaving(app[t]) /\ ~Leaving(app'[t])
  BY <1>1, <1>2 DEF Steps, Sets, Holds, Starting, Leaving, Sending
<1>7. AckAt(t)'
  BY <1>2, <1>5 DEF AckAt, Steps, Sets, Sending
<1>8. BufferAt(t)'
  BY <1>2 DEF BufferAt, Steps, Sets, Sending, Looking
<1>9. FrameKept /\ heap' \in [0 .. CONTROL_SESS_ID -> BufRec] /\ sends' \in Nat
      /\ \A s \in Slot \ {app[t].slot} : heap'[s] = heap[s]
  BY <1>1 DEF FrameKept, BufTyped, TableTyped
<1>10. UNCHANGED <<tableVars, wcVars, servVars, est, leaked, fatal>>
  BY <1>1
<1>11. \A s \in Slot \ {app[t].slot} : heap'[s] = heap[s] /\ ackHeap'[s] = ackHeap[s]
  BY <1>5, <1>9
<1>12. app[t].pc = "bind"
  BY <1>1
<1> QED
  BY <1>12, <1>2, <1>3, <1>5, <1>6, <1>7, <1>8, <1>9, <1>10, <1>11, CallBuf

LEMMA CallSendSyn ==
    ASSUME SessInv, NEW t \in Thread, SendSyn(t)
    PROVE  SessInv'
<1> USE DEF SessInv
<1>1. app[t].pc = "syn" /\ TableTyped /\ BufTyped /\ Path(app[t])
  BY DEF SendSyn, At, Always, Paths
<1>2. CASE app[t].sess \notin controlTcpSess
  <2>1. raced
    BY <1>1, <1>2 DEF Alone, TableInv, Owners, OwnerAt, Holds, Starting
  <2> QED
    BY <1>2, <2>1, Dies DEF SendSyn
<1>3. CASE app[t].sess \in controlTcpSess
  <2> DEFINE s == app[t].slot
             o == app[t].sess
  <2>1. /\ app' = [app EXCEPT ![t].pc = "wcDesc", ![t].kind = "full", ![t].ret = "synSent"]
        /\ heap' = [heap EXCEPT ![s] = Blank(o), ![CONTROL_SESS_ID] = Frame(o)] /\ Track
        /\ UNCHANGED <<tableVars, ackHeap, wcVars, servVars, est, sends, leaked, fatal>>
    BY <1>3 DEF SendSyn, LwipFrame
  <2>2. Steps(t, "wcDesc", "synSent", "full", app[t].how)
    BY <1>1, <2>1, SetsWc DEF Rets
  <2>3. s \in Slot /\ o \in Obj \cup {NULL}
    BY <1>1 DEF TableTyped, AppRec
  <2> HIDE DEF s, o
  <2>4. AppMove(t)
    BY <1>1, <2>1, <2>2 DEF AppMove, Steps, Sets, Path, Looking, Sending
  <2>5. /\ s \in 0 .. CONTROL_SESS_ID /\ CONTROL_SESS_ID \in 0 .. CONTROL_SESS_ID
        /\ s # CONTROL_SESS_ID /\ CONTROL_SESS_ID \notin Slot /\ Slot \subseteq 0 .. CONTROL_SESS_ID
    BY <2>3, TableAssumption DEF Slot, CONTROL_SESS_ID
  <2>6. Blank(o) \in BufRec /\ Blank(o).hdr = o /\ Frame(o) \in BufRec /\ IsFrame(Frame(o))
    BY <2>3, BlankBuf
  <2>7. /\ heap' \in [0 .. CONTROL_SESS_ID -> BufRec] /\ heap'[s] = Blank(o)
        /\ heap'[CONTROL_SESS_ID] = Frame(o)
        /\ \A r \in Slot \ {s} : heap'[r] = heap[r]
    BY <1>1, <2>1, <2>5, <2>6 DEF BufTyped
  <2>8. Holds(app[t]) /\ Holds(app'[t]) /\ ~Leaving(app[t]) /\ ~Leaving(app'[t])
    BY <1>1, <2>2 DEF Steps, Sets, Holds, Starting, Leaving, Sending
  <2>9. app'[t].pc = "wcDesc" /\ app'[t].ret = "synSent" /\ app'[t].kind = "full"
        /\ app'[t].slot = s /\ app'[t].sess = o
    BY <2>2 DEF Steps, Sets, s, o
  <2>10. ~raced => AckAt(t)'
    <3>1. ~raced => fpgaAck[s] = o
      BY <1>1 DEF Alone, AckInv, AckAt, s, o
    <3> QED
      BY <2>1, <2>9, <3>1 DEF AckAt, Sending
  <2>11. BufferAt(t)'
    BY <2>6, <2>7, <2>9 DEF BufferAt, Sending, Looking, IsFrame
  <2>12. FrameKept /\ ackHeap' \in [Slot -> Obj \cup {NULL}] /\ sends' \in Nat
         /\ \A r \in Slot \ {s} : ackHeap'[r] = ackHeap[r]
    BY <1>1, <2>1, <2>6, <2>7 DEF FrameKept, BufTyped, TableTyped
  <2>13. UNCHANGED <<tableVars, wcVars, servVars, est, leaked, fatal>>
    BY <2>1
  <2>14. \A r \in Slot \ {app[t].slot} : heap'[r] = heap[r] /\ ackHeap'[r] = ackHeap[r]
    BY <2>7, <2>12 DEF s
  <2> QED
    BY <1>1, <2>2, <2>4, <2>7, <2>8, <2>10, <2>11, <2>12, <2>13, <2>14, CallBuf
<1> QED
  BY <1>2, <1>3

LEMMA CallConnected ==
    ASSUME SessInv, NEW t \in Thread, Connected(t)
    PROVE  SessInv'
<1> USE DEF SessInv
<1> DEFINE o == app[t].sess
<1>1. /\ app[t].pc = "synSent" /\ TableTyped /\ Path(app[t]) /\ Track /\ est' = est \cup {o}
      /\ UNCHANGED <<tableVars, bufVars, wcVars, servVars, sends, leaked, fatal>>
  BY DEF Connected, At, Always, Paths
<1>2. Steps(t, "conn", app[t].ret, app[t].kind, app[t].how)
  BY <1>1, SetsGoto DEF Connected, Pcs
<1>3. AppMove(t)
  BY <1>1, <1>2 DEF AppMove, Steps, Sets, Path, Looking, Sending
<1>4. Always' /\ (~raced' => ~raced /\ ~Overlap /\ ~Overlap')
  BY <1>1, <1>3, AlwaysApp DEF TableTyped
<1>5. ServInv'
  BY <1>1 DEF ServInv
<1>6. ASSUME ~raced' PROVE Alone'
  <2>1. Alone /\ TableInv /\ OwnerAt(t) /\ AckAt(t) /\ BufferAt(t)
    BY <1>4, <1>6 DEF Alone, TableInv, Owners, AckInv, PacketInv
  <2>2. /\ Holds(app[t]) /\ Holds(app'[t]) /\ ~Leaving(app[t]) /\ ~Leaving(app'[t])
        /\ app'[t].slot = app[t].slot /\ app'[t].sess = o /\ app'[t].pc = "conn"
        /\ \A u \in Thread \ {t} : app'[u] = app[u]
    BY <1>1, <1>2 DEF Steps, Sets, Holds, Starting, Leaving, Sending
  <2>3. /\ app[t].slot \in Slot /\ o \in Obj /\ tcpSess[app[t].slot] = o
        /\ fpgaAck[app[t].slot] = o
    BY <1>1, <2>1, <2>2 DEF OwnerAt, AckAt, TableTyped, AppRec
  <2>4. OwnerAt(t)'
    BY <1>1, <2>1, <2>2 DEF OwnerAt
  <2>5. TableInv'
    <3>1. \A p \in est' : p \in est \/ (p \in Obj /\ In(app[t].slot, p))
      BY <1>1, <2>3 DEF In
    <3> QED
      BY <1>1, <2>1, <2>2, <2>4, <3>1, TableMove
  <2>6. \A u \in Thread \ {t} : AckAt(u)' /\ BufferAt(u)'
    <3>1. Untouched(t) /\ FrameKept
      BY <1>1 DEF Untouched, FrameKept, IsFrame
    <3> QED
      BY <2>1, <2>2, <3>1, BuffersOthers DEF Alone
  <2>7. AckAt(t)' /\ BufferAt(t)'
    BY <1>1, <2>1, <2>2 DEF AckAt, BufferAt, Sending, Looking
  <2>8. \A s \in Slot : tcpSess[s] \in est' => fpgaAck[s] = tcpSess[s]
    <3> SUFFICES ASSUME NEW s \in Slot, tcpSess[s] = o PROVE fpgaAck[s] = tcpSess[s]
      BY <1>1, <2>1 DEF Alone, AckInv
    <3>1. s = app[t].slot
      BY <2>1, <2>3 DEF TableInv, OneSlot, In
    <3> QED
      BY <2>3, <3>1
  <2>9. AckInv' /\ PacketInv' /\ Fed'
    BY <1>1, <2>1, <2>6, <2>7, <2>8 DEF Alone, AckInv, PacketInv, Fed, Count
  <2> QED
    BY <1>1, <2>1, <2>5, <2>9 DEF Alone
<1> QED
  BY <1>4, <1>5, <1>6

\* What setPktPayloadAndSendWC() does to a buffer.
Sized(b, n)    == [b EXCEPT !.len = n, !.size = n]
Filled(b, bod) == [b EXCEPT !.body = bod, !.csum = <<b.hdr, b.len, bod>>]

LEMMA SizedBuf ==
    ASSUME NEW b \in BufRec, NEW n \in Nat
    PROVE  /\ Sized(b, n) \in BufRec /\ Sized(b, n).hdr = b.hdr
           /\ Sized(b, n).len = n /\ Sized(b, n).size = n
<1> DEFINE c == [b EXCEPT !.len = n]
           d == [c EXCEPT !.size = n]
<1>1. Sized(b, n) = d
  BY DEF Sized
<1>2. c \in BufRec /\ c.len = n /\ c.hdr = b.hdr
  BY DEF BufRec
<1> HIDE DEF c
<1>3. d \in BufRec /\ d.len = n /\ d.hdr = b.hdr /\ d.size = n
  BY <1>2 DEF BufRec
<1> QED
  BY <1>1, <1>3

LEMMA FilledBuf ==
    ASSUME NEW b \in BufRec, NEW bod \in Bodies
    PROVE  /\ Filled(b, bod) \in BufRec /\ Filled(b, bod).hdr = b.hdr
           /\ Filled(b, bod).len = b.len /\ Filled(b, bod).size = b.size
           /\ Filled(b, bod).body = bod /\ Filled(b, bod).csum = <<b.hdr, b.len, bod>>
<1> DEFINE v == <<b.hdr, b.len, bod>>
           c == [b EXCEPT !.body = bod]
           d == [c EXCEPT !.csum = v]
<1>1. Filled(b, bod) = d
  BY DEF Filled
<1>2. v \in Csums
  BY DEF Csums, BufRec
<1> HIDE DEF v
<1>3. c \in BufRec /\ c.body = bod /\ c.hdr = b.hdr /\ c.len = b.len /\ c.size = b.size
  BY DEF BufRec
<1> HIDE DEF c
<1>4. /\ d \in BufRec /\ d.body = bod /\ d.hdr = b.hdr /\ d.len = b.len /\ d.size = b.size
      /\ d.csum = v
  BY <1>2, <1>3 DEF BufRec
<1> QED
  BY <1>1, <1>4 DEF v

LEMMA CallSetHdr ==
    ASSUME SessInv, NEW t \in Thread, SetPktHdr(t)
    PROVE  SessInv'
<1> USE DEF SessInv
<1> DEFINE s == app[t].slot
<1>1. /\ app[t].pc = "hdr" /\ TableTyped /\ BufTyped /\ Path(app[t]) /\ Track
      /\ Goto(t, "payload")
      /\ UNCHANGED <<tableVars, ackHeap, wcVars, servVars, est, sends, leaked, fatal>>
  BY DEF SetPktHdr, At, Always, Paths
<1>2. Steps(t, "payload", app[t].ret, app[t].kind, app[t].how)
  BY <1>1, SetsGoto DEF Pcs
<1>3. s \in Slot
  BY <1>1 DEF TableTyped, AppRec
<1>4. PICK n \in Lens : heap' = [heap EXCEPT ![s].len = n, ![s].size = n]
  BY DEF SetPktHdr
<1> HIDE DEF s
<1>5. /\ s \in 0 .. CONTROL_SESS_ID /\ s # CONTROL_SESS_ID /\ Slot \subseteq 0 .. CONTROL_SESS_ID
      /\ CONTROL_SESS_ID \in 0 .. CONTROL_SESS_ID /\ n \in Nat
  BY <1>3, TableAssumption DEF Slot, CONTROL_SESS_ID
<1>6. heap[s] \in BufRec
  BY <1>1, <1>5 DEF BufTyped
<1>7. heap' = [heap EXCEPT ![s] = Sized(heap[s], n)]
  BY <1>1, <1>4, <1>5 DEF BufTyped, Sized
<1>8. /\ heap' \in [0 .. CONTROL_SESS_ID -> BufRec] /\ heap'[s] = Sized(heap[s], n)
      /\ heap'[CONTROL_SESS_ID] = heap[CONTROL_SESS_ID]
      /\ \A r \in Slot \ {s} : heap'[r] = heap[r]
  BY <1>1, <1>5, <1>6, <1>7, SizedBuf DEF BufTyped
<1>9. AppMove(t)
  BY <1>1, <1>2 DEF AppMove, Steps, Sets, Path, Looking, Sending
<1>10. Holds(app[t]) /\ Holds(app'[t]) /\ ~Leaving(app[t]) /\ ~Leaving(app'[t])
  BY <1>1, <1>2 DEF Steps, Sets, Holds, Starting, Leaving, Sending
<1>11. app'[t].pc = "payload" /\ app'[t].slot = s /\ app'[t].sess = app[t].sess
  BY <1>2 DEF Steps, Sets, s
<1>12. AckAt(t)'
  BY <1>11 DEF AckAt, Sending
<1>13. ~raced => BufferAt(t)'
  <2>1. ~raced => heap[s].hdr = app[t].sess
    BY <1>1 DEF Alone, PacketInv, BufferAt, s
  <2>2. heap'[s].hdr = heap[s].hdr /\ heap'[s].size = heap'[s].len
    BY <1>5, <1>6, <1>8, SizedBuf
  <2> QED
    BY <1>11, <2>1, <2>2 DEF BufferAt, Sending, Looking
<1>14. FrameKept /\ ackHeap' \in [Slot -> Obj \cup {NULL}] /\ sends' \in Nat
       /\ \A r \in Slot \ {s} : ackHeap'[r] = ackHeap[r]
  BY <1>1, <1>8 DEF FrameKept, BufTyped, TableTyped
<1>15. UNCHANGED <<tableVars, wcVars, servVars, est, leaked, fatal>>
  BY <1>1
<1>16. \A r \in Slot \ {app[t].slot} : heap'[r] = heap[r] /\ ackHeap'[r] = ackHeap[r]
  BY <1>8, <1>14 DEF s
<1>17. app[t].pc = "hdr"
  BY <1>1
<1> QED
  BY <1>2, <1>8, <1>9, <1>10, <1>12, <1>13, <1>14, <1>15, <1>16, <1>17, CallBuf

LEMMA CallSetPayload ==
    ASSUME SessInv, NEW t \in Thread, SetPktPayload(t)
    PROVE  SessInv'
<1> USE DEF SessInv
<1> DEFINE s == app[t].slot
           b == heap[s]
           bod == <<sends + 1, b.len>>
<1>1. /\ app[t].pc = "payload" /\ TableTyped /\ BufTyped /\ Path(app[t]) /\ Track
      /\ sends' = sends + 1
      /\ app' = [app EXCEPT ![t].pc = "wcDesc", ![t].kind = "fast", ![t].ret = "conn"]
      /\ heap' = [heap EXCEPT ![s].body = bod, ![s].csum = <<b.hdr, b.len, bod>>]
      /\ UNCHANGED <<tableVars, ackHeap, wcVars, servVars, est, leaked, fatal>>
  BY DEF SetPktPayload, At, Always, Paths
<1>2. Steps(t, "wcDesc", "conn", "fast", app[t].how)
  BY <1>1, SetsWc DEF Rets
<1>3. s \in Slot
  BY <1>1 DEF TableTyped, AppRec
<1> HIDE DEF s
<1>5. /\ s \in 0 .. CONTROL_SESS_ID /\ s # CONTROL_SESS_ID /\ Slot \subseteq 0 .. CONTROL_SESS_ID
      /\ CONTROL_SESS_ID \in 0 .. CONTROL_SESS_ID
  BY <1>3, TableAssumption DEF Slot, CONTROL_SESS_ID
<1>6. b \in BufRec
  BY <1>1, <1>5 DEF BufTyped
<1>7. bod \in Bodies
  BY <1>1, <1>6 DEF Bodies, BufRec, TableTyped
<1> HIDE DEF bod
<1>8. heap' = [heap EXCEPT ![s] = Filled(b, bod)]
  BY <1>1, <1>5 DEF BufTyped, Filled
<1>9. /\ heap' \in [0 .. CONTROL_SESS_ID -> BufRec] /\ heap'[s] = Filled(b, bod)
      /\ heap'[CONTROL_SESS_ID] = heap[CONTROL_SESS_ID]
      /\ \A r \in Slot \ {s} : heap'[r] = heap[r]
  <2>1. Filled(b, bod) \in BufRec
    BY <1>6, <1>7, FilledBuf
  <2>2. heap \in [0 .. CONTROL_SESS_ID -> BufRec]
    BY <1>1 DEF BufTyped
  <2> HIDE DEF b
  <2> QED
    BY <1>5, <1>8, <2>1, <2>2
<1>10. AppMove(t)
  BY <1>1, <1>2 DEF AppMove, Steps, Sets, Path, Looking, Sending
<1>11. Holds(app[t]) /\ Holds(app'[t]) /\ ~Leaving(app[t]) /\ ~Leaving(app'[t])
  BY <1>1, <1>2 DEF Steps, Sets, Holds, Starting, Leaving, Sending
<1>12. /\ app'[t].pc = "wcDesc" /\ app'[t].ret = "conn" /\ app'[t].kind = "fast"
       /\ app'[t].slot = s /\ app'[t].sess = app[t].sess
  BY <1>2 DEF Steps, Sets, s
<1>13. AckAt(t)'
  BY <1>12 DEF AckAt, Sending
<1>14. ~raced => BufferAt(t)'
  <2>1. ~raced => b.hdr = app[t].sess /\ b.size = b.len
    BY <1>1 DEF Alone, PacketInv, BufferAt, s
  <2>2. /\ heap'[s].hdr = b.hdr /\ heap'[s].size = b.size /\ heap'[s].len = b.len
        /\ heap'[s].csum = <<heap'[s].hdr, heap'[s].len, heap'[s].body>>
    BY <1>6, <1>7, <1>9, FilledBuf
  <2> HIDE DEF b
  <2> QED
    BY <1>12, <2>1, <2>2 DEF BufferAt, Sending, Looking
<1>15. FrameKept /\ ackHeap' \in [Slot -> Obj \cup {NULL}] /\ sends' \in Nat
       /\ \A r \in Slot \ {s} : ackHeap'[r] = ackHeap[r]
  BY <1>1, <1>9 DEF FrameKept, BufTyped, TableTyped
<1>16. UNCHANGED <<tableVars, wcVars, servVars, est, leaked, fatal>>
  BY <1>1
<1>17. \A r \in Slot \ {app[t].slot} : heap'[r] = heap[r] /\ ackHeap'[r] = ackHeap[r]
  BY <1>9, <1>15 DEF s
<1>18. app[t].pc = "payload"
  BY <1>1
<1> QED
  BY <1>2, <1>9, <1>10, <1>11, <1>13, <1>14, <1>15, <1>16, <1>17, <1>18, CallBuf

LEMMA CallLwipClose ==
    ASSUME SessInv, NEW t \in Thread, LwipClose(t)
    PROVE  SessInv'
<1> USE DEF SessInv
<1>1. /\ app[t].pc = "delete" /\ TableTyped /\ BufTyped /\ Path(app[t]) /\ Track
      /\ UNCHANGED <<tableVars, ackHeap, wcVars, servVars, est, sends, leaked, fatal>>
  BY DEF LwipClose, At, Always, Paths
<1>2. /\ UNCHANGED <<tableVars, wcVars, servVars, est, leaked, fatal>>
      /\ ackHeap' \in [Slot -> Obj \cup {NULL}] /\ sends' \in Nat /\ ackHeap' = ackHeap
      /\ app[t].slot \in Slot /\ app[t].sess \in Obj \cup {NULL}
  BY <1>1 DEF BufTyped, TableTyped, AppRec
<1>3. CASE app[t].sess \in est
  <2> DEFINE o == app[t].sess
  <2>1. /\ app' = [app EXCEPT ![t].pc = "wcDesc", ![t].kind = "full", ![t].ret = "free"]
        /\ heap' = [heap EXCEPT ![CONTROL_SESS_ID] = Frame(o)]
    BY <1>3 DEF LwipClose, LwipFrame
  <2>2. Steps(t, "wcDesc", "free", "full", app[t].how)
    BY <1>1, <2>1, SetsWc DEF Rets
  <2> HIDE DEF o
  <2>3. AppMove(t)
    BY <1>1, <2>2 DEF AppMove, Steps, Sets, Path, Looking, Sending
  <2>4. CONTROL_SESS_ID \in 0 .. CONTROL_SESS_ID /\ CONTROL_SESS_ID \notin Slot
        /\ Slot \subseteq 0 .. CONTROL_SESS_ID
    BY TableAssumption DEF Slot, CONTROL_SESS_ID
  <2>5. Frame(o) \in BufRec /\ IsFrame(Frame(o))
    BY <1>2, BlankBuf DEF o
  <2>6. /\ heap' \in [0 .. CONTROL_SESS_ID -> BufRec] /\ heap'[CONTROL_SESS_ID] = Frame(o)
        /\ \A r \in Slot \ {app[t].slot} : heap'[r] = heap[r] /\ ackHeap'[r] = ackHeap[r]
    BY <1>1, <1>2, <2>1, <2>4, <2>5 DEF BufTyped
  <2>7. /\ app'[t].pc = "wcDesc" /\ app'[t].ret = "free" /\ app'[t].kind = "full"
        /\ app'[t].how = app[t].how
    BY <2>2 DEF Steps, Sets
  <2>8. Holds(app[t]) /\ Holds(app'[t]) /\ (Leaving(app'[t]) <=> Leaving(app[t]))
    BY <1>1, <2>7 DEF Holds, Starting, Leaving, Sending
  <2>9. AckAt(t)' /\ BufferAt(t)' /\ FrameKept
    BY <2>5, <2>6, <2>7 DEF AckAt, BufferAt, Sending, Looking, FrameKept, IsFrame
  <2>10. app[t].pc = "delete"
    BY <1>1
  <2> QED
    BY <1>2, <2>2, <2>3, <2>6, <2>8, <2>9, <2>10, CallBuf
<1>4. CASE app[t].sess \notin est
  <2>1. Goto(t, "free") /\ heap' = heap
    BY <1>4 DEF LwipClose
  <2>2. Steps(t, "free", app[t].ret, app[t].kind, app[t].how)
    BY <1>1, <2>1, SetsGoto DEF Pcs
  <2>3. AppMove(t)
    BY <1>1, <2>2 DEF AppMove, Steps, Sets, Path, Looking, Sending
  <2>4. app'[t].pc = "free" /\ app'[t].how = app[t].how
    BY <2>2 DEF Steps, Sets
  <2>5. Holds(app[t]) /\ Holds(app'[t]) /\ (Leaving(app'[t]) <=> Leaving(app[t]))
    BY <1>1, <2>4 DEF Holds, Starting, Leaving, Sending
  <2>6. AckAt(t)' /\ BufferAt(t)' /\ FrameKept
    BY <2>1, <2>4 DEF AckAt, BufferAt, Sending, Looking, FrameKept, IsFrame
  <2>7. heap' \in [0 .. CONTROL_SESS_ID -> BufRec]
        /\ \A r \in Slot \ {app[t].slot} : heap'[r] = heap[r] /\ ackHeap'[r] = ackHeap[r]
    BY <1>1, <1>2, <2>1 DEF BufTyped
  <2>8. app[t].pc = "delete"
    BY <1>1
  <2> QED
    BY <1>2, <2>2, <2>3, <2>5, <2>6, <2>7, <2>8, CallBuf
<1> QED
  BY <1>3, <1>4

----------------------------------------------------------------------------
(* The WC window.                                                           *)

LEMMA CallWcDesc ==
    ASSUME SessInv, NEW t \in Thread, WcDesc(t)
    PROVE  SessInv'
<1> USE DEF SessInv
<1> DEFINE s == IF app[t].kind = "full" THEN CONTROL_SESS_ID ELSE app[t].slot
           send == app[t].kind # "preload"
           c == IF send THEN heap[s].csum ELSE <<>>
           z == IF send THEN heap[s].size ELSE 0
           opc == IF send THEN "Send" ELSE "DontSend"
<1>1. /\ app[t].pc = "wcDesc" /\ TableTyped /\ BufTyped /\ Path(app[t]) /\ Track /\ Window
      /\ busy = {} /\ busy' = {t} /\ Goto(t, "wcPayload")
      /\ UNCHANGED <<tableVars, bufVars, txBuf, lastBuf, torn, sent, fpgaAck, epmFeedback,
                     servVars, est, sends, leaked, fatal>>
  BY DEF WcDesc, WcDescUnlocked, At, Always, Paths
<1>2. wcDesc' = [idx |-> s, size |-> z, csum |-> c, buf |-> txBuf, opc |-> opc]
  BY DEF WcDesc, WcDescUnlocked
<1>3. /\ s \in 0 .. CONTROL_SESS_ID /\ app[t].slot \in Slot /\ Slot \subseteq 0 .. CONTROL_SESS_ID
      /\ heap[s] \in BufRec
  <2>1. app[t].slot \in Slot
    BY <1>1 DEF TableTyped, AppRec
  <2>2. Slot \subseteq 0 .. CONTROL_SESS_ID /\ CONTROL_SESS_ID \in 0 .. CONTROL_SESS_ID
    BY TableAssumption DEF Slot, CONTROL_SESS_ID
  <2>3. s \in 0 .. CONTROL_SESS_ID
    BY <2>1, <2>2
  <2> HIDE DEF s
  <2> QED
    BY <2>1, <2>2, <2>3, <1>1 DEF BufTyped
<1>4. z \in Nat /\ c \in Csums /\ txBuf \in {0, 1} /\ opc \in {"Send", "DontSend"}
  <2> HIDE DEF s
  <2> QED
    BY <1>1, <1>3 DEF BufRec, Csums, Window
<1>5. Steps(t, "wcPayload", app[t].ret, app[t].kind, app[t].how)
  BY <1>1, SetsGoto DEF Pcs
<1>6. /\ app'[t].pc = "wcPayload" /\ app'[t].ret = app[t].ret /\ app'[t].kind = app[t].kind
      /\ app'[t].how = app[t].how /\ app'[t].slot = app[t].slot /\ app'[t].sess = app[t].sess
      /\ app' \in [Thread -> AppRec] /\ \A u \in Thread \ {t} : app'[u] = app[u]
  BY <1>5 DEF Steps, Sets
<1>7. wcDesc' \in DescRec /\ wcDesc'.idx = s /\ wcDesc'.size = z /\ wcDesc'.csum = c
      /\ wcDesc'.buf = txBuf /\ wcDesc'.opc = opc
  <2> HIDE DEF s, z, c, opc
  <2> QED
    BY <1>2, <1>3, <1>4 DEF DescRec
<1>8. raced' \in BOOLEAN /\ (Overlap => raced)' /\ (~raced' => ~raced /\ ~Overlap')
  BY <1>1, TrackKeeps DEF TableTyped
<1>9. TableTyped' /\ BufTyped'
  BY <1>1, <1>6, <1>7, <1>8 DEF TableTyped, BufTyped
<1>10. Paths'
  <2>1. Path(app'[t])
    BY <1>1, <1>6 DEF Path, Looking, Sending
  <2> QED
    BY <1>6, <2>1, PathsKept DEF Always
<1>11. Window'
  <2>1. \A u \in Thread : u \in busy' <=> app'[u].pc = "wcPayload"
    BY <1>1, <1>6 DEF Window
  <2>2. \A u \in busy' : /\ wcDesc'.opc = IF app'[u].kind = "preload" THEN "DontSend" ELSE "Send"
                         /\ wcDesc'.idx = IF app'[u].kind = "full" THEN CONTROL_SESS_ID
                                                                  ELSE app'[u].slot
    BY <1>1, <1>6, <1>7
  <2>3. txBuf' \in {0, 1} /\ lastBuf' = 1 - txBuf' /\ (wcDesc'.opc # "none" => wcDesc'.buf = txBuf')
        /\ (\A u, v \in busy' : u = v) /\ busy' # {}
    BY <1>1, <1>7 DEF Window
  <2> QED
    BY <2>1, <2>2, <2>3 DEF Window
<1>12. ServInv'
  BY <1>1 DEF ServInv
<1>13. ASSUME ~raced' PROVE Alone'
  <2>1. Alone /\ OwnerAt(t) /\ AckAt(t) /\ BufferAt(t)
    BY <1>8, <1>13 DEF Alone, TableInv, Owners, AckInv, PacketInv
  <2>2. Holds(app[t]) /\ Holds(app'[t]) /\ (Leaving(app'[t]) <=> Leaving(app[t]))
    BY <1>1, <1>6 DEF Holds, Starting, Leaving, Sending
  <2>3. OwnerAt(t)'
    <3>1. UNCHANGED <<tcpSess, a_, live, controlTcpSess>>
      BY <1>1
    <3>2. CASE Leaving(app[t])
      BY <1>1, <1>6, <2>1, <2>2, <3>1, <3>2 DEF OwnerAt
    <3>3. CASE ~Leaving(app[t])
      BY <1>1, <1>6, <2>1, <2>2, <3>1, <3>3 DEF OwnerAt
    <3> QED
      BY <3>2, <3>3
  <2>4. AckAt(t)'
    BY <1>1, <1>6, <2>1 DEF AckAt, Sending
  <2>5. BufferAt(t)'
    <3>1. UNCHANGED heap
      BY <1>1
    <3>2. app[t].kind = "fast" => /\ wcDesc'.size = heap[app[t].slot].size
                                  /\ wcDesc'.csum = heap[app[t].slot].csum
      BY <1>7
    <3>3. app[t].kind = "full" =>
            wcDesc'.size = heap[CONTROL_SESS_ID].size /\ wcDesc'.csum = heap[CONTROL_SESS_ID].csum
      BY <1>7
    <3>4. app[t].pc = "wcDesc" /\ app'[t].pc = "wcPayload"
      BY <1>1, <1>6
    <3> HIDE DEF s, z, c, opc
    <3> QED
      BY <1>6, <2>1, <3>1, <3>2, <3>3, <3>4 DEF BufferAt, Sending, Looking
  <2>6. Untouched(t) /\ FrameKept
    BY <1>1 DEF Untouched, FrameKept, Window
  <2>7. Fed' /\ ~torn'
    BY <1>1, <2>1 DEF Alone, Fed, Count, PacketInv
  <2>8. \A r \in Slot : tcpSess[r] \in est => fpgaAck'[r] = tcpSess[r]
    BY <1>1, <2>1 DEF Alone, AckInv
  <2>9. UNCHANGED <<tableVars, est, fatal>> /\ leaked \subseteq leaked'
    BY <1>1
  <2> QED
    BY <1>6, <2>1, <2>2, <2>3, <2>4, <2>5, <2>6, <2>7, <2>8, <2>9, AloneBuf
<1> QED
  BY <1>8, <1>9, <1>10, <1>11, <1>12, <1>13 DEF Always

----------------------------------------------------------------------------
(* Packets fed back, counted per session.                                   *)

LEMMA CountType ==
    ASSUME NEW S, NEW q \in Seq(S), NEW o
    PROVE  IsFiniteSet({k \in DOMAIN q : q[k] = o}) /\ Count(q, o) \in Nat
<1>1. DOMAIN q = 1 .. Len(q) /\ Len(q) \in Nat
  OBVIOUS
<1>2. IsFiniteSet(1 .. Len(q))
  BY <1>1, FS_Interval
<1>3. {k \in DOMAIN q : q[k] = o} \in SUBSET (1 .. Len(q))
  BY <1>1
<1>4. IsFiniteSet({k \in DOMAIN q : q[k] = o})
  BY <1>2, <1>3, FS_Subset
<1> QED
  BY <1>4, FS_CardinalityType DEF Count

LEMMA CountAppend ==
    ASSUME NEW S, NEW q \in Seq(S), NEW e \in S, NEW o
    PROVE  /\ e = o => Count(Append(q, e), o) = Count(q, o) + 1
           /\ e # o => Count(Append(q, e), o) = Count(q, o)
<1> DEFINE A == {k \in DOMAIN q : q[k] = o}
           B == {k \in DOMAIN Append(q, e) : Append(q, e)[k] = o}
           n == Len(q) + 1
<1>1. IsFiniteSet(A) /\ Cardinality(A) \in Nat
  BY CountType DEF Count
<1>2. DOMAIN Append(q, e) = 1 .. n /\ DOMAIN q = 1 .. Len(q) /\ Len(q) \in Nat
      /\ Append(q, e)[n] = e /\ \A k \in 1 .. Len(q) : Append(q, e)[k] = q[k]
  BY AppendProperties
<1>3. n \notin A
  BY <1>2
<1>4. CASE e = o
  <2>1. B = A \cup {n}
    BY <1>2, <1>4
  <2>2. Cardinality(A \cup {n}) = Cardinality(A) + 1
    BY <1>1, <1>3, FS_AddElement
  <2> QED
    BY <1>4, <2>1, <2>2 DEF Count
<1>5. CASE e # o
  <2>1. B = A
    BY <1>2, <1>5
  <2>2. Count(Append(q, e), o) = Cardinality(B) /\ Count(q, o) = Cardinality(A)
    BY DEF Count
  <2> HIDE DEF A, B
  <2> QED
    BY <1>1, <1>5, <2>1, <2>2
<1> QED
  BY <1>4, <1>5

LEMMA CountTail ==
    ASSUME NEW S, NEW q \in Seq(S), q # <<>>, NEW o
    PROVE  /\ Head(q) = o => Count(q, o) = Count(Tail(q), o) + 1
           /\ Head(q) # o => Count(q, o) = Count(Tail(q), o)
<1> DEFINE A == {k \in DOMAIN Tail(q) : Tail(q)[k] = o}
           B == {k \in 2 .. Len(q) : q[k] = o}
           C == {k \in DOMAIN q : q[k] = o}
           f == [k \in A |-> k + 1]
<1>1. /\ DOMAIN q = 1 .. Len(q) /\ Len(q) \in Nat /\ Len(q) >= 1 /\ Head(q) = q[1]
      /\ Tail(q) \in Seq(S) /\ DOMAIN Tail(q) = 1 .. (Len(q) - 1)
      /\ \A k \in 1 .. (Len(q) - 1) : Tail(q)[k] = q[k + 1]
  BY HeadTailProperties, EmptySeq
<1>2. IsFiniteSet(A) /\ Cardinality(A) \in Nat
  BY <1>1, CountType DEF Count
<1>3. IsFiniteSet(B) /\ Cardinality(B) = Cardinality(A)
  <2>1. f \in [A -> B]
    BY <1>1
  <2>2. \A a, b \in A : f[a] = f[b] => a = b
    BY <1>1
  <2>3. \A b \in B : \E a \in A : f[a] = b
    <3> SUFFICES ASSUME NEW b \in B PROVE \E a \in A : f[a] = b
      OBVIOUS
    <3>1. b - 1 \in A /\ f[b - 1] = b
      BY <1>1
    <3> QED
      BY <3>1
  <2> HIDE DEF A, B, f
  <2>4. f \in Bijection(A, B)
    BY <2>1, <2>2, <2>3 DEF Bijection, Injection, Surjection, IsInjective
  <2>5. ExistsBijection(A, B)
    BY <2>4 DEF ExistsBijection
  <2> QED
    BY <1>2, <2>5, FS_Bijection
<1>4. 1 \notin B
  OBVIOUS
<1>5. CASE Head(q) = o
  <2>1. C = B \cup {1}
    BY <1>1, <1>5
  <2>2. Cardinality(B \cup {1}) = Cardinality(B) + 1
    BY <1>3, <1>4, FS_AddElement
  <2> QED
    BY <1>3, <1>5, <2>1, <2>2 DEF Count
<1>6. CASE Head(q) # o
  <2>1. C = B
    BY <1>1, <1>6
  <2>2. Count(q, o) = Cardinality(C) /\ Count(Tail(q), o) = Cardinality(A)
    BY DEF Count
  <2> HIDE DEF A, B, C
  <2> QED
    BY <1>2, <1>3, <1>6, <2>1, <2>2
<1> QED
  BY <1>5, <1>6

\* The window is free after the packet.
LEMMA PayloadAlways ==
    ASSUME Always, NEW t \in Thread, WcPayload(t)
    PROVE  /\ Always' /\ (~raced' => ~raced /\ ~Overlap /\ ~Overlap')
           /\ Steps(t, app[t].ret, "none", "none", app[t].how)
           /\ t \in busy /\ \A u \in Thread \ {t} : app[u].pc # "wcPayload"
<1> USE DEF Always
<1> DEFINE s == IF app[t].kind = "full" THEN CONTROL_SESS_ID ELSE app[t].slot
           b == heap[s]
<1>1. /\ app[t].pc = "wcPayload" /\ Track /\ wcDesc' = NoDesc /\ txBuf' = NextTxBuf
      /\ busy' = busy \ {t}
      /\ UNCHANGED <<tableVars, bufVars, servVars, est, sends, leaked, fatal>>
      /\ IF wcDesc.opc = "DontSend"
         THEN /\ fpgaAck' = [fpgaAck EXCEPT ![wcDesc.idx] = ackHeap[app[t].slot]]
              /\ UNCHANGED <<lastBuf, torn, sent, epmFeedback>>
         ELSE /\ lastBuf' = wcDesc.buf
              /\ torn' = (torn \/ ~Whole(wcDesc, b))
              /\ IF wcDesc.idx = CONTROL_SESS_ID
                 THEN UNCHANGED <<sent, epmFeedback>>
                 ELSE /\ epmFeedback' = Append(epmFeedback, b.hdr)
                      /\ sent' = [sent EXCEPT ![app[t].sess] = @ + 1]
              /\ UNCHANGED fpgaAck
  BY DEF WcPayload, At
<1>2. Steps(t, app[t].ret, "none", "none", app[t].how)
  BY SetsPayload
<1>3. t \in busy /\ \A u \in Thread \ {t} : app[u].pc # "wcPayload" /\ u \notin busy
  BY <1>1 DEF Window
<1>4. /\ app' \in [Thread -> AppRec] /\ \A u \in Thread \ {t} : app'[u] = app[u]
      /\ app'[t].pc = app[t].ret /\ app'[t].ret = "none" /\ app'[t].how = app[t].how
      /\ app'[t].kind = "none"
  BY <1>2 DEF Steps, Sets
<1>5. raced' \in BOOLEAN /\ (Overlap => raced)' /\ (~raced' => ~raced /\ ~Overlap')
  BY <1>1, TrackKeeps DEF TableTyped
<1>6. TableTyped'
  BY <1>1, <1>4, <1>5 DEF TableTyped
<1>7. /\ app[t].slot \in Slot /\ Slot \subseteq 0 .. CONTROL_SESS_ID
      /\ CONTROL_SESS_ID \in 0 .. CONTROL_SESS_ID
  BY TableAssumption DEF Slot, CONTROL_SESS_ID, TableTyped, AppRec
<1>8. b \in BufRec
  BY <1>7 DEF BufTyped
<1>9. Path(app[t]) /\ app[t].ret \in {"syn", "conn", "synSent", "free"}
  BY <1>1 DEF Paths, Path, Sending
<1> HIDE DEF b, s
<1>10. BufTyped'
  <2>1. fpgaAck' \in [Slot -> Obj \cup {NULL}]
    BY <1>1, <1>7 DEF BufTyped
  <2>2. torn' \in BOOLEAN
    BY <1>1, Zenon DEF BufTyped
  <2>3. sent' \in [Obj -> Nat]
    <3>1. CASE sent' = sent
      BY <3>1 DEF BufTyped
    <3>2. CASE sent' = [sent EXCEPT ![app[t].sess] = @ + 1]
      <4> DEFINE n == sent[app[t].sess] + 1
      <4>1. sent' = [sent EXCEPT ![app[t].sess] = n]
        BY <3>2
      <4>2. CASE app[t].sess \in Obj
        <5>1. n \in Nat
          BY <4>2 DEF BufTyped
        <5> HIDE DEF n
        <5> QED
          BY <4>1, <5>1 DEF BufTyped
      <4>3. CASE app[t].sess \notin Obj
        <5> HIDE DEF n
        <5> QED
          BY <4>1, <4>3 DEF BufTyped
      <4> QED
        BY <4>2, <4>3
    <3> QED
      BY <1>1, <3>1, <3>2
  <2>4. epmFeedback' \in Seq(Obj \cup {NULL})
    <3>1. b.hdr \in Obj \cup {NULL}
      BY <1>8 DEF BufRec
    <3>2. CASE epmFeedback' = epmFeedback
      BY <3>2 DEF BufTyped
    <3>3. CASE epmFeedback' = Append(epmFeedback, b.hdr)
      BY <3>1, <3>3, AppendProperties DEF BufTyped
    <3> QED
      BY <1>1, <3>2, <3>3
  <2>5. wcDesc' \in DescRec
    BY <1>1, TableAssumption DEF NoDesc, DescRec, Csums, CONTROL_SESS_ID
  <2>6. busy' \subseteq Thread /\ UNCHANGED <<heap, ackHeap, serv, mirrored>>
    BY <1>1 DEF BufTyped
  <2> QED
    BY <2>1, <2>2, <2>3, <2>4, <2>5, <2>6 DEF BufTyped
<1>11. Paths'
  <2>1. Path(app'[t])
    BY <1>1, <1>4, <1>9 DEF Path, Looking, Sending
  <2> QED
    BY <1>4, <2>1, PathsKept
<1>12. Window'
  <2>1. busy' = {}
    BY <1>1, <1>3 DEF BufTyped
  <2>2. \A u \in Thread : app'[u].pc # "wcPayload"
    BY <1>3, <1>4, <1>9
  <2>3. wcDesc'.opc = "none"
    BY <1>1 DEF NoDesc
  <2>4. wcDesc.opc \in {"Send", "DontSend"} /\ wcDesc.buf = txBuf /\ txBuf \in {0, 1}
        /\ lastBuf = 1 - txBuf
    BY <1>3 DEF Window
  <2>5. txBuf' \in {0, 1} /\ lastBuf' = 1 - txBuf'
    BY <1>1, <2>4 DEF NextTxBuf
  <2> QED
    BY <2>1, <2>2, <2>3, <2>5 DEF Window
<1> QED
  BY <1>2, <1>3, <1>5, <1>6, <1>10, <1>11, <1>12

LEMMA CallWcPayload ==
    ASSUME SessInv, NEW t \in Thread, WcPayload(t)
    PROVE  SessInv'
<1> USE DEF SessInv
<1> DEFINE s == app[t].slot
           b == heap[IF app[t].kind = "full" THEN CONTROL_SESS_ID ELSE app[t].slot]
<1>1. /\ Always' /\ (~raced' => ~raced /\ ~Overlap /\ ~Overlap')
      /\ Steps(t, app[t].ret, "none", "none", app[t].how)
      /\ t \in busy /\ \A u \in Thread \ {t} : app[u].pc # "wcPayload"
  BY PayloadAlways
<1>2. /\ app[t].pc = "wcPayload" /\ UNCHANGED <<tableVars, bufVars, servVars, est, leaked, fatal>>
  BY DEF WcPayload, At
<1>3. /\ wcDesc.opc = IF app[t].kind = "preload" THEN "DontSend" ELSE "Send"
      /\ wcDesc.idx = IF app[t].kind = "full" THEN CONTROL_SESS_ID ELSE s
      /\ s \in Slot /\ s # CONTROL_SESS_ID /\ app[t].sess \in Obj \cup {NULL}
      /\ epmFeedback \in Seq(Obj \cup {NULL}) /\ sent \in [Obj -> Nat]
      /\ fpgaAck \in [Slot -> Obj \cup {NULL}]
  <2>1. /\ wcDesc.opc = IF app[t].kind = "preload" THEN "DontSend" ELSE "Send"
        /\ wcDesc.idx = IF app[t].kind = "full" THEN CONTROL_SESS_ID ELSE s
    BY <1>1 DEF Always, Window
  <2>2. s \in Slot /\ app[t].sess \in Obj \cup {NULL}
    BY DEF Always, TableTyped, AppRec
  <2>3. s # CONTROL_SESS_ID
    BY <2>2, TableAssumption DEF Slot, CONTROL_SESS_ID
  <2> HIDE DEF s
  <2> QED
    BY <2>1, <2>2, <2>3 DEF Always, BufTyped
<1>4. \/ app[t].ret = "syn" /\ app[t].kind = "preload"
      \/ app[t].ret = "conn" /\ app[t].kind = "fast"
      \/ app[t].ret \in {"synSent", "free"} /\ app[t].kind = "full"
  BY <1>2 DEF Always, Paths, Path, Sending
<1>5. app[t].kind = "preload" => /\ fpgaAck' = [fpgaAck EXCEPT ![s] = ackHeap[s]]
                                 /\ UNCHANGED <<torn, sent, epmFeedback>>
  BY <1>3 DEF WcPayload
<1>6. app[t].kind = "full" => /\ UNCHANGED <<sent, epmFeedback, fpgaAck>>
                              /\ torn' = (torn \/ ~Whole(wcDesc, b))
  BY <1>3 DEF WcPayload
<1>7. app[t].kind = "fast" => /\ epmFeedback' = Append(epmFeedback, b.hdr)
                              /\ sent' = [sent EXCEPT ![app[t].sess] = @ + 1]
                              /\ torn' = (torn \/ ~Whole(wcDesc, b)) /\ UNCHANGED fpgaAck
  BY <1>3 DEF WcPayload
<1>8. app[t].kind \in {"preload", "full", "fast"}
  BY <1>4
<1>9. ServInv'
  <2>1. CASE app[t].kind = "fast"
    <3>1. b.hdr \in Obj \cup {NULL}
      BY <1>3, <2>1, TableAssumption DEF Always, BufTyped, BufRec, Slot, CONTROL_SESS_ID
    <3>2. serv' = serv /\ epmFeedback' # <<>>
          /\ (epmFeedback # <<>> => Head(epmFeedback') = Head(epmFeedback))
      <4> HIDE DEF b
      <4>1. serv' = serv /\ epmFeedback' = Append(epmFeedback, b.hdr)
        BY <1>2, <1>7, <2>1
      <4>2. Len(epmFeedback') = Len(epmFeedback) + 1 /\ Len(epmFeedback) \in Nat
        BY <1>3, <3>1, <4>1
      <4>3. epmFeedback # <<>> => Len(epmFeedback) >= 1 /\ epmFeedback'[1] = epmFeedback[1]
        BY <1>3, <3>1, <4>1, AppendProperties
      <4> QED
        BY <1>3, <4>1, <4>2, <4>3
    <3> QED
      BY <3>2 DEF ServInv
  <2>2. CASE app[t].kind # "fast"
    <3>1. UNCHANGED <<serv, epmFeedback>>
      BY <1>2, <1>5, <1>6, <1>8, <2>2
    <3> QED
      BY <3>1 DEF ServInv
  <2> QED
    BY <2>1, <2>2
<1>10. ASSUME ~raced' PROVE Alone'
  <2>1. Alone /\ OwnerAt(t) /\ AckAt(t) /\ BufferAt(t) /\ OneThread /\ OneSlot
    BY <1>1, <1>10 DEF Alone, TableInv, Owners, AckInv, PacketInv
  <2>2. /\ app'[t].pc = app[t].ret /\ app'[t].ret = "none" /\ app'[t].kind = "none"
        /\ app'[t].how = app[t].how /\ app'[t].slot = s /\ app'[t].sess = app[t].sess
        /\ \A u \in Thread \ {t} : app'[u] = app[u]
    BY <1>1 DEF Steps, Sets
  <2>3. Holds(app[t]) /\ Holds(app'[t]) /\ (Leaving(app'[t]) <=> Leaving(app[t]))
    BY <1>2, <1>4, <2>2 DEF Holds, Starting, Leaving, Sending
  <2>4. OwnerAt(t)'
    <3>1. UNCHANGED <<tcpSess, a_, live, controlTcpSess>>
      BY <1>2
    <3>2. app'[t].pc \notin {"nullAfter", "reread", "new"}
      BY <1>4, <2>2
    <3>3. CASE Leaving(app[t])
      BY <1>2, <2>1, <2>2, <2>3, <3>1, <3>2, <3>3 DEF OwnerAt
    <3>4. CASE ~Leaving(app[t])
      BY <1>2, <2>1, <2>2, <2>3, <3>1, <3>2, <3>4 DEF OwnerAt
    <3> QED
      BY <3>3, <3>4
  <2>5. app[t].sess \in Obj
    BY <1>2, <1>3, <2>1, <2>3 DEF OwnerAt
  <2>6. AckAt(t)'
    <3>1. app[t].kind = "preload" => fpgaAck'[s] = app[t].sess
      BY <1>2, <1>3, <1>4, <1>5, <2>1 DEF AckAt, Sending
    <3>2. app[t].ret = "synSent" => fpgaAck'[s] = app[t].sess
      BY <1>2, <1>4, <1>6, <2>1 DEF AckAt, Sending
    <3> QED
      BY <1>4, <2>2, <3>1, <3>2 DEF AckAt, Sending
  <2>7. BufferAt(t)'
    <3>1. app[t].ret \in {"synSent", "conn"} => heap'[s].hdr = app[t].sess
      BY <1>2, <2>1 DEF BufferAt, Sending
    <3> QED
      BY <1>4, <2>2, <3>1 DEF BufferAt, Sending, Looking
  <2>8. Untouched(t) /\ FrameKept
    <3>1. \A u \in Thread \ {t} : Holds(app[u]) => app[u].slot \in Slot /\ app[u].slot # s
      BY <2>1, <2>3 DEF OneThread, Always, TableTyped, AppRec
    <3>2. \A r \in Slot \ {s} : fpgaAck'[r] = fpgaAck[r]
      BY <1>3, <1>5, <1>6, <1>7, <1>8
    <3> QED
      BY <1>1, <1>2, <3>1, <3>2 DEF Untouched, FrameKept
  <2>9. ~torn'
    <3>1. ~torn /\ (app[t].kind = "preload" => torn' = torn)
      BY <1>5, <2>1 DEF Alone, PacketInv
    <3>2. app[t].kind = "fast" => Whole(wcDesc, b)
      <4> SUFFICES ASSUME app[t].kind = "fast" PROVE Whole(wcDesc, b)
        OBVIOUS
      <4>1. /\ wcDesc.idx = s /\ b = heap[s] /\ wcDesc.size = b.size /\ wcDesc.csum = b.csum
            /\ b.size = b.len /\ b.csum = <<b.hdr, b.len, b.body>>
        BY <1>2, <1>3, <2>1 DEF BufferAt, Sending
      <4> HIDE DEF b, s
      <4>2. <<b.hdr, b.len, b.body>> # <<>>
        OBVIOUS
      <4> QED
        BY <1>3, <4>1, <4>2 DEF Whole
    <3>3. app[t].kind = "full" => Whole(wcDesc, b)
      <4> SUFFICES ASSUME app[t].kind = "full" PROVE Whole(wcDesc, b)
        OBVIOUS
      <4>1. /\ wcDesc.idx = CONTROL_SESS_ID /\ b = heap[CONTROL_SESS_ID] /\ wcDesc.size = 1
            /\ wcDesc.csum = <<>> /\ b.len = 1 /\ b.csum = <<>>
        BY <1>2, <1>3, <2>1 DEF BufferAt, Sending
      <4> HIDE DEF b, s
      <4> QED
        BY <4>1 DEF Whole
    <3> HIDE DEF b
    <3> QED
      BY <1>6, <1>7, <1>8, <3>1, <3>2, <3>3, Zenon
  <2>10. Fed'
    <3>1. CASE app[t].kind = "fast"
      <4>1. b.hdr = app[t].sess
        BY <1>2, <1>4, <2>1, <3>1 DEF BufferAt, Sending
      <4> DEFINE e == app[t].sess
      <4>2. /\ epmFeedback' = Append(epmFeedback, e) /\ sent' = [sent EXCEPT ![e] = @ + 1]
            /\ mirrored' = mirrored
        BY <1>2, <1>7, <3>1, <4>1
      <4>3. e \in Obj
        BY <2>5
      <4> HIDE DEF e, b, s
      <4> SUFFICES ASSUME NEW o \in Obj
                   PROVE  mirrored'[o] + Count(epmFeedback', o) = sent'[o]
        BY DEF Fed
      <4>4. mirrored[o] + Count(epmFeedback, o) = sent[o]
        BY <2>1 DEF Alone, Fed
      <4>5. Count(epmFeedback', o) = Count(epmFeedback, o) + IF e = o THEN 1 ELSE 0
        <5>1. e \in Obj \cup {NULL} /\ epmFeedback \in Seq(Obj \cup {NULL})
          BY <1>3, <4>3
        <5>2. e = o => Count(Append(epmFeedback, e), o) = Count(epmFeedback, o) + 1
          BY <5>1, CountAppend, Zenon
        <5>3. e # o => Count(Append(epmFeedback, e), o) = Count(epmFeedback, o)
          BY <5>1, CountAppend, Zenon
        <5>4. Count(epmFeedback, o) \in Nat
          BY <1>3, CountType
        <5> QED
          BY <4>2, <5>2, <5>3, <5>4
      <4>6. Count(epmFeedback, o) \in Nat
        BY <1>3, CountType
      <4>7. sent'[o] = sent[o] + IF e = o THEN 1 ELSE 0
        BY <1>3, <4>2, <4>3
      <4>8. mirrored[o] \in Nat /\ sent[o] \in Nat
        BY DEF Always, BufTyped
      <4> QED
        BY <4>2, <4>4, <4>5, <4>6, <4>7, <4>8
    <3>2. CASE app[t].kind # "fast"
      <4>1. UNCHANGED <<sent, epmFeedback, mirrored>>
        BY <1>2, <1>5, <1>6, <1>8, <3>2
      <4> QED
        BY <2>1, <4>1 DEF Alone, Fed, Count
    <3> QED
      BY <3>1, <3>2
  <2>11. \A r \in Slot : tcpSess[r] \in est => fpgaAck'[r] = tcpSess[r]
    <3> SUFFICES ASSUME NEW r \in Slot, tcpSess[r] \in est PROVE fpgaAck'[r] = tcpSess[r]
      OBVIOUS
    <3>1. fpgaAck[r] = tcpSess[r]
      BY <2>1 DEF Alone, AckInv
    <3>2. CASE r = s /\ app[t].kind = "preload"
      <4>1. fpgaAck'[s] = app[t].sess
        BY <1>2, <1>3, <1>4, <1>5, <2>1, <3>2 DEF AckAt, Sending
      <4>2. tcpSess[s] = app[t].sess
        BY <1>2, <1>4, <2>1, <2>3, <3>2 DEF OwnerAt, Leaving
      <4> QED
        BY <3>2, <4>1, <4>2
    <3>3. CASE ~(r = s /\ app[t].kind = "preload")
      BY <1>3, <1>5, <1>6, <1>7, <1>8, <3>1, <3>3
    <3> QED
      BY <3>2, <3>3
  <2>12. UNCHANGED <<tableVars, est, fatal>> /\ leaked \subseteq leaked'
    BY <1>2
  <2>13. app'[t].slot = app[t].slot
    BY <2>2
  <2> QED
    BY <2>1, <2>2, <2>3, <2>4, <2>6, <2>7, <2>8, <2>9, <2>10, <2>11, <2>12, <2>13, AloneBuf
<1> QED
  BY <1>1, <1>9, <1>10

----------------------------------------------------------------------------
(* Closing: the slot is cleared, the session deleted.                       *)

\* The thread clears its slot, its actions or both, and nothing else.
Clears(t) ==
    /\ tcpSess' \in [Slot -> Obj \cup {NULL}]
    /\ a_' \in [0 .. CONTROL_SESS_ID -> Obj \cup {NULL, Ctl}]
    /\ tcpSess'[app[t].slot] \in {tcpSess[app[t].slot], NULL}
    /\ a_'[app[t].slot] \in {a_[app[t].slot], NULL}
    /\ a_'[CONTROL_SESS_ID] = a_[CONTROL_SESS_ID]
    /\ est' \subseteq est
    /\ UNCHANGED <<pLwipNetIf, controlTcpSess, opened, bufVars, wcVars, servVars, sends,
                   leaked, fatal>>
    /\ \A r \in Slot \ {app[t].slot} : tcpSess'[r] = tcpSess[r] /\ a_'[r] = a_[r]

\* Only the session of the slot is deleted.
Deletes(t) ==
    \/ live' = live
    \/ live' = live \ {app[t].sess} /\ (~raced => In(app[t].slot, app[t].sess))

LEMMA TableShrinks ==
    ASSUME Always, TableInv, ~raced, ~Overlap, NEW t \in Thread, AppMove(t), InTable(t),
           Holds(app[t]), Clears(t), Deletes(t), OwnerAt(t)',
           app'[t].pc \in {"idle", "delete", "nullAfter"},
           Holds(app'[t]) => app'[t].slot = app[t].slot,
           ~Holds(app'[t]) => tcpSess'[app[t].slot] = NULL /\ a_'[app[t].slot] = NULL
    PROVE  TableInv' /\ \A u \in Thread \ {t} : Holds(app[u]) => app[u].slot # app[t].slot
<1> DEFINE s == app[t].slot
<1> USE DEF TableInv
<1>1. /\ s \in Slot /\ app[t].sess \in Obj \cup {NULL} /\ TableTyped
      /\ \A u \in Thread \ {t} : app'[u] = app[u]
  BY DEF Always, TableTyped, AppRec, AppMove
<1>2. \A u \in Thread \ {t} : ~InTable(u)
  BY DEF Overlap
<1>3. \A u \in Thread \ {t} : Holds(app[u]) => app[u].slot # s /\ app[u].slot \in Slot
  BY <1>1 DEF OneThread, TableTyped, AppRec
<1>4. NULL \notin Obj /\ Ctl \notin Obj \cup {NULL}
  BY TableAssumption DEF NULL, Obj, Ctl
<1>5. app[t].pc \notin Starting /\ app'[t].pc \notin Starting
  BY DEF Holds, Starting
<1>6. \A r \in Slot : \A o : o # NULL /\ In(r, o)' => In(r, o)
  BY <1>1 DEF Clears, In
<1>7. live' \subseteq live /\ (Ctl \in live => Ctl \in live')
  BY <1>1, <1>4 DEF Deletes
<1>8. Control'
  <2>1. \A u \in Thread : app[u].pc = "control" => app'[u].pc = "control"
    BY <1>1, <1>5 DEF Starting
  <2>2. \A u \in Thread : ControlAt(u)'
    <3> SUFFICES ASSUME NEW u \in Thread PROVE ControlAt(u)'
      OBVIOUS
    <3>1. CASE u = t
      BY <1>5, <3>1 DEF ControlAt, Starting
    <3>2. CASE u # t
      <4>1. ControlAt(u) /\ app'[u] = app[u] /\ pLwipNetIf' = pLwipNetIf
        BY <1>1, <3>2 DEF Control, Clears
      <4> QED
        BY <1>7, <4>1 DEF ControlAt
    <3> QED
      BY <3>1, <3>2
  <2>3. pLwipNetIf' = pLwipNetIf /\ a_'[CONTROL_SESS_ID] = a_[CONTROL_SESS_ID]
    BY DEF Clears
  <2> QED
    BY <1>7, <2>1, <2>2, <2>3 DEF Control
<1>9. Fresh'
  <2> SUFFICES ASSUME NEW u \in Thread, app'[u].pc \in Starting PROVE FreshAt(u)'
    BY DEF Fresh, FreshAt
  <2>1. u # t /\ app'[u] = app[u] /\ FreshAt(u)
    BY <1>1, <1>5 DEF Fresh
  <2>2. app[u].ptr \in 1 .. opened /\ app[u].ptr \notin est
        /\ \A r \in Slot : ~In(r, app[u].ptr)
    BY <2>1 DEF FreshAt
  <2>3. app[u].ptr # NULL
    BY <1>1, <2>2 DEF NULL, TableTyped
  <2>4. \A v \in Thread \ {u} : app'[v].pc \in Starting => app'[v].ptr # app[u].ptr
    BY <1>1, <1>5, <2>1 DEF FreshAt
  <2>5. opened' = opened /\ est' \subseteq est
    BY DEF Clears
  <2>6. \A r \in Slot : ~In(r, app[u].ptr)'
    <3> SUFFICES ASSUME NEW r \in Slot PROVE ~In(r, app[u].ptr)'
      OBVIOUS
    <3>1. ~In(r, app[u].ptr)
      BY <2>2
    <3>2. tcpSess'[r] # app[u].ptr /\ a_'[r] # app[u].ptr
      BY <1>1, <2>3, <3>1 DEF In, Clears
    <3> QED
      BY <2>1, <3>2 DEF In
  <2> QED
    BY <2>1, <2>2, <2>4, <2>5, <2>6 DEF FreshAt
<1>10. Owners'
  <2> SUFFICES ASSUME NEW u \in Thread \ {t} PROVE OwnerAt(u)'
    BY DEF Owners
  <2>1. OwnerAt(u) /\ app'[u] = app[u] /\ app[u].pc # "new" /\ controlTcpSess' = controlTcpSess
    BY <1>1, <1>2 DEF Owners, InTable, Clears
  <2>2. Holds(app[u]) => /\ tcpSess'[app[u].slot] = tcpSess[app[u].slot]
                         /\ a_'[app[u].slot] = a_[app[u].slot]
    BY <1>3 DEF Clears
  <2>3. ~Leaving(app[u]) /\ app[u].pc # "nullAfter"
    BY <1>2 DEF InTable, Leaving, Sending
  <2>4. Holds(app[u]) => tcpSess[app[u].slot] \in live'
    <3> SUFFICES ASSUME Holds(app[u]), tcpSess[app[u].slot] \notin live' PROVE FALSE
      OBVIOUS
    <3> DEFINE o == tcpSess[app[u].slot]
    <3>1. o \in live /\ o # NULL
      BY <2>1, <2>3 DEF OwnerAt
    <3>2. o \in Obj
      BY <1>1, <1>3, <3>1 DEF TableTyped
    <3>3. In(app[u].slot, o)
      BY DEF In
    <3>4. app[t].sess = o /\ In(s, o)
      BY <3>1 DEF Deletes
    <3> HIDE DEF o, s
    <3> QED
      BY <1>1, <1>3, <3>2, <3>3, <3>4 DEF OneSlot
  <2>5. app[u].pc = "reread" => Holds(app[u])
    BY DEF Holds, Starting
  <2>6. Holds(app[u]) /\ app[u].pc # "reread" => tcpSess[app[u].slot] = app[u].sess
    BY <2>1, <2>3 DEF OwnerAt
  <2> QED
    BY <2>1, <2>2, <2>3, <2>4, <2>5, <2>6 DEF OwnerAt
<1>11. OneSlot'
  <2> SUFFICES ASSUME NEW s1 \in Slot, NEW s2 \in Slot, NEW o \in Obj, In(s1, o)', In(s2, o)'
               PROVE  s1 = s2
    BY DEF OneSlot
  <2>1. In(s1, o) /\ In(s2, o)
    BY <1>4, <1>6
  <2> QED
    BY <2>1 DEF OneSlot
<1>12. OneThread'
  BY <1>1, <1>3 DEF OneThread
<1>13. Accounted'
  <2> SUFFICES ASSUME NEW r \in Slot, NEW o \in Obj, In(r, o)'
               PROVE  /\ o <= opened
                      /\ \/ tcpSess'[r] = o /\ a_'[r] = o /\ o \in leaked
                         \/ \E u \in Thread : Holds(app'[u]) /\ app'[u].slot = r
    BY DEF Accounted, Clears
  <2>1. In(r, o)
    BY <1>4, <1>6
  <2>2. o <= opened /\ (\/ tcpSess[r] = o /\ a_[r] = o /\ o \in leaked
                        \/ \E u \in Thread : Holds(app[u]) /\ app[u].slot = r)
    BY <2>1 DEF Accounted
  <2>3. CASE r = s
    <3>1. Holds(app'[t])
      BY <1>4, <2>3 DEF In
    <3> QED
      BY <2>2, <2>3, <3>1
  <2>4. CASE r # s
    <3>1. tcpSess'[r] = tcpSess[r] /\ a_'[r] = a_[r]
      BY <2>4 DEF Clears
    <3> QED
      BY <1>1, <2>2, <2>4, <3>1
  <2> QED
    BY <2>3, <2>4
<1>14. Plain'
  BY <1>1, <1>4 DEF Plain, Clears
<1> QED
  BY <1>3, <1>8, <1>9, <1>10, <1>11, <1>12, <1>13, <1>14

LEMMA SlotShrinks ==
    ASSUME SessInv, NEW t \in Thread, AppMove(t), InTable(t), Holds(app[t]), Clears(t), Deletes(t),
           ~raced => OwnerAt(t)', app'[t].pc \in {"idle", "delete", "nullAfter"},
           Holds(app'[t]) => app'[t].slot = app[t].slot,
           ~raced /\ ~Holds(app'[t]) => tcpSess'[app[t].slot] = NULL /\ a_'[app[t].slot] = NULL
    PROVE  SessInv'
<1> USE DEF SessInv
<1>1. Always' /\ (~raced' => ~raced /\ ~Overlap /\ ~Overlap')
  <2>1. raced' \in BOOLEAN
    BY TrackKeeps DEF AppMove, Always, TableTyped
  <2>2. TableTyped' /\ BufTyped'
    BY <2>1 DEF Always, TableTyped, BufTyped, AppMove, Clears
  <2> QED
    BY <2>2, AlwaysMove DEF Clears
<1>2. ServInv'
  BY DEF ServInv, Clears
<1>3. ASSUME ~raced' PROVE Alone'
  <2>1. Alone /\ TableInv /\ ~Overlap /\ ~raced
    BY <1>1, <1>3 DEF Alone
  <2>2. TableInv' /\ \A u \in Thread \ {t} : Holds(app[u]) => app[u].slot # app[t].slot
    BY <2>1, TableShrinks
  <2>3. UNCHANGED <<bufVars, wcVars, servVars, fatal>> /\ \A u \in Thread \ {t} : app'[u] = app[u]
    BY DEF Clears, AppMove
  <2>4. \A u \in Thread \ {t} : AckAt(u)' /\ BufferAt(u)'
    <3>1. Untouched(t) /\ FrameKept
      BY <2>3 DEF Untouched, FrameKept, IsFrame
    <3> QED
      BY <2>1, <2>3, <3>1, BuffersOthers DEF Alone
  <2>5. AckAt(t)' /\ BufferAt(t)'
    BY DEF AckAt, BufferAt, Sending, Looking
  <2>6. \A r \in Slot : tcpSess'[r] \in est' => fpgaAck'[r] = tcpSess'[r]
    <3> SUFFICES ASSUME NEW r \in Slot, tcpSess'[r] \in est' PROVE fpgaAck'[r] = tcpSess'[r]
      OBVIOUS
    <3>1. tcpSess'[r] \in est
      BY DEF Clears
    <3>2. tcpSess'[r] # NULL
      BY <2>1, <3>1 DEF TableInv, Plain, NULL, Always, TableTyped
    <3>3. tcpSess'[r] = tcpSess[r]
      BY <3>2 DEF Clears
    <3> QED
      BY <2>1, <2>3, <3>1, <3>3 DEF Alone, AckInv
  <2>7. AckInv' /\ PacketInv' /\ Fed'
    BY <2>1, <2>3, <2>4, <2>5, <2>6 DEF Alone, AckInv, PacketInv, Fed, Count
  <2> QED
    BY <2>1, <2>2, <2>3, <2>7 DEF Alone
<1> QED
  BY <1>1, <1>2, <1>3

LEMMA CallNullSlot ==
    ASSUME SessInv, NEW t \in Thread, NullSlot(t)
    PROVE  SessInv'
<1> DEFINE s == app[t].slot
<1>1. /\ app[t].pc = "null" /\ TableTyped /\ Path(app[t]) /\ s \in Slot /\ Track
      /\ tcpSess' = [tcpSess EXCEPT ![s] = NULL] /\ Goto(t, "delete")
      /\ UNCHANGED <<pLwipNetIf, a_, live, controlTcpSess, opened, bufVars, wcVars, servVars, est,
                     sends, leaked, fatal>>
  BY DEF NullSlot, At, SessInv, Always, Paths, TableTyped, AppRec
<1>2. Steps(t, "delete", app[t].ret, app[t].kind, app[t].how)
  BY <1>1, SetsGoto DEF Pcs
<1>3. app[t].how = "none"
  BY <1>1 DEF Path, Sending, TableTyped, AppRec
<1>4. AppMove(t)
  BY <1>1, <1>2, <1>3 DEF AppMove, Steps, Sets, Path, Looking, Sending
<1>5. Clears(t)
  BY <1>1 DEF Clears, TableTyped
<1>6. Deletes(t)
  BY <1>1 DEF Deletes
<1>7. Holds(app[t]) /\ InTable(t) /\ Holds(app'[t]) /\ app'[t].slot = s
      /\ app'[t].pc = "delete" /\ app'[t].sess = app[t].sess /\ app'[t].how = "none"
  BY <1>1, <1>2, <1>3 DEF Holds, InTable, Starting, Steps, Sets
<1>8. ~raced => OwnerAt(t)'
  <2> SUFFICES ASSUME ~raced PROVE OwnerAt(t)'
    OBVIOUS
  <2>1. OwnerAt(t)
    BY DEF SessInv, Alone, TableInv, Owners
  <2>2. ~Leaving(app[t]) /\ Leaving(app'[t])
    BY <1>1, <1>7 DEF Leaving, Sending
  <2>3. tcpSess'[s] = NULL /\ UNCHANGED <<a_, live, controlTcpSess>>
    BY <1>1 DEF TableTyped
  <2> QED
    BY <1>1, <1>7, <2>1, <2>2, <2>3 DEF OwnerAt
<1> HIDE DEF s
<1>9. /\ Holds(app'[t]) => app'[t].slot = app[t].slot
      /\ ~raced /\ ~Holds(app'[t]) => tcpSess'[app[t].slot] = NULL /\ a_'[app[t].slot] = NULL
      /\ app'[t].pc \in {"idle", "delete", "nullAfter"}
  BY <1>7 DEF s
<1> QED
  BY <1>4, <1>5, <1>6, <1>7, <1>8, <1>9, SlotShrinks

LEMMA CallDelete ==
    ASSUME SessInv, NEW t \in Thread, DeleteTcpSess(t)
    PROVE  SessInv'
<1> DEFINE s == app[t].slot
<1>1. /\ app[t].pc = "free" /\ TableTyped /\ Path(app[t]) /\ s \in Slot /\ Track
      /\ a_' = [a_ EXCEPT ![s] = NULL] /\ live' = live \ {app[t].sess}
      /\ est' = est \ {app[t].sess}
      /\ UNCHANGED <<pLwipNetIf, tcpSess, controlTcpSess, opened, bufVars, wcVars, servVars,
                     sends, leaked, fatal>>
  BY DEF DeleteTcpSess, DeleteActions, At, SessInv, Always, Paths, TableTyped, AppRec
<1>2. IF app[t].how = "socketClose"
      THEN Steps(t, "nullAfter", app[t].ret, app[t].kind, app[t].how) ELSE Ends(t)
  BY <1>1, SetsDelete
<1>3. s \in 0 .. CONTROL_SESS_ID /\ s # CONTROL_SESS_ID
  BY <1>1, TableAssumption DEF Slot, CONTROL_SESS_ID
<1>4. AppMove(t)
  BY <1>1, <1>2 DEF AppMove, Steps, Ends, Sets, Path, Looking, Sending
<1>5. Clears(t)
  <2>1. a_' \in [0 .. CONTROL_SESS_ID -> Obj \cup {NULL, Ctl}]
    BY <1>1, <1>3 DEF TableTyped
  <2>2. a_'[s] = NULL /\ a_'[CONTROL_SESS_ID] = a_[CONTROL_SESS_ID]
        /\ \A r \in Slot \ {s} : a_'[r] = a_[r]
    BY <1>1, <1>3, TableAssumption DEF TableTyped, Slot, CONTROL_SESS_ID
  <2> QED
    BY <1>1, <2>1, <2>2 DEF Clears, TableTyped
<1>6. Holds(app[t]) /\ InTable(t)
  BY <1>1 DEF Holds, InTable, Starting
<1>7. ASSUME ~raced
      PROVE  /\ OwnerAt(t) /\ app[t].sess # NULL /\ a_[s] = app[t].sess
             /\ tcpSess[s] = IF Leaving(app[t]) THEN NULL ELSE app[t].sess
  <2>1. OwnerAt(t)
    BY <1>7 DEF SessInv, Alone, TableInv, Owners
  <2> QED
    BY <1>1, <1>6, <2>1 DEF OwnerAt
<1>8. Deletes(t)
  BY <1>1, <1>7 DEF Deletes, In
<1>9. Leaving(app[t]) <=> app[t].how = "none"
  BY <1>1 DEF Leaving, Sending
<1>10. app[t].how \in {"none", "socketClose"}
  BY <1>1 DEF TableTyped, AppRec
<1>11. ~raced => OwnerAt(t)'
  <2> SUFFICES ASSUME ~raced PROVE OwnerAt(t)'
    OBVIOUS
  <2>1. CASE app[t].how = "socketClose"
    <3>1. /\ app'[t].pc = "nullAfter" /\ app'[t].sess = app[t].sess /\ app'[t].slot = s
          /\ app'[t].how = "socketClose" /\ Holds(app'[t]) /\ ~Leaving(app'[t])
      BY <1>2, <2>1 DEF Steps, Sets, Holds, Starting, Leaving
    <3>2. a_'[s] = NULL /\ UNCHANGED <<tcpSess, controlTcpSess>>
      BY <1>1, <1>3 DEF TableTyped
    <3>3. app[t].sess \in controlTcpSess
      BY <1>1, <1>6, <1>7 DEF OwnerAt
    <3>4. tcpSess[s] = app[t].sess
      BY <1>7, <1>9, <2>1
    <3> QED
      BY <1>7, <3>1, <3>2, <3>3, <3>4 DEF OwnerAt
  <2>2. CASE app[t].how = "none"
    <3>1. app'[t].pc = "idle" /\ app'[t].sess = NULL /\ ~Holds(app'[t])
      BY <1>2, <2>2 DEF Ends, Sets, Holds
    <3> QED
      BY <3>1 DEF OwnerAt
  <2> QED
    BY <1>10, <2>1, <2>2
<1>12. app'[t].pc \in {"idle", "nullAfter"} /\ (Holds(app'[t]) => app'[t].slot = s)
  BY <1>2 DEF Steps, Ends, Sets, Holds
<1>13. ~raced /\ ~Holds(app'[t]) => tcpSess'[s] = NULL /\ a_'[s] = NULL
  <2> SUFFICES ASSUME ~raced, ~Holds(app'[t]) PROVE tcpSess'[s] = NULL /\ a_'[s] = NULL
    OBVIOUS
  <2>1. app[t].how = "none"
    BY <1>2, <1>10 DEF Steps, Sets, Holds, Starting
  <2> QED
    BY <1>1, <1>3, <1>7, <1>9, <2>1 DEF TableTyped
<1> QED
  BY <1>4, <1>5, <1>6, <1>8, <1>11, <1>12, <1>13, SlotShrinks

LEMMA CallNullAfter ==
    ASSUME SessInv, NEW t \in Thread, NullSlotAfter(t)
    PROVE  SessInv'
<1> DEFINE s == app[t].slot
<1>1. /\ app[t].pc = "nullAfter" /\ TableTyped /\ s \in Slot /\ Track
      /\ tcpSess' = [tcpSess EXCEPT ![s] = NULL] /\ app' = [app EXCEPT ![t] = AppInit]
      /\ UNCHANGED <<pLwipNetIf, a_, live, controlTcpSess, opened, bufVars, wcVars, servVars, est,
                     sends, leaked, fatal>>
  BY DEF NullSlotAfter, At, SessInv, Always, TableTyped, AppRec
<1>2. Ends(t)
  BY <1>1, SetsInit
<1>3. AppMove(t)
  BY <1>1, <1>2 DEF AppMove, Ends, Sets, Path, Looking, Sending
<1>4. Clears(t)
  BY <1>1 DEF Clears, TableTyped
<1>5. Deletes(t)
  BY <1>1 DEF Deletes
<1>6. Holds(app[t]) /\ InTable(t) /\ ~Holds(app'[t]) /\ app'[t].pc = "idle" /\ app'[t].sess = NULL
  BY <1>1, <1>2 DEF Holds, InTable, Starting, Ends, Sets
<1>7. ~raced => OwnerAt(t)'
  BY <1>6 DEF OwnerAt
<1>8. ~raced => tcpSess'[s] = NULL /\ a_'[s] = NULL
  <2> SUFFICES ASSUME ~raced PROVE tcpSess'[s] = NULL /\ a_'[s] = NULL
    OBVIOUS
  <2>1. OwnerAt(t)
    BY DEF SessInv, Alone, TableInv, Owners
  <2> QED
    BY <1>1, <1>6, <2>1 DEF OwnerAt, TableTyped
<1> QED
  BY <1>3, <1>4, <1>5, <1>6, <1>7, <1>8, SlotShrinks

----------------------------------------------------------------------------
(* ServThread.                                                              *)

LEMMA ServMove ==
    ASSUME SessInv, Track, serv' \in ServRec, mirrored' \in [Obj -> Nat],
           epmFeedback' \in Seq(Obj \cup {NULL}), ServInv', ~raced => Fed',
           UNCHANGED <<tableVars, bufVars, busy, wcDesc, txBuf, lastBuf, torn, sent, fpgaAck, app,
                       est, sends, leaked, fatal>>
    PROVE  SessInv'
<1> USE DEF SessInv
<1>1. raced \in BOOLEAN /\ (Overlap => raced)
  BY DEF Always, TableTyped
<1>2. Overlap' <=> Overlap
  BY DEF Overlap, InTable, InInit
<1>3. raced' \in BOOLEAN /\ (raced' <=> raced)
  BY <1>1, <1>2, Zenon DEF Track
<1>4. Always'
  <2>1. TableTyped' /\ BufTyped'
    BY <1>3 DEF Always, TableTyped, BufTyped
  <2>2. Paths' /\ Window'
    BY DEF Always, Paths, Path, Looking, Sending, Window
  <2> QED
    BY <2>1, <2>2, <1>1, <1>2, <1>3 DEF Always
<1>5. ASSUME ~raced' PROVE Alone'
  <2>1. Alone /\ Fed'
    BY <1>3, <1>5
  <2>2. Control' /\ Fresh'
    BY <2>1 DEF Alone, TableInv, Control, ControlAt, Fresh, FreshAt, In
  <2>3. Owners'
    BY <2>1 DEF Alone, TableInv, Owners, OwnerAt, Leaving, Sending, Holds
  <2>4. OneSlot' /\ OneThread' /\ Accounted' /\ Plain'
    BY <2>1 DEF Alone, TableInv, OneSlot, OneThread, Accounted, Plain, In, Holds
  <2>5. AckInv'
    BY <2>1 DEF Alone, AckInv, AckAt, Sending
  <2>6. PacketInv'
    BY <2>1 DEF Alone, PacketInv, BufferAt, Sending, Looking
  <2> QED
    BY <2>1, <2>2, <2>3, <2>4, <2>5, <2>6 DEF Alone, TableInv
<1> QED
  BY <1>4, <1>5

LEMMA ServLooks ==
    ASSUME SessInv, ServTake \/ ServLoad \/ ServFollow
    PROVE  SessInv'
<1>1. /\ serv \in ServRec /\ mirrored \in [Obj -> Nat] /\ epmFeedback \in Seq(Obj \cup {NULL})
      /\ tcpSess \in [Slot -> Obj \cup {NULL}] /\ ServInv /\ (~raced => Fed)
  BY DEF SessInv, Always, BufTyped, TableTyped, Alone
<1>2. CASE \E why \in {"notFound", "useAfterFree"} : Die(why)
  BY <1>2, Dies
<1>3. CASE ~\E why \in {"notFound", "useAfterFree"} : Die(why)
  <2>1. /\ Track
        /\ UNCHANGED <<tableVars, bufVars, wcVars, app, mirrored, est, sends, leaked, fatal>>
    BY <1>3 DEF ServTake, ServLoad, ServFollow
  <2>2. serv' \in ServRec
    <3>1. CASE ServTake
      BY <3>1 DEF ServTake, ServRec
    <3>2. CASE ServLoad
      <4>1. serv.i \in Slot /\ serv.i \in Nat
        BY <1>1, <1>3, <3>2 DEF ServLoad, ServRec
      <4>2. CASE tcpSess[serv.i] = NULL
        <5> DEFINE n == serv.i + 1
        <5>1. serv' = [serv EXCEPT !.i = n] /\ n \in Nat
          BY <1>3, <3>2, <4>1, <4>2 DEF ServLoad
        <5> HIDE DEF n
        <5> QED
          BY <1>1, <5>1 DEF ServRec
      <4>3. CASE tcpSess[serv.i] # NULL
        <5> DEFINE o == tcpSess[serv.i]
        <5>1. serv' = [serv EXCEPT !.ptr = o, !.pc = "follow"] /\ o \in Obj \cup {NULL}
          BY <1>1, <1>3, <3>2, <4>1, <4>3 DEF ServLoad
        <5> HIDE DEF o
        <5> QED
          BY <1>1, <5>1 DEF ServRec
      <4> QED
        BY <4>2, <4>3
    <3>3. CASE ServFollow
      <4> DEFINE n == serv.i + 1
      <4>1. n \in Nat /\ serv' = IF MyParams(serv.ptr) THEN [serv EXCEPT !.pc = "write"]
                                 ELSE [serv EXCEPT !.i = n, !.pc = "load"]
        BY <1>1, <1>3, <3>3 DEF ServFollow, ServRec
      <4> HIDE DEF n
      <4>2. CASE MyParams(serv.ptr)
        BY <1>1, <4>1, <4>2 DEF ServRec
      <4>3. CASE ~MyParams(serv.ptr)
        BY <1>1, <4>1, <4>3 DEF ServRec
      <4> QED
        BY <4>2, <4>3
    <3> QED
      BY <3>1, <3>2, <3>3
  <2>3. epmFeedback # <<>> /\ (serv'.pc = "write" => serv'.ptr = Head(epmFeedback))
    <3>1. CASE ServTake
      BY <3>1 DEF ServTake
    <3>2. CASE ServLoad
      <4>1. serv.pc = "load" /\ serv' \in {[serv EXCEPT !.i = @ + 1],
              [serv EXCEPT !.ptr = tcpSess[serv.i], !.pc = "follow"]}
        BY <1>3, <3>2 DEF ServLoad
      <4>2. serv'.pc # "write"
        BY <1>1, <4>1 DEF ServRec
      <4> QED
        BY <1>1, <4>1, <4>2 DEF ServInv
    <3>3. CASE ServFollow
      <4>1. serv.pc = "follow"
            /\ serv' = IF MyParams(serv.ptr) THEN [serv EXCEPT !.pc = "write"]
                       ELSE [serv EXCEPT !.i = @ + 1, !.pc = "load"]
        BY <1>3, <3>3 DEF ServFollow
      <4>2. CASE MyParams(serv.ptr)
        BY <1>1, <4>1, <4>2 DEF ServRec, ServInv, MyParams
      <4>3. CASE ~MyParams(serv.ptr)
        <5>1. serv'.pc = "load"
          BY <1>1, <4>1, <4>3 DEF ServRec
        <5> QED
          BY <1>1, <4>1, <5>1 DEF ServInv
      <4> QED
        BY <4>2, <4>3
    <3> QED
      BY <3>1, <3>2, <3>3
  <2>4. ServInv'
    BY <2>1, <2>3 DEF ServInv
  <2>5. ~raced => Fed'
    BY <1>1, <2>1 DEF Fed, Count
  <2> QED
    BY <1>1, <2>1, <2>2, <2>4, <2>5, ServMove
<1> QED
  BY <1>2, <1>3

LEMMA ServWrites ==
    ASSUME SessInv, ServWrite
    PROVE  SessInv'
<1>1. CASE serv.ptr \notin live
  BY <1>1, Dies DEF ServWrite
<1>2. CASE serv.ptr \in live
  <2> DEFINE e == serv.ptr
             n == mirrored[e] + 1
  <2>1. /\ Track /\ mirrored' = [mirrored EXCEPT ![e] = n] /\ epmFeedback' = Tail(epmFeedback)
        /\ serv' = [pc |-> "idle", i |-> 0, ptr |-> NULL] /\ serv.pc = "write"
        /\ UNCHANGED <<tableVars, bufVars, busy, wcDesc, txBuf, lastBuf, torn, sent, fpgaAck, app,
                       est, sends, leaked, fatal>>
    BY <1>2 DEF ServWrite
  <2>2. /\ mirrored \in [Obj -> Nat] /\ sent \in [Obj -> Nat]
        /\ epmFeedback \in Seq(Obj \cup {NULL})
        /\ epmFeedback # <<>> /\ e = Head(epmFeedback) /\ (~raced => Fed)
    BY <2>1 DEF SessInv, Always, BufTyped, ServInv, Alone
  <2>3. e \in Obj => n \in Nat /\ n = mirrored[e] + 1
    BY <2>2
  <2> HIDE DEF e, n
  <2>4. serv' \in ServRec /\ ServInv'
    BY <2>1 DEF ServRec, ServInv
  <2>5. mirrored' \in [Obj -> Nat]
    BY <2>1, <2>2, <2>3
  <2>6. epmFeedback' \in Seq(Obj \cup {NULL})
    BY <2>1, <2>2, HeadTailProperties
  <2>7. ~raced => Fed'
    <3> SUFFICES ASSUME ~raced, NEW o \in Obj
                 PROVE  mirrored'[o] + Count(epmFeedback', o) = sent'[o]
      BY DEF Fed
    <3>1. mirrored[o] + Count(epmFeedback, o) = sent[o]
      BY <2>2 DEF Fed
    <3>2. e = o => Count(epmFeedback, o) = Count(epmFeedback', o) + 1
      BY <2>1, <2>2, CountTail, Zenon
    <3>3. e # o => Count(epmFeedback, o) = Count(epmFeedback', o)
      BY <2>1, <2>2, CountTail, Zenon
    <3>4. Count(epmFeedback', o) \in Nat /\ mirrored[o] \in Nat
      BY <2>2, <2>6, CountType
    <3>5. CASE e = o
      <4>1. mirrored'[o] = mirrored[o] + 1
        BY <2>1, <2>2, <2>3, <3>5
      <4> QED
        BY <2>1, <3>1, <3>2, <3>4, <3>5, <4>1
    <3>6. CASE e # o
      <4>1. mirrored'[o] = mirrored[o]
        BY <2>1, <2>2, <3>6
      <4> QED
        BY <2>1, <3>1, <3>3, <3>4, <3>6, <4>1
    <3> QED
      BY <3>5, <3>6
  <2> QED
    BY <2>1, <2>4, <2>5, <2>6, <2>7, ServMove
<1> QED
  BY <1>1, <1>2

----------------------------------------------------------------------------
(* The theorems.                                                            *)

LEMMA SessInit == Init => SessInv
<1> SUFFICES ASSUME Init PROVE SessInv
  OBVIOUS
<1>1. /\ 0 \in Slot /\ 0 \in 0 .. CONTROL_SESS_ID /\ NULL \notin Obj /\ MaxOpens \in Nat
      /\ Slot \subseteq 0 .. CONTROL_SESS_ID /\ CONTROL_SESS_ID \in 0 .. CONTROL_SESS_ID
  BY TableAssumption DEF Slot, CONTROL_SESS_ID, NULL, Obj
<1>2. \A t \in Thread : /\ app[t] = AppInit /\ app[t].pc = "idle" /\ app[t].sess = NULL
                        /\ app[t].ret = "none" /\ app[t].how = "none" /\ app[t].kind = "none"
  BY DEF Init, AppInit
<1>3. TableTyped
  <2>1. AppInit \in AppRec
    BY <1>1 DEF AppInit, AppRec, Pcs, Rets
  <2>2. pLwipNetIf \in BOOLEAN /\ raced \in BOOLEAN
    BY Zenon DEF Init
  <2>3. /\ tcpSess \in [Slot -> Obj \cup {NULL}]
        /\ a_ \in [0 .. CONTROL_SESS_ID -> Obj \cup {NULL, Ctl}]
    BY DEF Init
  <2>4. opened \in 0 .. MaxOpens /\ sends \in Nat
    BY <1>1 DEF Init
  <2>5. app \in [Thread -> AppRec]
    BY <2>1 DEF Init
  <2> QED
    BY <2>2, <2>3, <2>4, <2>5 DEF TableTyped
<1>4. BufTyped
  <2>1. Blank(NULL) \in BufRec
    BY BlankBuf
  <2>2. NoDesc \in DescRec
    BY <1>1 DEF NoDesc, DescRec, Csums
  <2>3. serv \in ServRec
    BY DEF Init, ServRec
  <2>4. torn \in BOOLEAN
    BY Zenon DEF Init
  <2>5. heap \in [0 .. CONTROL_SESS_ID -> BufRec] /\ wcDesc \in DescRec
    BY <2>1, <2>2 DEF Init
  <2>6. ackHeap \in [Slot -> Obj \cup {NULL}] /\ fpgaAck \in [Slot -> Obj \cup {NULL}]
    BY DEF Init
  <2>7. /\ busy \subseteq Thread /\ sent \in [Obj -> Nat] /\ mirrored \in [Obj -> Nat]
        /\ epmFeedback \in Seq(Obj \cup {NULL})
    BY DEF Init
  <2> QED
    BY <2>3, <2>4, <2>5, <2>6, <2>7 DEF BufTyped
<1>5. Paths
  BY <1>2 DEF Paths, Path, Looking, Sending
<1>6. Window
  BY <1>2 DEF Init, Window, NoDesc
<1>7. ~Overlap
  BY <1>2 DEF Overlap, InTable, InInit
<1>8. ServInv
  BY DEF Init, ServInv
<1>9. \A s \in Slot : \A o \in Obj : ~In(s, o)
  BY <1>1 DEF Init, In
<1>10. TableInv
  <2>1. Control /\ Fresh
    BY <1>1, <1>2 DEF Init, Control, ControlAt, Fresh, FreshAt, Starting
  <2>2. Owners /\ OneThread
    BY <1>2 DEF Owners, OwnerAt, OneThread, Holds
  <2>3. OneSlot /\ Accounted
    BY <1>9 DEF OneSlot, Accounted
  <2>4. Plain
    BY <1>1 DEF Init, Plain, NULL, Ctl
  <2> QED
    BY <2>1, <2>2, <2>3, <2>4 DEF TableInv
<1>11. AckInv /\ PacketInv
  BY <1>2 DEF Init, AckInv, AckAt, PacketInv, BufferAt, Sending, Looking
<1>12. Fed
  <2> SUFFICES ASSUME NEW o \in Obj PROVE mirrored[o] + Count(epmFeedback, o) = sent[o]
    BY DEF Fed
  <2>1. {k \in DOMAIN epmFeedback : epmFeedback[k] = o} = {}
    BY DEF Init
  <2>2. Count(epmFeedback, o) = 0
    BY <2>1, FS_EmptySet DEF Count
  <2> QED
    BY <2>2 DEF Init
<1>13. fatal = "none"
  BY DEF Init
<1> QED
  BY <1>3, <1>4, <1>5, <1>6, <1>7, <1>8, <1>10, <1>11, <1>12, <1>13 DEF SessInv, Always, Alone

LEMMA SessStutters ==
    ASSUME SessInv, UNCHANGED vars
    PROVE  SessInv'
<1> USE DEF vars
<1>1. Track
  <2>1. raced \in BOOLEAN /\ (Overlap => raced) /\ raced' = raced
    BY DEF SessInv, Always, TableTyped
  <2>2. Overlap' <=> Overlap
    BY DEF Overlap, InTable, InInit
  <2> QED
    BY <2>1, <2>2, Zenon DEF Track
<1>2. ServInv' /\ (~raced => Fed')
  BY DEF SessInv, ServInv, Alone, Fed, Count
<1>3. serv \in ServRec /\ mirrored \in [Obj -> Nat] /\ epmFeedback \in Seq(Obj \cup {NULL})
  BY DEF SessInv, Always, BufTyped
<1> QED
  BY <1>1, <1>2, <1>3, ServMove

LEMMA SessStep ==
    ASSUME SessInv, [Next]_vars
    PROVE  SessInv'
<1>1. ASSUME NEW t \in Thread,
             Open(t) \/ ExcConnect(t) \/ TcpSend(t) \/ ExcSend(t) \/ ExcClose(t) \/ CloseSock(t)
             \/ ExcSocketClose(t)
      PROVE  SessInv'
  BY <1>1, CallOpen, CallFinds, CallExc
<1>2. ASSUME NEW t \in Thread, CallStep(t) PROVE SessInv'
  <2>1. CASE InitTcp(t) \/ InitControl(t) \/ SocketLock(t) \/ GetFreeTcpSess(t) \/ AddTcpSess(t)
             \/ RereadSock(t)
    BY <2>1, CallInitTcp, CallInitControl, CallLock, CallGetFree, CallAdd, CallReread
  <2>2. CASE Load(t) \/ Follow(t) \/ NotFound(t)
    BY <2>2, CallLoad, CallFollow, CallNotFound
  <2>3. CASE Connect(t) \/ ConnectNoArp(t) \/ SendSyn(t) \/ Connected(t) \/ Refused(t)
    BY <2>3, CallConnect, CallRefused, CallSendSyn, CallConnected
  <2>4. CASE SetPktHdr(t) \/ SetPktPayload(t) \/ WcDesc(t) \/ WcPayload(t)
    BY <2>4, CallSetHdr, CallSetPayload, CallWcDesc, CallWcPayload
  <2>5. CASE NullSlot(t) \/ LwipClose(t) \/ DeleteTcpSess(t) \/ NullSlotAfter(t)
    BY <2>5, CallNullSlot, CallLwipClose, CallDelete, CallNullAfter
  <2> QED
    BY <1>2, <2>1, <2>2, <2>3, <2>4, <2>5 DEF CallStep
<1>3. CASE ServStep
  BY <1>3, ServLooks, ServWrites DEF ServStep
<1>4. CASE UNCHANGED vars
  BY <1>4, SessStutters
<1> QED
  BY <1>1, <1>2, <1>3, <1>4 DEF Next

LEMMA SessKept == Spec => []SessInv
<1>1. Init => SessInv
  BY SessInit
<1>2. SessInv /\ [Next]_vars => SessInv'
  BY SessStep
<1> QED
  BY <1>1, <1>2, PTL DEF Spec

\* on_error("a_[%d] is already set") of addTcpSess() and the missing control session
\* of connect() need two threads that met in the table or in initTcp(): however many
\* sessions are opened and closed one after the other, no call trips over an old one.
THEOREM SessSequentialIsSafe == Spec => []SequentialIsSafe
<1>1. SessInv => SequentialIsSafe
  BY Zenon DEF SessInv, Alone, SequentialIsSafe
<1> QED
  BY <1>1, SessKept, PTL

\* The session of a thread is alive in the thread's own slot of core->tcpSess with its
\* own EPM action until the thread closes it, and no other thread has it.
THEOREM SessOwnSessionStays == Spec => []OwnSessionStays
<1>1. ASSUME SessInv PROVE OwnSessionStays
  <2> SUFFICES ASSUME ~raced, NEW t \in Thread, Owns(t)
               PROVE  /\ app[t].sess \in live
                      /\ tcpSess[app[t].slot] = app[t].sess /\ a_[app[t].slot] = app[t].sess
                      /\ \A u \in Thread \ {t} : app[u].sess # app[t].sess
    BY DEF OwnSessionStays
  <2>1. Always /\ TableInv /\ OwnerAt(t) /\ app[t] \in AppRec /\ app[t].slot \in Slot
        /\ app[t].sess \in Obj
    BY <1>1 DEF SessInv, Always, Alone, TableInv, Owners, TableTyped, AppRec, Owns
  <2>2. Holds(app[t])
    BY <2>1 DEF OwnerAt, Owns
  <2>3. ~Leaving(app[t]) /\ app[t].pc \notin {"nullAfter", "reread"}
    BY <2>1 DEF Owns, Leaving, Sending, Between
  <2>4. /\ app[t].sess \in live
        /\ tcpSess[app[t].slot] = app[t].sess /\ a_[app[t].slot] = app[t].sess
    BY <2>1, <2>2, <2>3 DEF OwnerAt
  <2>5. ASSUME NEW u \in Thread \ {t}, app[u].sess = app[t].sess PROVE FALSE
    <3>1. OwnerAt(u) /\ app[u].slot \in Slot /\ app[u].sess # NULL
      BY <2>1, <2>5, TableAssumption DEF TableInv, Owners, Always, TableTyped, AppRec, Obj, NULL
    <3>2. Holds(app[u]) /\ app[u].pc # "reread"
      BY <3>1 DEF OwnerAt
    <3>3. In(app[u].slot, app[u].sess)
      <4>1. app[u].pc = "nullAfter" => ~Leaving(app[u])
        BY DEF Leaving, Sending
      <4> QED
        BY <3>1, <3>2, <4>1 DEF OwnerAt, In
    <3>4. In(app[t].slot, app[t].sess)
      BY <2>4 DEF In
    <3>5. app[u].slot = app[t].slot
      BY <2>1, <2>5, <3>1, <3>3, <3>4 DEF TableInv, OneSlot
    <3> QED
      BY <2>1, <2>2, <3>2, <3>5 DEF TableInv, OneThread
  <2> QED
    BY <2>4, <2>5
<1> QED
  BY <1>1, SessKept, PTL

\* A slot that getFreeTcpSess() passes over has a thread that will clear it, or belongs to
\* a session that a failed tcpConnect() has kept: no slot is lost between the calls.
THEOREM SessSlotsAccounted == Spec => []SlotsAccounted
<1>1. ASSUME SessInv PROVE SlotsAccounted
  <2> SUFFICES ASSUME ~raced, NEW s \in Slot, tcpSess[s] # NULL
               PROVE  \/ tcpSess[s] \in leaked
                      \/ \E t \in Thread : app[t].pc # "idle" /\ app[t].slot = s
    BY DEF SlotsAccounted
  <2>1. tcpSess[s] \in Obj /\ In(s, tcpSess[s]) /\ Accounted
    BY <1>1 DEF SessInv, Always, TableTyped, Alone, TableInv, In
  <2> QED
    BY <2>1 DEF Accounted, Holds
<1> QED
  BY <1>1, SessKept, PTL

\* Length, size and checksum of every packet the FPGA takes from the WC window are those
\* of the payload behind them, whatever packets other threads put into the window.
THEOREM SessWholePackets == Spec => []WholePackets
<1>1. SessInv => WholePackets
  BY Zenon DEF SessInv, Alone, PacketInv, WholePackets
<1> QED
  BY <1>1, SessKept, PTL

\* Two packets in a row go to different TX buffers of the FPGA, even after threads have met.
THEOREM SessBuffersAlternate == Spec => []BuffersAlternate
<1>1. ASSUME SessInv PROVE BuffersAlternate
  BY <1>1 DEF SessInv, Always, Window, BuffersAlternate
<1> QED
  BY <1>1, SessKept, PTL

\* The empty ACKs of an established session carry its own headers, never those of the
\* session that had the slot before.
THEOREM SessAckHeadersFresh == Spec => []AckHeadersFresh
<1>1. ASSUME SessInv PROVE AckHeadersFresh
  BY <1>1 DEF SessInv, Alone, AckInv, AckHeadersFresh
<1> QED
  BY <1>1, SessKept, PTL

\* Every fast path packet is written into the socket of the session that sent it, once:
\* those written and those still in the feedback queue are all that were sent.
THEOREM SessFeedbackToSender == Spec => []FeedbackToSender
<1>1. ASSUME SessInv PROVE FeedbackToSender
  BY <1>1 DEF SessInv, Alone, Fed, Count, FeedbackToSender
<1> QED
  BY <1>1, SessKept, PTL

============================================================================
