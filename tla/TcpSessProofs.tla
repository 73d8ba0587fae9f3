--------------------------- MODULE TcpSessProofs ---------------------------
(* What holds of TcpSess for every number of sessions, threads, bytes and   *)
(* window sizes.                                                            *)
EXTENDS TcpSess, ModArith, FiniteSetTheorems, TLAPS

\* The entry a thread works on stays at the head of its DMA channel.
HeadHeld ==
    /\ serv.pc \in {"write", "written"} => epmFeedback # <<>>
    /\ rx.pc \in {"storeAck", "delay"} => lwipRx # <<>>

TypeInv == TypeOK /\ HeadHeld

\* The ACKs of a session wait in lwipRx in the order the exchange sent them: none
\* is older than the number TcpRxThread last stored, none is newer than what the
\* exchange acknowledged last.
AckChain ==
    /\ \A i \in 1..Len(lwipRx) :
         /\ realTcpRemoteAckNum[lwipRx[i].s] <= lwipRx[i].ack
         /\ lwipRx[i].ack <= peerAck[lwipRx[i].s]
    /\ \A i, j \in 1..Len(lwipRx) :
         i < j /\ lwipRx[i].s = lwipRx[j].s => lwipRx[i].ack <= lwipRx[j].ack

\* Nothing of a session arrives before the exchange has answered its SYN.
Handshake ==
    \A s \in Sess :
      /\ conn[s] \in {"closed", "synSent"} => \A i \in 1..Len(lwipRx) : lwipRx[i].s # s
      /\ conn[s] = "closed" => tcpRemoteAckNum[s] = 0
      /\ conn[s] = "synSent" => realTcpRemoteAckNum[s] = Base /\ peerAck[s] = Base

\* The 32-bit number is the low half of the 64-bit one, or no ACK has come yet;
\* between the two stores of updateRx() rx.prev still is.
LowHalf(s, ack32) == ack32 = realTcpRemoteAckNum[s] % SeqMod \/ ack32 = 0

AckTracked ==
    \A s \in Sess :
      IF rx.pc = "storeAck" /\ Head(lwipRx).s = s
      THEN LowHalf(s, rx.prev) /\ tcpRemoteAckNum[s] = Head(lwipRx).ack % SeqMod
      ELSE LowHalf(s, tcpRemoteAckNum[s])

RealBehindPeer == \A s \in Sess : realTcpRemoteAckNum[s] <= peerAck[s]

\* What updateRx() takes to be acknowledged is, between its loads, unless lwIP
\* transmitted there.
DelayedAck ==
    LET s == Head(lwipRx).s IN
    rx.pc = "delay" /\ s \notin overtaken =>
      /\ rx.at = "load"   => realTxDriverBytes[s] <= realTcpRemoteAckNum[s]
      /\ rx.at = "insert" => lastInsertedEmptyAck[s] <= realTcpRemoteAckNum[s]

SentWasWritten == \A s \in Sess : s \notin finSent => lwipSndNxt[s] <= lwipWritten[s]

AckInv ==
    /\ AckChain
    /\ Handshake
    /\ AckTracked
    /\ RealBehindPeer
    /\ DelayedAck
    /\ SentWasWritten
    /\ AckIsTrue

\* The first byte of the stream has a number of the sequence space.
LEMMA BaseNat == Base \in Nat /\ Base < SeqMod
BY ConstAssumption, DivMod DEF Base

\* A 64-bit counter cut to 32 bits is a sequence number.
LEMMA SeqRange ==
    ASSUME NEW a \in Nat
    PROVE  a % SeqMod \in 0..(SeqMod - 1)
<1>1. a \in Int /\ SeqMod \in Nat \ {0}
  BY ConstAssumption
<1> QED
  BY <1>1, DivMod, Zenon

USE ConstAssumption
USE DEF flags, devVars, rxCntrs, txCntrs, cntrVars, sessVars, peerVars, lwipVars, fpgaVars, vars


\* Appending keeps a channel a sequence and leaves it nonempty.
LEMMA SeqAppend ==
    ASSUME NEW S, NEW q \in Seq(S), NEW x \in S
    PROVE  Append(q, x) \in Seq(S) /\ Append(q, x) # <<>>
OBVIOUS

\* The head of a nonempty channel is an entry, its tail a channel.
LEMMA SeqHeadTail ==
    ASSUME NEW S, NEW q \in Seq(S), q # <<>>
    PROVE  Head(q) \in S /\ Tail(q) \in Seq(S)
OBVIOUS

\* A sending thread carries its session and its payload size (preSendCheck).
LEMMA AppFields ==
    ASSUME TypeOK, NEW t \in Thread, app[t].pc # "idle"
    PROVE  /\ app[t].s \in Sess
           /\ app[t].n \in 1..MAX_PAYLOAD_SIZE
           /\ app[t].pc = "loadAck" => app[t].fast \in Nat
           /\ app[t].pc = "check" => app[t].unAcked \in Nat
           /\ app[t].pc = "limit" => app[t].fast \in Nat
<1>1. app[t] \in AppState
  BY DEF TypeOK
<1> QED
  BY <1>1 DEF AppState, Idle

\* ServThread in lwipDummyWrite() carries the session and the sizes.
LEMMA ServFields ==
    ASSUME TypeOK, serv.pc \in {"write", "written"}
    PROVE  /\ serv.s \in Sess
           /\ serv.n \in 1..MAX_PAYLOAD_SIZE
           /\ serv.left \in 0..MAX_PAYLOAD_SIZE
<1>1. serv \in ServState
  BY DEF TypeOK
<1> QED
  BY <1>1 DEF ServState, Idle

\* The entry of epmFeedback that ServThread reads.
LEMMA FeedbackHead ==
    ASSUME TypeOK, epmFeedback # <<>>
    PROVE  /\ Head(epmFeedback).s \in Sess
           /\ Head(epmFeedback).n \in 1..MAX_PAYLOAD_SIZE
           /\ Head(epmFeedback).hw \in BOOLEAN
           /\ Tail(epmFeedback) \in Seq(Feedback)
<1>1. Head(epmFeedback) \in Feedback /\ Tail(epmFeedback) \in Seq(Feedback)
  BY SeqHeadTail DEF TypeOK
<1> QED
  BY <1>1 DEF Feedback

\* The packet of lwipRx that TcpRxThread reads.
LEMMA RxHead ==
    ASSUME TypeOK, lwipRx # <<>>
    PROVE  /\ Head(lwipRx).s \in Sess
           /\ Head(lwipRx).ack \in Nat
           /\ Head(lwipRx).wnd \in Nat
           /\ Head(lwipRx).syn \in BOOLEAN
           /\ Tail(lwipRx) \in Seq(RxPkt)
<1>1. Head(lwipRx) \in RxPkt /\ Tail(lwipRx) \in Seq(RxPkt)
  BY SeqHeadTail DEF TypeOK
<1> QED
  BY <1>1 DEF RxPkt

\* seq32to64() never runs ahead: from the low half of the previous number, or
\* from none, it gives a number no larger than the true one.
LEMMA Seq32to64Below ==
    ASSUME NEW prev64 \in Nat, NEW ack \in Nat, NEW prev32 \in Nat,
           prev64 <= ack, prev32 = prev64 % SeqMod \/ prev32 = 0
    PROVE  LET r == seq32to64(prev64, prev32, ack % SeqMod) IN
           /\ r \in Nat
           /\ r <= ack
           /\ r % SeqMod = ack % SeqMod
<1> DEFINE r == seq32to64(prev64, prev32, ack % SeqMod)
           p == prev64 \div SeqMod
           q == ack \div SeqMod
           p32 == prev64 % SeqMod
           a32 == ack % SeqMod
<1>0. p \in Int /\ p32 \in 0..(SeqMod - 1) /\ prev64 = SeqMod * p + p32
  <2>1. prev64 \in Int
    OBVIOUS
  <2> QED BY <2>1, DivMod, ConstAssumption, Zenon
<1>b. q \in Int /\ a32 \in 0..(SeqMod - 1) /\ ack = SeqMod * q + a32
  BY DivMod, ConstAssumption
<1> HIDE DEF p, q, p32, a32
<1>1. /\ p \in Int /\ p32 \in 0..(SeqMod - 1) /\ prev64 = SeqMod * p + p32
      /\ q \in Int /\ a32 \in 0..(SeqMod - 1) /\ ack = SeqMod * q + a32
  BY <1>0, <1>b
<1>2. SeqMod * p \in Int /\ SeqMod * q \in Int /\ SeqMod * (p + 1) = SeqMod * p + SeqMod
  BY <1>1, ConstAssumption
<1>a. 0 <= SeqMod * p
  BY <1>1, ConstAssumption
<1> HIDE DEF p, q, p32, a32
<1>3. p <= q
  <2> SUFFICES ASSUME q < p PROVE FALSE
    BY <1>1
  <2> QED BY <1>1, <1>2, MulLess, ConstAssumption
<1>4. SeqMod * p <= SeqMod * q
  BY <1>1, <1>2, <1>3, MulLess, ConstAssumption
<1>5. CASE a32 < prev32
  <2>1. prev32 = p32
    BY <1>5, <1>1 DEF p32
  <2>2. p < q
    <3> SUFFICES ASSUME p = q PROVE FALSE
      BY <1>1, <1>3
    <3> QED BY <1>1, <1>2, <1>5, <2>1
  <2>3. SeqMod * p + SeqMod <= SeqMod * q
    BY <2>2, <1>1, MulLess, ConstAssumption
  <2>4. (prev64 + SeqMod) % SeqMod = p32
    <3>1. prev64 + SeqMod = SeqMod * (p + 1) + p32
      BY <1>1, <1>2, ConstAssumption
    <3> QED BY <3>1, <1>1, ModUnique, ConstAssumption
  <2>5. r = SeqMod * (p + 1) + a32
    BY <1>1, <1>2, <1>5, <2>4, ConstAssumption DEF seq32to64, a32
  <2>6. r % SeqMod = a32
    <3>1. p + 1 \in Int
      BY <1>1
    <3> HIDE DEF r
    <3> QED BY <2>5, <3>1, <1>1, ModUnique, ConstAssumption
  <2> QED BY <1>1, <1>2, <1>a, <2>3, <2>5, <2>6, ConstAssumption DEF a32
<1>6. CASE ~(a32 < prev32)
  <2>1. r = SeqMod * p + a32
    BY <1>1, <1>2, <1>6, ConstAssumption DEF seq32to64, a32, p32
  <2>2. r % SeqMod = a32
    BY <2>1, <1>1, ModUnique, ConstAssumption
  <2> QED BY <1>1, <1>2, <1>a, <1>4, <2>1, <2>2, ConstAssumption DEF a32
<1> QED BY <1>5, <1>6

\* The initial state is typed.
LEMMA TypeInit == Init => TypeInv
BY DEF Init, TypeInv, TypeOK, HeadHeld, Idle, AppState, ServState, RxState

\* seq32to64() gives a counter.
LEMMA Seq32to64Nat ==
    ASSUME NEW prev64 \in Nat, NEW prev32, NEW new32 \in Nat
    PROVE  seq32to64(prev64, prev32, new32 % SeqMod) \in Nat
<1> DEFINE new64 == prev64 + (IF new32 % SeqMod < prev32 THEN SeqMod ELSE 0)
<1>1. new64 \in Nat
  OBVIOUS
<1> HIDE DEF new64
<1>2. new64 % SeqMod \in Nat /\ new64 % SeqMod <= new64 /\ new32 % SeqMod \in Nat
  BY <1>1, DivMod, ModBelow
<1>3. seq32to64(prev64, prev32, new32 % SeqMod) = (new64 - (new64 % SeqMod)) + (new32 % SeqMod)
  BY DEF seq32to64, new64
<1> QED
  BY <1>1, <1>2, <1>3

\* Every step keeps the types, action by action.
LEMMA TypeStep == TypeInv /\ [Next]_vars => TypeInv'
<1> SUFFICES ASSUME TypeInv, [Next]_vars PROVE TypeInv'
  OBVIOUS
<1> USE DEF TypeInv
<1>1. ASSUME NEW s \in Sess, SendSyn(s) PROVE TypeInv'
  <2>1. /\ conn \in [Sess -> {"closed", "synSent", "synAcked", "firstAck", "up"}]
        /\ tcpLocalSeqNum \in [Sess -> 0..(SeqMod - 1)]
        /\ realTcpRemoteAckNum \in [Sess -> Nat]
        /\ realFastPathBytes \in [Sess -> Nat]
        /\ realTxDriverBytes \in [Sess -> Nat]
        /\ realDummyBytes \in [Sess -> Nat]
        /\ wire \in [Sess -> Nat]
        /\ peerAck \in [Sess -> Nat]
        /\ lwipWritten \in [Sess -> Nat]
        /\ lwipSndNxt \in [Sess -> Nat]
        /\ lwipLastAck \in [Sess -> Nat]
    BY DEF TypeOK
  <2>2. /\ conn' \in [Sess -> {"closed", "synSent", "synAcked", "firstAck", "up"}]
        /\ tcpLocalSeqNum' \in [Sess -> 0..(SeqMod - 1)]
        /\ realTcpRemoteAckNum' \in [Sess -> Nat]
    BY <1>1, <2>1, BaseNat DEF SendSyn
  <2>3. /\ realFastPathBytes' \in [Sess -> Nat]
        /\ realTxDriverBytes' \in [Sess -> Nat]
        /\ realDummyBytes' \in [Sess -> Nat]
    BY <1>1, <2>1, BaseNat DEF SendSyn
  <2>4. /\ wire' \in [Sess -> Nat]
        /\ peerAck' \in [Sess -> Nat]
    BY <1>1, <2>1, BaseNat DEF SendSyn
  <2>5. /\ lwipWritten' \in [Sess -> Nat]
        /\ lwipSndNxt' \in [Sess -> Nat]
        /\ lwipLastAck' \in [Sess -> Nat]
    BY <1>1, <2>1, BaseNat DEF SendSyn
  <2> QED
    BY <1>1, <2>2, <2>3, <2>4, <2>5 DEF TypeOK, HeadHeld, SendSyn
<1>2. ASSUME NEW s \in Sess, NEW w \in PeerWnds, PeerSynAck(s, w) PROVE TypeInv'
  <2>1. /\ conn \in [Sess -> {"closed", "synSent", "synAcked", "firstAck", "up"}]
        /\ lwipRx \in Seq(RxPkt)
        /\ peerEdge \in [Sess -> Nat]
    BY DEF TypeOK
  <2>2. [s |-> s, ack |-> Base, wnd |-> w, syn |-> TRUE] \in RxPkt
    BY BaseNat DEF RxPkt
  <2>3. /\ conn' \in [Sess -> {"closed", "synSent", "synAcked", "firstAck", "up"}]
        /\ peerEdge' \in [Sess -> Nat]
    BY <1>2, <2>1, <2>2, BaseNat DEF PeerSynAck
  <2>4. /\ lwipRx' \in Seq(RxPkt)
        /\ lwipRx' # <<>>
    BY <1>2, <2>1, <2>2, SeqAppend DEF PeerSynAck
  <2> QED
    BY <1>2, <2>3, <2>4 DEF TypeOK, HeadHeld, PeerSynAck
<1>3. ASSUME NEW s \in Sess, ConnectReturn(s) PROVE TypeInv'
  BY <1>3 DEF TypeOK, HeadHeld, ConnectReturn
<1>4. ASSUME NEW t \in Thread, NEW s \in Sess, NEW n \in 1..MAX_PAYLOAD_SIZE, PreSendLoadFastPath(t, s, n)
      PROVE  TypeInv'
  <2>1. /\ app \in [Thread -> AppState]
        /\ realFastPathBytes \in [Sess -> Nat]
    BY DEF TypeOK
  <2>2. app' \in [Thread -> AppState]
    BY <1>4, <2>1 DEF PreSendLoadFastPath, AppState
  <2> QED
    BY <1>4, <2>2 DEF TypeOK, HeadHeld, PreSendLoadFastPath
<1>5. ASSUME NEW t \in Thread, PreSendLoadAck(t) PROVE TypeInv'
  <2>1. /\ app \in [Thread -> AppState]
        /\ realTcpRemoteAckNum \in [Sess -> Nat]
    BY DEF TypeOK
  <2>2. app[t].s \in Sess /\ app[t].n \in 1..MAX_PAYLOAD_SIZE
    BY <1>5, AppFields DEF PreSendLoadAck
  <2>3. Positive(app[t].fast - realTcpRemoteAckNum[app[t].s]) \in Nat
    BY <1>5, <2>1, <2>2, AppFields DEF PreSendLoadAck, Positive
  <2>4. app' \in [Thread -> AppState]
    BY <1>5, <2>1, <2>2, <2>3 DEF PreSendLoadAck, AppState
  <2> QED
    BY <1>5, <2>4 DEF TypeOK, HeadHeld, PreSendLoadAck
<1>6. ASSUME NEW t \in Thread, PreSendCheck(t) PROVE TypeInv'
  <2>1. app \in [Thread -> AppState] /\ globalFastPathBytes \in Nat
    BY DEF TypeOK
  <2>2. app[t].s \in Sess /\ app[t].n \in 1..MAX_PAYLOAD_SIZE
    BY <1>6, AppFields DEF PreSendCheck
  <2>3. app' \in [Thread -> AppState]
    BY <1>6, <2>1, <2>2 DEF PreSendCheck, AppState
  <2> QED
    BY <1>6, <2>3 DEF TypeOK, HeadHeld, PreSendCheck
<1>29. ASSUME NEW t \in Thread, PreSendLimit(t) PROVE TypeInv'
  <2>1. app \in [Thread -> AppState]
    BY DEF TypeOK
  <2>2. app[t].s \in Sess /\ app[t].n \in 1..MAX_PAYLOAD_SIZE
    BY <1>29, AppFields DEF PreSendLimit
  <2>3. app' \in [Thread -> AppState]
    BY <1>29, <2>1, <2>2 DEF PreSendLimit, AppState
  <2> QED
    BY <1>29, <2>3 DEF TypeOK, HeadHeld, PreSendLimit
<1>7. ASSUME NEW t \in Thread, PreSendCount(t) PROVE TypeInv'
  <2>1. /\ app \in [Thread -> AppState]
        /\ realFastPathBytes \in [Sess -> Nat]
    BY DEF TypeOK
  <2>2. app[t].s \in Sess /\ app[t].n \in 1..MAX_PAYLOAD_SIZE
    BY <1>7, AppFields DEF PreSendCount
  <2>3. [app[t] EXCEPT !.pc = "send"] \in AppState
    BY <1>7, <2>1, <2>2 DEF PreSendCount, AppState, Idle
  <2>4. realFastPathBytes' \in [Sess -> Nat]
    BY <1>7, <2>1, <2>2 DEF PreSendCount
  <2> QED
    BY <1>7, <2>3, <2>4 DEF TypeOK, HeadHeld, PreSendCount
<1>8. ASSUME NEW t \in Thread, FastSend(t) PROVE TypeInv'
  <2>1. /\ app \in [Thread -> AppState]
        /\ globalFastPathBytes \in Nat
        /\ wire \in [Sess -> Nat]
        /\ epmFeedback \in Seq(Feedback)
    BY DEF TypeOK
  <2>2. app[t].s \in Sess /\ app[t].n \in 1..MAX_PAYLOAD_SIZE
    BY <1>8, AppFields DEF FastSend
  <2>3. [s |-> app[t].s, seq |-> wire[app[t].s], n |-> app[t].n, hw |-> FALSE] \in Feedback
    BY <2>1, <2>2 DEF Feedback
  <2>4. app' \in [Thread -> AppState]
    BY <1>8, <2>1, <2>2, <2>3 DEF FastSend, AppState
  <2>5. globalFastPathBytes' \in Nat
    BY <1>8, <2>1, <2>2, <2>3 DEF FastSend
  <2>6. wire' \in [Sess -> Nat]
    BY <1>8, <2>1, <2>2, <2>3 DEF FastSend, FpgaSend
  <2>7. /\ epmFeedback' \in Seq(Feedback)
        /\ epmFeedback' # <<>>
    BY <1>8, <2>1, <2>2, <2>3, SeqAppend DEF FastSend, FpgaSend
  <2> QED
    BY <1>8, <2>4, <2>5, <2>6, <2>7 DEF TypeOK, HeadHeld, FastSend
<1>9. ASSUME NEW s \in Sess, NEW n \in 1..MAX_PAYLOAD_SIZE, HwFire(s, n)
      PROVE  TypeInv'
  <2>1. /\ wire \in [Sess -> Nat]
        /\ fired \in [Sess -> Nat]
        /\ epmFeedback \in Seq(Feedback)
    BY DEF TypeOK
  <2>2. [s |-> s, seq |-> wire[s], n |-> n, hw |-> TRUE] \in Feedback
    BY <2>1 DEF Feedback
  <2>3. fired' \in [Sess -> Nat]
    BY <1>9, <2>1, <2>2 DEF HwFire
  <2>4. wire' \in [Sess -> Nat]
    BY <1>9, <2>1, <2>2 DEF HwFire, FpgaSend
  <2>5. /\ epmFeedback' \in Seq(Feedback)
        /\ epmFeedback' # <<>>
    BY <1>9, <2>1, <2>2, SeqAppend DEF HwFire, FpgaSend
  <2> QED
    BY <1>9, <2>3, <2>4, <2>5 DEF TypeOK, HeadHeld, HwFire
<1>10. ASSUME NEW s \in Sess, PeerAckAny(s) PROVE TypeInv'
  <2>1. /\ peerAck \in [Sess -> Nat]
        /\ peerEdge \in [Sess -> Nat]
        /\ lwipRx \in Seq(RxPkt)
        /\ wire \in [Sess -> Nat]
    BY DEF TypeOK
  <2>2. PICK a \in peerAck[s]..PeerGot(s), w \in PeerWnds : PeerSendAck(s, a, w)
    BY <1>10 DEF PeerAckAny
  <2>3. a \in Nat
    BY <2>1, <2>2 DEF PeerGot
  <2>4. peerAck' \in [Sess -> Nat] /\ peerEdge' \in [Sess -> Nat]
    BY <2>1, <2>2, <2>3 DEF PeerSendAck
  <2>5. [s |-> s, ack |-> a, wnd |-> w, syn |-> FALSE] \in RxPkt
    BY <2>3 DEF RxPkt
  <2>6. lwipRx' \in Seq(RxPkt) /\ lwipRx' # <<>>
    BY <2>1, <2>2, <2>5, SeqAppend DEF PeerSendAck, PeerSend
  <2> QED
    BY <2>2, <2>4, <2>6 DEF TypeOK, HeadHeld, PeerSendAck
<1>11. ASSUME NEW s \in Sess, Lose(s) PROVE TypeInv'
  <2>1. /\ lost \subseteq Sess
        /\ faults \in Nat
    BY DEF TypeOK
  <2>2. /\ lost' \subseteq Sess
        /\ faults' \in Nat
    BY <1>11, <2>1 DEF Lose
  <2> QED
    BY <1>11, <2>2 DEF TypeOK, HeadHeld, Lose
<1>12. ASSUME NEW s \in Sess, NEW a \in Base..peerAck[s], NEW w \in PeerWnds, StaleAck(s, a, w)
      PROVE  TypeInv'
  <2>1. /\ lwipRx \in Seq(RxPkt)
        /\ faults \in Nat
        /\ peerAck \in [Sess -> Nat]
    BY DEF TypeOK
  <2>2. [s |-> s, ack |-> a, wnd |-> w, syn |-> FALSE] \in RxPkt
    BY BaseNat, <2>1 DEF RxPkt
  <2>3. faults' \in Nat
    BY <1>12, <2>1, <2>2 DEF StaleAck
  <2>4. /\ lwipRx' \in Seq(RxPkt)
        /\ lwipRx' # <<>>
    BY <1>12, <2>1, <2>2, SeqAppend DEF StaleAck, PeerSend
  <2> QED
    BY <1>12, <2>3, <2>4 DEF TypeOK, HeadHeld, StaleAck
<1>13. ASSUME NEW s \in Sess, PeerReset(s) PROVE TypeInv'
  BY <1>13 DEF TypeOK, HeadHeld, PeerReset
<1>14. ASSUME ServTake PROVE TypeInv'
  <2>1. /\ realFastPathBytes \in [Sess -> Nat]
        /\ globalFastPathBytes \in Nat
        /\ epmFeedback \in Seq(Feedback)
        /\ serv \in ServState
    BY DEF TypeOK
  <2>2. Head(epmFeedback).s \in Sess /\ Head(epmFeedback).n \in 1..MAX_PAYLOAD_SIZE
    BY <1>14, FeedbackHead DEF ServTake
  <2>3. HwBytes(Head(epmFeedback)) \in Nat /\ Tail(epmFeedback) \in Seq(Feedback)
    BY <1>14, FeedbackHead DEF ServTake, HwBytes
  <2>4. serv' \in ServState
    BY <1>14, <2>1, <2>2, <2>3 DEF ServTake, ServState
  <2>5. realFastPathBytes' \in [Sess -> Nat]
    BY <1>14, <2>1, <2>2, <2>3 DEF ServTake
  <2>6. globalFastPathBytes' \in Nat
    BY <1>14, <2>1, <2>2, <2>3 DEF ServTake
  <2>7. /\ epmFeedback' \in Seq(Feedback)
        /\ serv'.pc \in {"write", "written"} => epmFeedback' # <<>>
    BY <1>14, <2>1, <2>2, <2>3 DEF ServTake
  <2> QED
    BY <1>14, <2>4, <2>5, <2>6, <2>7 DEF TypeOK, HeadHeld, ServTake
<1>15. ASSUME ServWrite PROVE TypeInv'
  <2>1. /\ serv \in ServState
        /\ lwipWritten \in [Sess -> Nat]
        /\ lwipLastAck \in [Sess -> Nat]
        /\ txLwipBp \subseteq Sess
    BY DEF TypeOK
  <2>2. serv.s \in Sess /\ serv.n \in 1..MAX_PAYLOAD_SIZE /\ serv.left \in 0..MAX_PAYLOAD_SIZE
    BY <1>15, ServFields DEF ServWrite
  <2>3. LwipTakes(serv.s, serv.left) \in 0..serv.left
    BY <2>1, <2>2 DEF LwipTakes, LwipRoom, Lesser, Positive
  <2>4. serv' \in ServState
    BY <1>15, <2>1, <2>2, <2>3 DEF ServWrite, ServState, Idle
  <2>5. serv'.pc \in {"write", "written"}
    BY <1>15, <2>1, <2>2, <2>3 DEF ServWrite, ServState
  <2>6. lwipWritten' \in [Sess -> Nat]
    BY <1>15, <2>1, <2>2, <2>3 DEF ServWrite
  <2>7. txLwipBp' \subseteq Sess
    BY <1>15, <2>1, <2>2, <2>3 DEF ServWrite
  <2> QED
    BY <1>15, <2>4, <2>5, <2>6, <2>7 DEF TypeOK, HeadHeld, ServWrite
<1>16. ASSUME ServWritten PROVE TypeInv'
  <2>1. /\ realDummyBytes \in [Sess -> Nat]
        /\ globalDummyBytes \in Nat
        /\ txLwipBp \subseteq Sess
    BY DEF TypeOK
  <2>2. serv.s \in Sess /\ serv.n \in 1..MAX_PAYLOAD_SIZE /\ serv.left \in 0..MAX_PAYLOAD_SIZE
    BY <1>16, ServFields DEF ServWritten
  <2>3. Tail(epmFeedback) \in Seq(Feedback)
    BY <1>16, FeedbackHead DEF HeadHeld, ServWritten
  <2>4. /\ serv' \in ServState
        /\ serv'.pc = "idle"
    BY <1>16, <2>1, <2>2, <2>3 DEF ServWritten, ServState, Idle
  <2>5. realDummyBytes' \in [Sess -> Nat]
    BY <1>16, <2>1, <2>2, <2>3 DEF ServWritten
  <2>6. globalDummyBytes' \in Nat
    BY <1>16, <2>1, <2>2, <2>3 DEF ServWritten
  <2>7. txLwipBp' \subseteq Sess
    BY <1>16, <2>1, <2>2, <2>3 DEF ServWritten
  <2>8. epmFeedback' \in Seq(Feedback)
    BY <1>16, <2>1, <2>2, <2>3 DEF ServWritten
  <2>9. slip' \in Nat
    <3>1. slip \in Nat
      BY DEF TypeOK
    <3>2. HwBytes(Head(epmFeedback)) \in Nat
      BY <1>16, FeedbackHead DEF HeadHeld, ServWritten, HwBytes
    <3>3. slip' = Slipped
      BY <1>16 DEF ServWritten
    <3> QED
      BY <3>1, <3>2, <3>3 DEF Slipped
  <2> QED
    BY <1>16, <2>4, <2>5, <2>6, <2>7, <2>8, <2>9 DEF TypeOK, HeadHeld, ServWritten
<1>17. ASSUME ServWriteError PROVE TypeInv'
  <2>1. Tail(epmFeedback) \in Seq(Feedback)
    BY <1>17, FeedbackHead DEF HeadHeld, ServWriteError
  <2>2. /\ serv' \in ServState
        /\ serv'.pc = "terminated"
    BY <1>17, <2>1 DEF ServWriteError, ServState
  <2>3. epmFeedback' \in Seq(Feedback)
    BY <1>17, <2>1 DEF ServWriteError
  <2> QED
    BY <1>17, <2>2, <2>3 DEF TypeOK, HeadHeld, ServWriteError
<1>18. ASSUME ServExit PROVE TypeInv'
  <2>1. /\ serv' \in ServState
        /\ serv'.pc = "terminated"
    BY <1>18 DEF ServExit, ServState
  <2> QED
    BY <1>18, <2>1 DEF TypeOK, HeadHeld, ServExit
<1>19. ASSUME NEW s \in Sess, LwipOutput(s) PROVE TypeInv'
  <2>1. /\ lwipSndNxt \in [Sess -> Nat]
        /\ tcpLocalSeqNum \in [Sess -> 0..(SeqMod - 1)]
        /\ realTxDriverBytes \in [Sess -> Nat]
        /\ lost \subseteq Sess
        /\ lwipWritten \in [Sess -> Nat]
        /\ lwipSndWnd \in [Sess -> Nat]
        /\ lwipLastAck \in [Sess -> Nat]
    BY DEF TypeOK
  <2>2. LwipMaySend(s) \in Nat
    BY <1>19, <2>1 DEF LwipOutput, LwipMaySend, Lesser, Positive
  <2>3. lwipSndNxt[s] + LwipMaySend(s) \in Nat
    BY <2>1, <2>2
  <2>4. (lwipSndNxt[s] + LwipMaySend(s)) % SeqMod \in 0..(SeqMod - 1)
    BY <2>3, SeqRange
  <2>5. lwipSndNxt' \in [Sess -> Nat]
    BY <1>19, <2>1, <2>2, <2>3, <2>4 DEF LwipOutput
  <2>6. tcpLocalSeqNum' \in [Sess -> 0..(SeqMod - 1)]
    BY <1>19, <2>1, <2>2, <2>3, <2>4 DEF LwipOutput, sendStackEthFrame
  <2>7. realTxDriverBytes' \in [Sess -> Nat]
    BY <1>19, <2>1, <2>2, <2>3, <2>4 DEF LwipOutput, sendStackEthFrame, CountTx
  <2>o. overtaken' \subseteq Sess
    <3>1. overtaken \subseteq Sess
      BY DEF TypeOK
    <3> QED
      BY <1>19, <3>1 DEF LwipOutput, sendStackEthFrame, CountTx
  <2>8. lost' \subseteq Sess
    BY <1>19, <2>1, <2>2, <2>3, <2>4 DEF LwipOutput, sendStackEthFrame
  <2> QED
    BY <1>19, <2>5, <2>6, <2>7, <2>8, <2>o DEF TypeOK, HeadHeld, LwipOutput
<1>20. ASSUME NEW s \in Sess, LwipSendFin(s) PROVE TypeInv'
  <2>1. /\ lwipSndNxt \in [Sess -> Nat]
        /\ lwipWritten \in [Sess -> Nat]
        /\ finSent \subseteq Sess
    BY DEF TypeOK
  <2>2. lwipSndNxt[s] + LwipMaySend(s) \in Nat
    BY <1>20, <2>1 DEF LwipSendFin, FinNow
  <2>3. lwipSndNxt' \in [Sess -> Nat]
    BY <1>20, <2>1, <2>2 DEF LwipSendFin
  <2>4. finSent' \subseteq Sess
    BY <1>20, <2>1, <2>2 DEF LwipSendFin
  <2> QED
    BY <1>20, <2>3, <2>4 DEF TypeOK, HeadHeld, LwipSendFin
<1>21. ASSUME NEW s \in Sess, LwipRetransmit(s) PROVE TypeInv'
  <2>1. /\ lwipSndNxt \in [Sess -> Nat]
        /\ lwipLastAck \in [Sess -> Nat]
        /\ tcpLocalSeqNum \in [Sess -> 0..(SeqMod - 1)]
        /\ realTxDriverBytes \in [Sess -> Nat]
        /\ lost \subseteq Sess
    BY DEF TypeOK
  <2>2. Lesser(MAX_PAYLOAD_SIZE, lwipSndNxt[s] - lwipLastAck[s]) \in Nat
    BY <1>21, <2>1 DEF LwipRetransmit, Lesser
  <2>3. lwipLastAck[s] + Lesser(MAX_PAYLOAD_SIZE, lwipSndNxt[s] - lwipLastAck[s]) \in Nat
    BY <2>1, <2>2
  <2>4. (lwipLastAck[s] + Lesser(MAX_PAYLOAD_SIZE, lwipSndNxt[s] - lwipLastAck[s])) % SeqMod
          \in 0..(SeqMod - 1)
    BY <2>3, SeqRange
  <2>5. tcpLocalSeqNum' \in [Sess -> 0..(SeqMod - 1)]
    BY <1>21, <2>1, <2>2, <2>3, <2>4 DEF LwipRetransmit, sendStackEthFrame
  <2>6. realTxDriverBytes' \in [Sess -> Nat]
    BY <1>21, <2>1, <2>2, <2>3, <2>4 DEF LwipRetransmit, sendStackEthFrame, CountTx
  <2>o. overtaken' \subseteq Sess
    <3>1. overtaken \subseteq Sess
      BY DEF TypeOK
    <3> QED
      BY <1>21, <3>1 DEF LwipRetransmit, sendStackEthFrame, CountTx
  <2>7. lost' \subseteq Sess
    BY <1>21, <2>1, <2>2, <2>3, <2>4 DEF LwipRetransmit, sendStackEthFrame
  <2> QED
    BY <1>21, <2>5, <2>6, <2>7, <2>o DEF TypeOK, HeadHeld, LwipRetransmit
<1>22. ASSUME RxStoreWnd PROVE TypeInv'
  <2>1. /\ tcpSndWnd \in [Sess -> Nat]
        /\ tcpRemoteAckNum \in [Sess -> 0..(SeqMod - 1)]
    BY DEF TypeOK
  <2>2. /\ Head(lwipRx).s \in Sess /\ Head(lwipRx).ack \in Nat
        /\ Head(lwipRx).wnd \in Nat /\ Tail(lwipRx) \in Seq(RxPkt)
    BY <1>22, RxHead DEF RxStoreWnd
  <2>3. Head(lwipRx).ack % SeqMod \in 0..(SeqMod - 1)
    BY <2>2, SeqRange
  <2>4. rx' \in RxState
    BY <1>22, <2>1, <2>2, <2>3 DEF RxStoreWnd, RxState
  <2>5. /\ tcpSndWnd' \in [Sess -> Nat]
        /\ tcpRemoteAckNum' \in [Sess -> 0..(SeqMod - 1)]
    BY <1>22, <2>1, <2>2, <2>3 DEF RxStoreWnd
  <2> QED
    BY <1>22, <2>4, <2>5 DEF TypeOK, HeadHeld, RxStoreWnd
<1>23. ASSUME RxStoreAck PROVE TypeInv'
  <2>1. /\ realTcpRemoteAckNum \in [Sess -> Nat]
        /\ rx \in RxState
    BY DEF TypeOK
  <2>2. /\ Head(lwipRx).s \in Sess /\ Head(lwipRx).ack \in Nat
        /\ Head(lwipRx).wnd \in Nat /\ Tail(lwipRx) \in Seq(RxPkt)
    BY <1>23, RxHead DEF HeadHeld, RxStoreAck
  <2>3. seq32to64(realTcpRemoteAckNum[Head(lwipRx).s], rx.prev, Head(lwipRx).ack % SeqMod) \in Nat
    BY <2>1, <2>2, Seq32to64Nat
  <2>4. rx' \in RxState
    BY <1>23, <2>1, <2>2, <2>3 DEF RxStoreAck, RxState
  <2>5. realTcpRemoteAckNum' \in [Sess -> Nat]
    BY <1>23, <2>1, <2>2, <2>3 DEF RxStoreAck
  <2> QED
    BY <1>23, <2>4, <2>5 DEF TypeOK, HeadHeld, RxStoreAck
<1>24. ASSUME RxInsertEmptyAck PROVE TypeInv'
  <2>1. /\ lastInsertedEmptyAck \in [Sess -> Nat]
        /\ lwipLastAck \in [Sess -> Nat]
        /\ lwipSndWnd \in [Sess -> Nat]
        /\ rx \in RxState
    BY DEF TypeOK
  <2>2. Head(lwipRx).s \in Sess /\ Head(lwipRx).wnd \in Nat
    BY <1>24, RxHead DEF HeadHeld, RxInsertEmptyAck
  <2>3. rx' \in RxState /\ rx'.pc = "delay"
    BY <1>24, <2>1 DEF RxInsertEmptyAck, RxState, Idle
  <2>4. /\ lwipLastAck' \in [Sess -> Nat]
        /\ lwipSndWnd' \in [Sess -> Nat]
    BY <1>24, <2>1, <2>2 DEF RxInsertEmptyAck, LwipInput
  <2> QED
    BY <1>24, <2>3, <2>4 DEF TypeOK, HeadHeld, RxInsertEmptyAck
<1>30. ASSUME RxTestAhead PROVE TypeInv'
  <2>1. rx \in RxState
    BY DEF TypeOK
  <2>2. rx' \in RxState /\ rx'.pc = "delay"
    BY <1>30, <2>1 DEF RxTestAhead, RxState, Idle
  <2> QED
    BY <1>30, <2>2 DEF TypeOK, HeadHeld, RxTestAhead
<1>31. ASSUME RxLoadTx PROVE TypeInv'
  <2>1. /\ lastInsertedEmptyAck \in [Sess -> Nat] /\ realTxDriverBytes \in [Sess -> Nat]
        /\ rx \in RxState
    BY DEF TypeOK
  <2>2. rx' \in RxState /\ rx'.pc = "delay"
    BY <1>31, <2>1 DEF RxLoadTx, RxState, Idle
  <2>3. lastInsertedEmptyAck' \in [Sess -> Nat]
    BY <1>31, <2>1 DEF RxLoadTx
  <2> QED
    BY <1>31, <2>2, <2>3 DEF TypeOK, HeadHeld, RxLoadTx
<1>25. ASSUME RxForward PROVE TypeInv'
  <2>1. /\ conn \in [Sess -> {"closed", "synSent", "synAcked", "firstAck", "up"}]
        /\ lwipLastAck \in [Sess -> Nat]
        /\ lwipSndWnd \in [Sess -> Nat]
    BY DEF TypeOK
  <2>2. /\ Head(lwipRx).s \in Sess /\ Head(lwipRx).ack \in Nat
        /\ Head(lwipRx).wnd \in Nat /\ Tail(lwipRx) \in Seq(RxPkt)
    BY <1>25, RxHead DEF HeadHeld, RxForward
  <2>3. conn' \in [Sess -> {"closed", "synSent", "synAcked", "firstAck", "up"}]
    BY <1>25, <2>1, <2>2 DEF RxForward, RxForwardPkt
  <2>4. /\ lwipLastAck' \in [Sess -> Nat]
        /\ lwipSndWnd' \in [Sess -> Nat]
    BY <1>25, <2>1, <2>2 DEF RxForward, RxForwardPkt, LwipInput
  <2>5. lwipRx' \in Seq(RxPkt)
    BY <1>25, <2>1, <2>2 DEF RxForward, RxForwardPkt
  <2>6. /\ rx' \in RxState
        /\ rx'.pc = "idle"
    BY <1>25, <2>1, <2>2 DEF RxForward, RxForwardPkt, RxState, Idle
  <2>7. overtaken' \subseteq Sess
    BY <1>25 DEF RxForward, RxForwardPkt, TypeOK
  <2> QED
    BY <1>25, <2>3, <2>4, <2>5, <2>6, <2>7 DEF TypeOK, HeadHeld, RxForward, RxForwardPkt
<1>26. ASSUME NEW s \in Sess, Shutdown(s) PROVE TypeInv'
  <2>1. finReq \subseteq Sess
    BY DEF TypeOK
  <2>2. finReq' \subseteq Sess
    BY <1>26, <2>1 DEF Shutdown
  <2> QED
    BY <1>26, <2>2 DEF TypeOK, HeadHeld, Shutdown
<1>27. ASSUME Stop PROVE TypeInv'
  <2>1. /\ exc_active \in BOOLEAN
        /\ servThreadActive \in BOOLEAN
    BY DEF TypeOK
  <2>2. /\ exc_active' \in BOOLEAN
        /\ servThreadActive' \in BOOLEAN
    BY <1>27, <2>1 DEF Stop
  <2> QED
    BY <1>27, <2>2 DEF TypeOK, HeadHeld, Stop
<1>28. CASE UNCHANGED vars
  BY <1>28 DEF TypeOK, HeadHeld
<1> QED
  BY <1>1, <1>2, <1>3, <1>4, <1>5, <1>6, <1>7, <1>8, <1>9, <1>10, <1>11,
     <1>12, <1>13, <1>14, <1>15, <1>16, <1>17, <1>18, <1>19, <1>20, <1>21,
     <1>22, <1>23, <1>24, <1>25, <1>26, <1>27, <1>28, <1>29, <1>30, <1>31
     DEF Next, ServNext, RxNext, RxDelay, LwipNext, AppStep, ConnectStep, PeerNext

\* Every variable of the path keeps its type, for every number of sessions and
\* threads and every size: a thread never reads an empty channel, and the 32-bit
\* counters of EkaTcpSess stay inside the sequence space.
THEOREM Typing == Spec => []TypeOK
<1>1. Spec => []TypeInv
  BY TypeInit, TypeStep, PTL DEF Spec
<1> QED
  BY <1>1, PTL DEF TypeInv

----------------------------------------------------------------------------
(* The ACK path.                                                            *)

ackVars == <<conn, lwipRx, rx, realTcpRemoteAckNum, tcpRemoteAckNum, peerAck,
             lwipLastAck, lwipSndNxt, lwipWritten, finSent, realTxDriverBytes,
             lastInsertedEmptyAck, overtaken>>

\* Any packet of lwipRx names a session and a number.
LEMMA RxEntry ==
    ASSUME TypeOK, NEW i \in 1..Len(lwipRx)
    PROVE  lwipRx[i].s \in Sess /\ lwipRx[i].ack \in Nat
<1>1. lwipRx[i] \in RxPkt
  BY DEF TypeOK
<1> QED
  BY <1>1 DEF RxPkt

\* The packet TcpRxThread works on is the oldest.
LEMMA HeadIsFirst ==
    ASSUME TypeOK, lwipRx # <<>>
    PROVE  1 \in 1..Len(lwipRx) /\ Head(lwipRx) = lwipRx[1]
BY DEF TypeOK

\* The invariant of the acknowledgements holds initially.
LEMMA AckInit == Init => AckInv
BY BaseNat DEF Init, AckInv, AckChain, Handshake, AckTracked, LowHalf, RealBehindPeer,
   DelayedAck, SentWasWritten, AckIsTrue, Idle

\* Steps that touch none of its variables keep the invariant.
LEMMA AckFrame == AckInv /\ UNCHANGED ackVars => AckInv'
BY DEF ackVars, AckInv, AckChain, Handshake, AckTracked, LowHalf, RealBehindPeer,
   DelayedAck, SentWasWritten, AckIsTrue

\* A packet that the exchange sends joins the chain.
LEMMA AckAppend ==
    ASSUME TypeOK, AckChain, RealBehindPeer, NEW s \in Sess, NEW a \in Nat, NEW w, NEW b,
           peerAck[s] <= a,
           lwipRx' = Append(lwipRx, [s |-> s, ack |-> a, wnd |-> w, syn |-> b]),
           peerAck' = [peerAck EXCEPT ![s] = a],
           UNCHANGED realTcpRemoteAckNum
    PROVE  /\ AckChain'
           /\ RealBehindPeer'
           /\ \A i \in 1..Len(lwipRx') : lwipRx'[i].s = s
                \/ (i \in 1..Len(lwipRx) /\ lwipRx'[i].s = lwipRx[i].s)
           /\ lwipRx # <<>> => Head(lwipRx') = Head(lwipRx)
<1>1. /\ realTcpRemoteAckNum \in [Sess -> Nat]
      /\ peerAck \in [Sess -> Nat]
      /\ lwipRx \in Seq(RxPkt)
  BY DEF TypeOK
<1>2. /\ Len(lwipRx') = Len(lwipRx) + 1 /\ Len(lwipRx) \in Nat
      /\ \A i \in 1..Len(lwipRx) : lwipRx'[i] = lwipRx[i]
      /\ lwipRx'[Len(lwipRx) + 1] = [s |-> s, ack |-> a, wnd |-> w, syn |-> b]
      /\ lwipRx # <<>> => Head(lwipRx') = Head(lwipRx)
  BY <1>1
<1>3. \A i \in 1..Len(lwipRx) : lwipRx[i].s \in Sess /\ lwipRx[i].ack \in Nat
  BY RxEntry
<1>4. \A i \in 1..Len(lwipRx) : lwipRx[i].s = s => lwipRx[i].ack <= a
  BY <1>1, <1>3 DEF AckChain
<1>5. \A r \in Sess : peerAck[r] <= peerAck'[r] /\ peerAck'[r] \in Nat
  BY <1>1
<1>6. RealBehindPeer'
  BY <1>1, <1>5 DEF RealBehindPeer
<1>7. ASSUME NEW i \in 1..Len(lwipRx')
      PROVE  /\ realTcpRemoteAckNum'[lwipRx'[i].s] <= lwipRx'[i].ack
             /\ lwipRx'[i].ack <= peerAck'[lwipRx'[i].s]
  <2>1. CASE i \in 1..Len(lwipRx)
    BY <2>1, <1>1, <1>2, <1>3, <1>5 DEF AckChain
  <2>2. CASE i = Len(lwipRx) + 1
    <3>1. realTcpRemoteAckNum[s] <= a
      BY <1>1 DEF RealBehindPeer
    <3> QED
      BY <2>2, <3>1, <1>1, <1>2
  <2> QED
    BY <1>2, <2>1, <2>2
<1>8. ASSUME NEW i \in 1..Len(lwipRx'), NEW j \in 1..Len(lwipRx'),
             i < j, lwipRx'[i].s = lwipRx'[j].s
      PROVE  lwipRx'[i].ack <= lwipRx'[j].ack
  <2>1. i \in 1..Len(lwipRx) /\ lwipRx'[i] = lwipRx[i]
    BY <1>2, <1>8
  <2>2. CASE j \in 1..Len(lwipRx)
    BY <2>1, <2>2, <1>2, <1>8 DEF AckChain
  <2>3. CASE j = Len(lwipRx) + 1
    BY <2>1, <2>3, <1>2, <1>4, <1>8
  <2> QED
    BY <1>2, <2>2, <2>3
<1>9. AckChain'
  BY <1>7, <1>8 DEF AckChain
<1>10. \A i \in 1..Len(lwipRx') : lwipRx'[i].s = s
                \/ (i \in 1..Len(lwipRx) /\ lwipRx'[i].s = lwipRx[i].s)
  BY <1>2
<1> QED
  BY <1>2, <1>6, <1>9, <1>10

\* What lwIP transmits between the loads of updateRx() is past the delayed ACK only
\* if it is noted.
LEMMA DelayTransmit ==
    ASSUME TypeInv, DelayedAck, NEW s \in Sess, NEW a, NEW n \in Nat, sendStackEthFrame(s, a, n),
           UNCHANGED <<rx, lwipRx, realTcpRemoteAckNum, lastInsertedEmptyAck>>
    PROVE  DelayedAck' /\ overtaken \subseteq overtaken'
<1> DEFINE h == Head(lwipRx).s
<1>1. rx.pc = "delay" => h \in Sess
  BY RxHead DEF TypeInv, HeadHeld
<1>2. CASE UNCHANGED <<realTxDriverBytes, overtaken>>
  BY <1>2 DEF DelayedAck
<1>3. CASE CountTx(s, n)
  <2>1. overtaken \subseteq overtaken'
    BY <1>3 DEF CountTx
  <2>2. realTxDriverBytes \in [Sess -> Nat] /\ realTcpRemoteAckNum \in [Sess -> Nat]
    BY DEF TypeInv, TypeOK
  <2>3. ASSUME rx.pc = "delay", rx.at = "load", h \notin overtaken'
        PROVE  realTxDriverBytes'[h] <= realTcpRemoteAckNum[h]
    <3>1. CASE h = s
      <4>1. ~Overtakes(s)
        BY <1>3, <2>3, <3>1 DEF CountTx
      <4>2. ~(realTxDriverBytes'[s] > realTcpRemoteAckNum[s])
        BY <4>1, <2>3, <3>1 DEF Overtakes
      <4>3. realTxDriverBytes'[s] = realTxDriverBytes[s] + n
        BY <1>3, <2>2 DEF CountTx
      <4> QED
        BY <3>1, <4>2, <4>3, <2>2
    <3>2. CASE h # s
      <4>1. realTxDriverBytes'[h] = realTxDriverBytes[h]
        BY <1>1, <1>3, <2>2, <2>3, <3>2 DEF CountTx
      <4> QED
        BY <2>1, <2>3, <4>1 DEF DelayedAck
    <3> QED
      BY <3>1, <3>2
  <2> QED
    BY <2>1, <2>3 DEF DelayedAck
<1> QED
  BY <1>2, <1>3 DEF sendStackEthFrame

\* Every step keeps the invariant, unless the network delivers stale ACKs.
LEMMA AckStep ==
    ASSUME "staleAck" \notin Env, TypeInv, TypeInv', AckInv, [Next]_vars
    PROVE  AckInv'
<1> USE DEF TypeInv
<1>0. /\ realTcpRemoteAckNum \in [Sess -> Nat] /\ peerAck \in [Sess -> Nat]
      /\ tcpRemoteAckNum \in [Sess -> 0..(SeqMod - 1)]
      /\ lwipLastAck \in [Sess -> Nat] /\ lwipSndNxt \in [Sess -> Nat]
      /\ lwipWritten \in [Sess -> Nat] /\ lwipRx \in Seq(RxPkt)
      /\ realTxDriverBytes \in [Sess -> Nat] /\ lastInsertedEmptyAck \in [Sess -> Nat]
      /\ conn \in [Sess -> {"closed", "synSent", "synAcked", "firstAck", "up"}]
  BY DEF TypeOK
<1>a. AckChain /\ Handshake /\ AckTracked /\ RealBehindPeer /\ DelayedAck /\ SentWasWritten /\ AckIsTrue
  BY DEF AckInv
<1>b. lwipRx # <<>> => Head(lwipRx) = lwipRx[1] /\ 1 \in 1..Len(lwipRx)
  BY HeadIsFirst
<1>c. rx.pc \in {"storeAck", "delay"} => lwipRx # <<>>
  BY DEF HeadHeld
<1>h. /\ Handshake /\ conn \in [Sess -> {"closed", "synSent", "synAcked", "firstAck", "up"}]
      /\ realTcpRemoteAckNum \in [Sess -> Nat] /\ peerAck \in [Sess -> Nat]
  BY <1>0, <1>a
<1>1. ASSUME NEW s \in Sess, SendSyn(s) PROVE AckInv'
  <2>1. /\ \A i \in 1..Len(lwipRx) : lwipRx[i].s # s
        /\ tcpRemoteAckNum[s] = 0
    BY <1>1, <1>a DEF SendSyn, Handshake
  <2>2. \A i \in 1..Len(lwipRx) : lwipRx[i].s \in Sess
    BY RxEntry
  <2>3. AckChain'
    BY <1>1, <1>0, <1>a, <2>1, <2>2 DEF SendSyn, AckChain
  <2>4. Handshake'
    BY <1>1, <1>0, <1>a, <2>1 DEF SendSyn, Handshake
  <2>5. AckTracked'
    <3> SUFFICES ASSUME NEW r \in Sess
                 PROVE  IF rx'.pc = "storeAck" /\ Head(lwipRx').s = r
                        THEN /\ LowHalf(r, rx.prev)'
                             /\ tcpRemoteAckNum'[r] = Head(lwipRx').ack % SeqMod
                        ELSE LowHalf(r, tcpRemoteAckNum[r])'
      BY DEF AckTracked
    <3>1. UNCHANGED <<rx, lwipRx, tcpRemoteAckNum>>
      BY <1>1 DEF SendSyn
    <3>2. CASE r = s
      BY <3>1, <3>2, <2>1, <1>b, <1>c DEF LowHalf
    <3>3. CASE r # s
      <4>1. realTcpRemoteAckNum'[r] = realTcpRemoteAckNum[r]
        BY <1>1, <1>0, <3>3 DEF SendSyn
      <4> QED
        BY <3>1, <4>1, <1>a DEF AckTracked, LowHalf
    <3> QED
      BY <3>2, <3>3
  <2>6. RealBehindPeer' /\ SentWasWritten' /\ AckIsTrue'
    BY <1>1, <1>0, <1>a, BaseNat DEF SendSyn, RealBehindPeer, SentWasWritten, AckIsTrue
  <2>7. DelayedAck'
    <3>1. rx.pc = "delay" => Head(lwipRx).s \in Sess /\ Head(lwipRx).s # s
      BY <2>1, <2>2, <1>b, <1>c
    <3> QED
      BY <1>1, <1>0, <1>a, <3>1 DEF SendSyn, DelayedAck
  <2> QED
    BY <2>3, <2>4, <2>5, <2>6, <2>7 DEF AckInv
<1>2. ASSUME NEW s \in Sess, NEW w \in PeerWnds, PeerSynAck(s, w) PROVE AckInv'
  <2>1. realTcpRemoteAckNum[s] = Base /\ peerAck[s] = Base
    BY <1>2, <1>a DEF PeerSynAck, Handshake
  <2>2. /\ Base \in Nat /\ peerAck[s] <= Base
        /\ peerAck' = [peerAck EXCEPT ![s] = Base]
        /\ lwipRx' = Append(lwipRx, [s |-> s, ack |-> Base, wnd |-> w, syn |-> TRUE])
        /\ UNCHANGED realTcpRemoteAckNum
    BY <1>2, <1>0, <2>1, BaseNat DEF PeerSynAck
  <2>3. /\ AckChain' /\ RealBehindPeer'
        /\ \A i \in 1..Len(lwipRx') : lwipRx'[i].s = s
             \/ (i \in 1..Len(lwipRx) /\ lwipRx'[i].s = lwipRx[i].s)
        /\ lwipRx # <<>> => Head(lwipRx') = Head(lwipRx)
    BY <1>a, <2>2, AckAppend
  <2>4. Handshake'
    BY <1>2, <1>h, <2>3 DEF PeerSynAck, Handshake
  <2>5. AckTracked'
    BY <1>2, <1>a, <1>c, <2>3 DEF PeerSynAck, AckTracked, LowHalf
  <2>6. SentWasWritten' /\ AckIsTrue' /\ DelayedAck'
    BY <1>2, <1>a, <1>c, <2>1, <2>2, <2>3 DEF PeerSynAck, SentWasWritten, AckIsTrue, DelayedAck
  <2> QED
    BY <2>3, <2>4, <2>5, <2>6 DEF AckInv
<1>3. ASSUME NEW s \in Sess, ConnectReturn(s) PROVE AckInv'
  <2>1. Handshake'
    BY <1>3, <1>0, <1>a DEF ConnectReturn, Handshake
  <2> QED
    BY <1>3, <1>a, <2>1 DEF ConnectReturn, AckInv, AckChain, AckTracked, LowHalf,
       RealBehindPeer, DelayedAck, SentWasWritten, AckIsTrue
<1>4. ASSUME NEW s \in Sess, PeerAckAny(s) PROVE AckInv'
  <2>1. PICK a \in peerAck[s]..PeerGot(s), w \in PeerWnds : PeerSendAck(s, a, w)
    BY <1>4 DEF PeerAckAny
  <2>2. a \in Nat /\ peerAck[s] <= a
    <3>1. wire \in [Sess -> Nat]
      BY DEF TypeOK
    <3> QED
      BY <1>0, <2>1, <3>1 DEF PeerGot
  <2>3. /\ AckChain' /\ RealBehindPeer'
        /\ \A i \in 1..Len(lwipRx') : lwipRx'[i].s = s
             \/ (i \in 1..Len(lwipRx) /\ lwipRx'[i].s = lwipRx[i].s)
        /\ lwipRx # <<>> => Head(lwipRx') = Head(lwipRx)
    BY <1>a, <2>1, <2>2, AckAppend DEF PeerSendAck, PeerSend
  <2>4. Handshake'
    <3>1. /\ peerAck' = [peerAck EXCEPT ![s] = a] /\ conn[s] \notin {"closed", "synSent"}
          /\ UNCHANGED <<conn, tcpRemoteAckNum, realTcpRemoteAckNum>>
      BY <2>1 DEF PeerSendAck
    <3> QED
      BY <1>h, <2>3, <3>1 DEF Handshake
  <2>5. AckTracked'
    BY <1>a, <1>c, <2>1, <2>3 DEF PeerSendAck, AckTracked, LowHalf
  <2>6. SentWasWritten' /\ AckIsTrue'
    BY <1>0, <1>a, <2>1, <2>2 DEF PeerSendAck, SentWasWritten, AckIsTrue
  <2>7. DelayedAck'
    BY <1>a, <1>c, <2>1, <2>3 DEF PeerSendAck, DelayedAck
  <2> QED
    BY <2>3, <2>4, <2>5, <2>6, <2>7 DEF AckInv
<1>5. ASSUME ServWrite PROVE AckInv'
  <2>1. serv.s \in Sess /\ LwipTakes(serv.s, serv.left) \in Nat
    <3>1. serv.s \in Sess /\ serv.left \in Nat
      BY <1>5, ServFields DEF ServWrite
    <3> QED
      BY <1>0, <3>1 DEF LwipTakes, LwipRoom, Lesser, Positive
  <2>2. SentWasWritten'
    <3>1. /\ lwipWritten' =
               [lwipWritten EXCEPT ![serv.s] = @ + LwipTakes(serv.s, serv.left)]
          /\ UNCHANGED <<lwipSndNxt, finSent>>
      BY <1>5 DEF ServWrite
    <3>2. \A s \in Sess : lwipWritten[s] <= lwipWritten'[s] /\ lwipWritten'[s] \in Nat
      <4>1. PICK k \in Nat : k = LwipTakes(serv.s, serv.left)
        BY <2>1
      <4>2. lwipWritten' = [lwipWritten EXCEPT ![serv.s] = @ + k]
        BY <3>1, <4>1
      <4>3. lwipWritten \in [Sess -> Nat] /\ serv.s \in Sess
        BY <1>0, <2>1
      <4> QED
        BY <4>2, <4>3
    <3> QED
      BY <1>0, <1>a, <3>1, <3>2 DEF SentWasWritten
  <2> QED
    BY <1>5, <1>a, <2>2 DEF ServWrite, AckInv, AckChain, Handshake, AckTracked, LowHalf,
       RealBehindPeer, DelayedAck, AckIsTrue
<1>6. ASSUME NEW s \in Sess, LwipOutput(s) PROVE AckInv'
  <2>1. LwipMaySend(s) \in Nat /\ LwipMaySend(s) <= lwipWritten[s] - lwipSndNxt[s]
    <3>1. lwipSndWnd \in [Sess -> Nat]
      BY DEF TypeOK
    <3>2. LwipMaySend(s) > 0
      BY <1>6 DEF LwipOutput
    <3>3. lwipWritten[s] \in Nat /\ lwipSndNxt[s] \in Nat /\ lwipLastAck[s] \in Nat /\ lwipSndWnd[s] \in Nat
      BY <1>0, <3>1
    <3> QED
      BY <3>2, <3>3 DEF LwipMaySend, Lesser, Positive
  <2>2. DelayedAck' /\ overtaken \subseteq overtaken'
    BY <1>6, <1>a, <2>1, DelayTransmit DEF LwipOutput
  <2>3. SentWasWritten' /\ AckIsTrue'
    <3>1. /\ lwipSndNxt' = [lwipSndNxt EXCEPT ![s] = @ + LwipMaySend(s)]
          /\ UNCHANGED <<lwipLastAck, lwipWritten, peerAck, finSent>>
      BY <1>6 DEF LwipOutput
    <3>2. \A r \in Sess : /\ lwipLastAck[r] \in Nat /\ lwipSndNxt[r] \in Nat /\ lwipWritten[r] \in Nat
                         /\ lwipSndNxt'[r] = IF r = s THEN lwipSndNxt[r] + LwipMaySend(s) ELSE lwipSndNxt[r]
      BY <1>0, <3>1
    <3>3. SentWasWritten'
      BY <1>a, <2>1, <3>1, <3>2 DEF SentWasWritten
    <3>4. AckIsTrue'
      BY <1>a, <2>1, <2>2, <3>1, <3>2 DEF AckIsTrue
    <3> QED
      BY <3>3, <3>4
  <2> QED
    BY <1>6, <1>a, <2>2, <2>3 DEF LwipOutput, AckInv, AckChain, Handshake, AckTracked, LowHalf,
       RealBehindPeer
<1>7. ASSUME NEW s \in Sess, LwipSendFin(s) PROVE AckInv'
  <2>1. lwipSndNxt[s] + LwipMaySend(s) = lwipWritten[s] /\ s \notin finSent
    BY <1>7 DEF LwipSendFin, FinNow
  <2>2. lwipSndNxt[s] <= lwipSndNxt[s] + LwipMaySend(s) + 1
    BY <1>0, <1>a, <2>1 DEF SentWasWritten
  <2>3. SentWasWritten' /\ AckIsTrue'
    BY <1>7, <1>0, <1>a, <2>1, <2>2 DEF LwipSendFin, SentWasWritten, AckIsTrue
  <2> QED
    BY <1>7, <1>a, <2>3 DEF LwipSendFin, AckInv, AckChain, Handshake, AckTracked, LowHalf,
       RealBehindPeer, DelayedAck
<1>8. ASSUME RxStoreWnd PROVE AckInv'
  <2>1. rx.pc = "idle" /\ lwipRx # <<>> /\ Head(lwipRx).s \in Sess
    BY <1>8, RxHead DEF RxStoreWnd
  <2>2. \A s \in Sess : conn[s] = "closed" => Head(lwipRx).s # s
    BY <1>a, <1>b, <2>1 DEF Handshake
  <2>3. Handshake'
    BY <1>8, <1>0, <1>a, <2>1, <2>2 DEF RxStoreWnd, Handshake
  <2>4. AckTracked'
    <3>1. \A s \in Sess : LowHalf(s, tcpRemoteAckNum[s])
      BY <1>a, <2>1 DEF AckTracked
    <3>2. /\ rx'.pc = "storeAck" /\ rx'.prev = tcpRemoteAckNum[Head(lwipRx).s]
          /\ tcpRemoteAckNum' =
               [tcpRemoteAckNum EXCEPT ![Head(lwipRx).s] = Head(lwipRx).ack % SeqMod]
          /\ UNCHANGED <<lwipRx, realTcpRemoteAckNum>>
      BY <1>8 DEF RxStoreWnd
    <3> QED
      BY <1>0, <2>1, <3>1, <3>2 DEF AckTracked, LowHalf
  <2> QED
    BY <1>8, <1>a, <2>3, <2>4 DEF RxStoreWnd, AckInv, AckChain, RealBehindPeer,
       DelayedAck, SentWasWritten, AckIsTrue
<1>9. ASSUME RxStoreAck PROVE AckInv'
  <2> DEFINE p == Head(lwipRx)
             r == seq32to64(realTcpRemoteAckNum[p.s], rx.prev, p.ack % SeqMod)
  <2>1. rx.pc = "storeAck" /\ lwipRx # <<>> /\ p.s \in Sess /\ p.ack \in Nat
    BY <1>9, <1>c, RxHead DEF RxStoreAck
  <2>2. rx.prev \in Nat
    <3>1. rx \in RxState
      BY DEF TypeOK
    <3> QED
      BY <2>1, <3>1 DEF RxState, Idle
  <2>3. LowHalf(p.s, rx.prev) /\ tcpRemoteAckNum[p.s] = p.ack % SeqMod
    BY <1>a, <2>1 DEF AckTracked
  <2>4. realTcpRemoteAckNum[p.s] <= p.ack /\ p.ack <= peerAck[p.s]
    BY <1>a, <1>b, <2>1 DEF AckChain
  <2>5. r \in Nat /\ r <= p.ack /\ r % SeqMod = p.ack % SeqMod
    <3>1. realTcpRemoteAckNum[p.s] \in Nat
      BY <1>0, <2>1
    <3>2. rx.prev = realTcpRemoteAckNum[p.s] % SeqMod \/ rx.prev = 0
      BY <2>3 DEF LowHalf
    <3> QED
      BY <2>1, <2>2, <2>4, <3>1, <3>2, Seq32to64Below
  <2>6. /\ realTcpRemoteAckNum' = [realTcpRemoteAckNum EXCEPT ![p.s] = r]
        /\ rx' = [pc |-> "delay", at |-> "test"]
        /\ UNCHANGED <<lwipRx, peerAck, conn, tcpRemoteAckNum, lwipLastAck, lwipSndNxt,
                       lwipWritten, finSent, overtaken>>
    BY <1>9 DEF RxStoreAck
  <2> HIDE DEF r
  <2>r. r \in Nat /\ r <= p.ack
    BY <2>5, Zenon
  <2>7. \A i \in 1..Len(lwipRx) :
          /\ lwipRx[i].s \in Sess /\ lwipRx[i].ack \in Nat
          /\ lwipRx[i].s = p.s => p.ack <= lwipRx[i].ack
    <3> SUFFICES ASSUME NEW i \in 1..Len(lwipRx)
                 PROVE  /\ lwipRx[i].s \in Sess /\ lwipRx[i].ack \in Nat
                        /\ lwipRx[i].s = p.s => p.ack <= lwipRx[i].ack
      OBVIOUS
    <3>1. lwipRx[i].s \in Sess /\ lwipRx[i].ack \in Nat
      BY RxEntry
    <3>2. CASE i = 1
      BY <3>1, <3>2, <1>b, <2>1
    <3>3. CASE 1 < i
      BY <3>1, <3>3, <1>a, <1>b, <2>1 DEF AckChain
    <3> QED
      BY <1>0, <3>1, <3>2, <3>3
  <2>8. AckChain'
    <3>1. \A i \in 1..Len(lwipRx) : realTcpRemoteAckNum'[lwipRx[i].s] <= lwipRx[i].ack
      <4> SUFFICES ASSUME NEW i \in 1..Len(lwipRx)
                   PROVE  realTcpRemoteAckNum'[lwipRx[i].s] <= lwipRx[i].ack
        OBVIOUS
      <4>1. CASE lwipRx[i].s = p.s
        <5>1. realTcpRemoteAckNum'[p.s] = r
          BY <1>0, <2>1, <2>6
        <5> QED
          BY <4>1, <5>1, <2>1, <2>r, <2>7
      <4>2. CASE lwipRx[i].s # p.s
        <5>1. realTcpRemoteAckNum'[lwipRx[i].s] = realTcpRemoteAckNum[lwipRx[i].s]
          BY <4>2, <1>0, <2>6, <2>7
        <5> QED
          BY <5>1, <1>a DEF AckChain
      <4> QED
        BY <4>1, <4>2
    <3> QED
      BY <3>1, <1>a, <2>6 DEF AckChain
  <2>9. Handshake'
    <3>1. conn[p.s] # "closed" /\ conn[p.s] # "synSent"
      BY <1>a, <1>b, <2>1 DEF Handshake
    <3> QED
      BY <3>1, <1>0, <1>a, <2>1, <2>6 DEF Handshake
  <2>10. AckTracked'
    <3> SUFFICES ASSUME NEW s \in Sess PROVE LowHalf(s, tcpRemoteAckNum[s])'
      BY <2>6 DEF AckTracked
    <3>1. CASE s = p.s
      BY <3>1, <1>0, <2>1, <2>3, <2>5, <2>6 DEF LowHalf
    <3>2. CASE s # p.s
      BY <3>2, <1>0, <1>a, <2>1, <2>6 DEF AckTracked, LowHalf
    <3> QED
      BY <3>1, <3>2
  <2>11. RealBehindPeer'
    <3>1. r <= peerAck[p.s]
      BY <1>0, <2>1, <2>4, <2>r
    <3> QED
      <4> SUFFICES ASSUME NEW s \in Sess PROVE realTcpRemoteAckNum'[s] <= peerAck'[s]
        BY DEF RealBehindPeer
      <4>1. CASE s = p.s
        BY <4>1, <3>1, <1>0, <2>6
      <4>2. CASE s # p.s
        <5>1. realTcpRemoteAckNum'[s] = realTcpRemoteAckNum[s] /\ peerAck'[s] = peerAck[s]
          BY <4>2, <1>0, <2>6
        <5> QED
          BY <5>1, <1>a DEF RealBehindPeer
      <4> QED
        BY <4>1, <4>2
  <2> QED
    BY <1>a, <2>6, <2>8, <2>9, <2>10, <2>11 DEF AckInv, DelayedAck, SentWasWritten, AckIsTrue
<1>10. ASSUME RxDelay PROVE AckInv'
  <2> DEFINE p == Head(lwipRx)
  <2>1. rx.pc = "delay" /\ p.s \in Sess
    BY <1>10, RxHead DEF RxDelay, RxTestAhead, RxLoadTx, RxInsertEmptyAck, HeadHeld
  <2>2. /\ rx'.pc = "delay"
        /\ UNCHANGED <<conn, lwipRx, realTcpRemoteAckNum, tcpRemoteAckNum, peerAck,
                       lwipSndNxt, lwipWritten, finSent, realTxDriverBytes, overtaken>>
    <3>1. rx \in RxState
      BY DEF TypeOK
    <3> QED
      BY <1>10, <2>1, <3>1 DEF RxDelay, RxTestAhead, RxLoadTx, RxInsertEmptyAck, RxState, Idle
  <2>3. AckChain' /\ Handshake' /\ AckTracked' /\ RealBehindPeer' /\ SentWasWritten'
    BY <1>a, <2>1, <2>2 DEF AckChain, Handshake, AckTracked, LowHalf, RealBehindPeer, SentWasWritten
  <2>4. CASE RxTestAhead
    <3>1. rx'.at = "load" /\ realTxDriverBytes[p.s] <= realTcpRemoteAckNum[p.s]
      <4>1. rx'.at = "load"
        <5>1. rx \in RxState
          BY DEF TypeOK
        <5> QED
          BY <5>1, <2>1, <2>4 DEF RxTestAhead, RxState, Idle
      <4>2. realTxDriverBytes[p.s] \in Nat /\ realTcpRemoteAckNum[p.s] \in Nat
        BY <1>0, <2>1
      <4> QED
        BY <4>1, <4>2, <2>4 DEF RxTestAhead, AckAhead
    <3>2. DelayedAck'
      BY <2>2, <3>1 DEF DelayedAck
    <3>3. AckIsTrue'
      BY <1>a, <2>4 DEF RxTestAhead, AckIsTrue
    <3> QED
      BY <2>3, <3>2, <3>3 DEF AckInv
  <2>5. CASE RxLoadTx
    <3>1. p.s \notin overtaken => realTxDriverBytes[p.s] <= realTcpRemoteAckNum[p.s]
      BY <1>a, <2>5 DEF RxLoadTx, DelayedAck
    <3>2. DelayedAck'
      <4>1. CASE realTxDriverBytes[p.s] > lastInsertedEmptyAck[p.s]
        <5>1. lastInsertedEmptyAck'[p.s] = realTxDriverBytes[p.s] /\ rx'.at # "load"
          BY <1>0, <2>1, <2>5, <4>1 DEF RxLoadTx
        <5> QED
          BY <2>2, <3>1, <5>1 DEF DelayedAck
      <4>2. CASE ~(realTxDriverBytes[p.s] > lastInsertedEmptyAck[p.s])
        <5>1. rx'.at = "test"
          BY <2>5, <4>2, <2>1 DEF RxLoadTx
        <5> QED
          BY <5>1 DEF DelayedAck
      <4> QED
        BY <4>1, <4>2
    <3>3. AckIsTrue'
      BY <1>a, <2>5 DEF RxLoadTx, AckIsTrue
    <3> QED
      BY <2>3, <3>2, <3>3 DEF AckInv
  <2>6. CASE RxInsertEmptyAck
    <3> DEFINE last == lastInsertedEmptyAck[p.s]
    <3>1. rx'.at = "test"
      BY <2>1, <2>6 DEF RxInsertEmptyAck
    <3>2. DelayedAck'
      BY <3>1 DEF DelayedAck
    <3>3. p.s \notin overtaken => last <= peerAck[p.s]
      <4>1. p.s \notin overtaken => last <= realTcpRemoteAckNum[p.s]
        BY <1>a, <2>6 DEF RxInsertEmptyAck, DelayedAck
      <4>2. realTcpRemoteAckNum[p.s] <= peerAck[p.s]
        BY <1>a, <2>1 DEF RealBehindPeer
      <4>3. last \in Nat /\ realTcpRemoteAckNum[p.s] \in Nat /\ peerAck[p.s] \in Nat
        BY <1>0, <2>1
      <4> QED
        BY <4>1, <4>2, <4>3
    <3>4. lwipLastAck' = [lwipLastAck EXCEPT ![p.s] =
             IF @ <= last /\ last <= lwipSndNxt[p.s] THEN last ELSE @]
      BY <2>6 DEF RxInsertEmptyAck, LwipInput
    <3>5. AckIsTrue'
      BY <1>0, <1>a, <2>1, <2>2, <3>3, <3>4 DEF AckIsTrue
    <3> QED
      BY <2>3, <3>2, <3>5 DEF AckInv
  <2> QED
    BY <1>10, <2>4, <2>5, <2>6 DEF RxDelay
<1>11. ASSUME RxForward PROVE AckInv'
  <2> DEFINE p == Head(lwipRx)
  <2>1. lwipRx # <<>> /\ rx.pc = "delay" /\ p.s \in Sess /\ p.ack \in Nat
    BY <1>11, RxHead DEF RxForward, HeadHeld
  <2>2. p.ack <= peerAck[p.s]
    BY <1>a, <1>b, <2>1 DEF AckChain
  <2>3. /\ lwipLastAck' = [lwipLastAck EXCEPT ![p.s] =
             IF @ <= p.ack /\ p.ack <= lwipSndNxt[p.s] THEN p.ack ELSE @]
        /\ conn' = [conn EXCEPT ![p.s] = IF p.syn /\ exc_active THEN "firstAck" ELSE @]
        /\ lwipRx' = Tail(lwipRx) /\ rx' = Idle
        /\ UNCHANGED <<peerAck, lwipSndNxt, lwipWritten, finSent, realTcpRemoteAckNum,
                       tcpRemoteAckNum>>
    BY <1>11 DEF RxForward, RxForwardPkt, LwipInput
  <2>4. AckIsTrue'
    <3>1. overtaken' = overtaken \ (IF lwipLastAck'[p.s] <= p.ack THEN {p.s} ELSE {})
      BY <1>11 DEF RxForward, RxForwardPkt
    <3>2. /\ lwipLastAck \in [Sess -> Nat] /\ lwipLastAck' \in [Sess -> Nat]
          /\ peerAck \in [Sess -> Nat] /\ lwipSndNxt \in [Sess -> Nat]
      BY <1>0, <2>1, <2>3
    <3>3. ASSUME NEW s \in Sess
          PROVE  /\ lwipLastAck'[s] <= lwipSndNxt'[s]
                 /\ s \notin overtaken' => lwipLastAck'[s] <= peerAck'[s]
      <4>1. CASE s # p.s
        BY <1>a, <2>3, <3>1, <3>2, <4>1 DEF AckIsTrue
      <4>2. CASE s = p.s
        <5>1. lwipLastAck'[s] <= lwipSndNxt'[s]
          BY <1>a, <2>1, <2>3, <3>2, <4>2 DEF AckIsTrue
        <5>2. CASE lwipLastAck'[s] <= p.ack
          BY <2>1, <2>2, <2>3, <3>2, <4>2, <5>1, <5>2
        <5>3. CASE ~(lwipLastAck'[s] <= p.ack)
          BY <1>a, <2>1, <2>3, <3>1, <3>2, <4>2, <5>1, <5>3 DEF AckIsTrue
        <5> QED
          BY <5>2, <5>3
      <4> QED
        BY <4>1, <4>2
    <3> QED
      BY <3>3 DEF AckIsTrue
  <2>5. \A i \in 1..Len(lwipRx') : i + 1 \in 1..Len(lwipRx) /\ lwipRx'[i] = lwipRx[i + 1]
    BY <1>0, <2>1, <2>3
  <2>6. AckChain'
    BY <1>a, <2>3, <2>5 DEF AckChain
  <2>7. Handshake'
    <3>1. \A s \in Sess : conn'[s] \in {"closed", "synSent"} => conn'[s] = conn[s]
      BY <1>0, <2>1, <2>3
    <3>2. \A s \in Sess : conn[s] \in {"closed", "synSent"} =>
            \A i \in 1..Len(lwipRx') : lwipRx'[i].s # s
      BY <1>a, <2>5 DEF Handshake
    <3> QED
      BY <1>a, <2>3, <3>1, <3>2 DEF Handshake
  <2>8. AckTracked'
    BY <1>a, <2>1, <2>3 DEF AckTracked, LowHalf, Idle
  <2> QED
    BY <1>a, <2>3, <2>4, <2>6, <2>7, <2>8
       DEF AckInv, RealBehindPeer, DelayedAck, SentWasWritten, Idle
<1>12. ASSUME NEW t \in Thread, AppStep(t) PROVE AckInv'
  BY <1>12, AckFrame DEF AppStep, PreSendLoadAck, PreSendCheck, PreSendLimit, PreSendCount, FastSend, ackVars
<1>13. ASSUME NEW t \in Thread, NEW s \in Sess, NEW n \in 1..MAX_PAYLOAD_SIZE,
              PreSendLoadFastPath(t, s, n)
       PROVE  AckInv'
  BY <1>13, AckFrame DEF PreSendLoadFastPath, ackVars
<1>14. ASSUME NEW s \in Sess, NEW n \in 1..MAX_PAYLOAD_SIZE, HwFire(s, n) PROVE AckInv'
  BY <1>14, AckFrame DEF HwFire, ackVars
<1>15. ASSUME NEW s \in Sess, Lose(s) \/ PeerReset(s) \/ Shutdown(s)
       PROVE  AckInv'
  BY <1>15, AckFrame DEF Lose, PeerReset, Shutdown, ackVars
<1>r. ASSUME NEW s \in Sess, LwipRetransmit(s) PROVE AckInv'
  <2> DEFINE n == Lesser(MAX_PAYLOAD_SIZE, lwipSndNxt[s] - lwipLastAck[s])
  <2>1. n \in Nat
    BY <1>r, <1>0 DEF LwipRetransmit, Lesser
  <2>2. sendStackEthFrame(s, lwipLastAck[s], n)
    BY <1>r DEF LwipRetransmit
  <2>3. DelayedAck' /\ overtaken \subseteq overtaken'
    <3> HIDE DEF n
    <3>1. UNCHANGED <<rx, lwipRx, realTcpRemoteAckNum, lastInsertedEmptyAck>>
      BY <1>r DEF LwipRetransmit
    <3> QED
      BY <1>a, <2>1, <2>2, <3>1, DelayTransmit
  <2>4. AckIsTrue'
    BY <1>r, <1>0, <1>a, <2>3 DEF LwipRetransmit, AckIsTrue
  <2> QED
    BY <1>r, <1>a, <2>3, <2>4 DEF LwipRetransmit, AckInv, AckChain, Handshake, AckTracked,
       LowHalf, RealBehindPeer, SentWasWritten
<1>16. ASSUME ServTake \/ ServWritten \/ ServWriteError \/ ServExit \/ Stop PROVE AckInv'
  BY <1>16, AckFrame DEF ServTake, ServWritten, ServWriteError, ServExit, Stop, ackVars
<1>17. CASE UNCHANGED vars
  BY <1>17, AckFrame DEF ackVars
<1>18. ASSUME NEW s \in Sess, PeerNext(s) PROVE AckInv'
  BY <1>18, <1>4, <1>15 DEF PeerNext, StaleAck
<1> QED
  BY <1>1, <1>2, <1>3, <1>5, <1>6, <1>7, <1>8, <1>9, <1>10, <1>11, <1>12, <1>13, <1>14,
     <1>15, <1>16, <1>17, <1>18, <1>r
     DEF Next, ServNext, RxNext, LwipNext, ConnectStep

\* insertEmptyRemoteAck() and updateRx(): on a network that keeps the order of the
\* ACKs, lwIP never believes a byte acknowledged that the exchange has not
\* acknowledged, except in a session where lwIP has transmitted past a delayed ACK
\* between the test of the loop and its load, and never one that lwIP has not
\* transmitted; for any number of sessions and threads, any windows, any wraparound of
\* the sequence numbers, with losses, resets, FINs and the stop of the device.
THEOREM AckTruth == "staleAck" \notin Env => (Spec => []AckIsTrue)
<1> SUFFICES ASSUME "staleAck" \notin Env PROVE Spec => []AckIsTrue
  OBVIOUS
<1>1. Init => TypeInv /\ AckInv
  BY TypeInit, AckInit
<1>2. TypeInv /\ AckInv /\ [Next]_vars => TypeInv' /\ AckInv'
  BY TypeStep, AckStep
<1>3. AckInv => AckIsTrue
  BY DEF AckInv
<1> QED
  BY <1>1, <1>2, <1>3, PTL DEF Spec
----------------------------------------------------------------------------
(* The mirror.  The packets of a session stand in epmFeedback in the order  *)
(* of their sequence numbers, from the one ServThread is to write next to   *)
(* the end of the wire.                                                     *)

Busy == serv.pc \in {"write", "written"}

\* The entry goes into lwIP.
Mirrored(i) == ~SKIP_LWIP_DUMMY(epmFeedback[i])

\* Where the packet begins that ServThread is writing, or is to write next.
Start(s) == lwipWritten[s] - (IF Busy /\ serv.s = s THEN serv.n - serv.left ELSE 0)

ServHead ==
    Busy => /\ epmFeedback # <<>> /\ Mirrored(1)
            /\ serv.s = epmFeedback[1].s /\ serv.n = epmFeedback[1].n /\ serv.left <= serv.n

\* Nothing of a session is on its way before connect().
Opened ==
    /\ \A i \in 1..Len(epmFeedback) : conn[epmFeedback[i].s] # "closed"
    /\ \A t \in Thread : app[t].pc # "idle" => conn[app[t].s] # "closed"

Ordered ==
    /\ \A i \in 1..Len(epmFeedback) : Mirrored(i) =>
         /\ Start(epmFeedback[i].s) <= epmFeedback[i].seq
         /\ epmFeedback[i].seq + epmFeedback[i].n <= wire[epmFeedback[i].s]
    /\ \A i, j \in 1..Len(epmFeedback) :
         i < j /\ epmFeedback[i].s = epmFeedback[j].s /\ Mirrored(i) /\ Mirrored(j)
           => epmFeedback[i].seq + epmFeedback[i].n <= epmFeedback[j].seq
    /\ \A s \in Sess : lwipWritten[s] <= wire[s]

\* The number x of session s is where lwIP is to go on, or where one of the first k
\* packets ends.
Follows(s, x, k) ==
    \/ x = Start(s)
    \/ \E j \in 1..k : Mirrored(j) /\ epmFeedback[j].s = s
                       /\ epmFeedback[j].seq + epmFeedback[j].n = x

\* While nothing was cut short or failed, there is no gap.
Contiguous ==
    exc_active /\ serv.pc # "terminated" =>
      /\ \A i \in 1..Len(epmFeedback) :
           Mirrored(i) => Follows(epmFeedback[i].s, epmFeedback[i].seq, i - 1)
      /\ \A s \in Sess : Follows(s, wire[s], Len(epmFeedback)) /\ realDummyBytes[s] = Start(s)
      /\ serv.pc = "written" => serv.left = 0

MirrorInv == ServHead /\ Opened /\ Ordered /\ Contiguous

\* An entry of the channel.
LEMMA FeedbackEntry ==
    ASSUME TypeOK, NEW i \in 1..Len(epmFeedback)
    PROVE  /\ epmFeedback[i].s \in Sess /\ epmFeedback[i].seq \in Nat
           /\ epmFeedback[i].n \in Nat /\ epmFeedback[i].n >= 1
           /\ epmFeedback[i].n <= MAX_PAYLOAD_SIZE
<1>1. epmFeedback[i] \in Feedback
  BY DEF TypeOK
<1> QED
  BY <1>1 DEF Feedback

\* Before the first connection there is nothing to mirror.
LEMMA MirrorInit == Init => MirrorInv
<1> SUFFICES ASSUME Init PROVE MirrorInv
  OBVIOUS
<1>1. Len(epmFeedback) = 0 /\ serv.pc = "idle" /\ \A t \in Thread : app[t].pc = "idle"
  BY DEF Init, Idle
<1>2. \A s \in Sess : Start(s) = 0 /\ wire[s] = 0 /\ lwipWritten[s] = 0 /\ realDummyBytes[s] = 0
  BY <1>1 DEF Init, Start, Busy
<1> QED
  BY <1>1, <1>2 DEF MirrorInv, ServHead, Opened, Ordered, Contiguous, Follows, Busy

\* A step that leaves ServThread, the channel, the wire and what was written alone.
LEMMA MirrorFrame ==
    ASSUME TypeOK, MirrorInv, exc_active' => exc_active,
           UNCHANGED <<serv, epmFeedback, wire, lwipWritten, realDummyBytes>>,
           \A s \in Sess : conn'[s] = "closed" => conn[s] = "closed",
           \A t \in Thread : app'[t].pc # "idle" => conn'[app'[t].s] # "closed"
    PROVE  MirrorInv'
<1>1. ServHead'
  BY DEF MirrorInv, ServHead, Busy, Mirrored, SKIP_LWIP_DUMMY
<1>2. Opened'
  BY FeedbackEntry DEF MirrorInv, Opened
<1>3. \A s : Start(s)' = Start(s)
  BY DEF Start, Busy
<1>4. \A i : Mirrored(i)' <=> Mirrored(i)
  BY DEF Mirrored, SKIP_LWIP_DUMMY
<1>5. Ordered'
  BY <1>3, <1>4 DEF MirrorInv, Ordered
<1>6. Contiguous'
  BY <1>3, <1>4 DEF MirrorInv, Contiguous, Follows
<1> QED
  BY <1>1, <1>2, <1>5, <1>6 DEF MirrorInv

\* The FPGA sends a packet and reports it.
LEMMA MirrorAppend ==
    ASSUME TypeOK, MirrorInv, NEW s \in Sess, NEW n \in 1..MAX_PAYLOAD_SIZE,
           NEW hw \in BOOLEAN, FpgaSend(s, n, hw), conn[s] # "closed",
           UNCHANGED <<exc_active, conn, serv, lwipWritten, realDummyBytes>>,
           \A t \in Thread : app'[t].pc # "idle" => conn[app'[t].s] # "closed"
    PROVE  MirrorInv'
<1>a. wire \in [Sess -> Nat] /\ lwipWritten \in [Sess -> Nat] /\ epmFeedback \in Seq(Feedback)
  BY DEF TypeOK
<1>e. n \in Nat
  OBVIOUS
<1>b. PICK L \in Nat : L = Len(epmFeedback)
  BY <1>a
<1>c. PICK f : f = [s |-> s, seq |-> wire[s], n |-> n, hw |-> hw]
  OBVIOUS
<1>d. f \in Feedback
  BY <1>a, <1>c DEF Feedback
<1>0. L \in Nat /\ L = Len(epmFeedback) /\ epmFeedback \in Seq(Feedback) /\ f \in Feedback
      /\ wire \in [Sess -> Nat] /\ lwipWritten \in [Sess -> Nat] /\ n \in Nat
  BY <1>a, <1>b, <1>d, <1>e
<1>1. epmFeedback' = Append(epmFeedback, f)
  BY <1>c DEF FpgaSend
<1>2. /\ Len(epmFeedback') = L + 1 /\ epmFeedback'[L + 1] = f
      /\ \A i \in 1..L : epmFeedback'[i] = epmFeedback[i]
  BY <1>0, <1>1
<1>7. f.s = s /\ f.seq = wire[s] /\ f.n = n /\ f.hw = hw
  BY <1>c
<1>3. /\ \A r \in Sess : r # s => wire'[r] = wire[r]
      /\ Mirrored(L + 1)' => wire'[s] = wire[s] + n
      /\ ~Mirrored(L + 1)' => wire'[s] = wire[s]
  BY <1>0, <1>2, <1>7 DEF FpgaSend, Mirrored, SKIP_LWIP_DUMMY
<1>4. \A r \in Sess : wire'[r] \in Nat /\ wire[r] \in Nat /\ wire[r] <= wire'[r]
  BY <1>0, <1>3
<1>5. \A i \in 1..L : Mirrored(i)' <=> Mirrored(i)
  BY <1>2 DEF Mirrored, SKIP_LWIP_DUMMY
<1>6. \A r : Start(r)' = Start(r)
  BY DEF Start, Busy
<1>8. \A i \in 1..L : epmFeedback[i].s \in Sess /\ epmFeedback[i].seq \in Nat
                      /\ epmFeedback[i].n \in Nat
  BY FeedbackEntry, <1>b
<1>9. \A r \in Sess : Start(r) \in Int /\ Start(r) <= wire[r]
  <2>1. ASSUME NEW r \in Sess PROVE Start(r) \in Int /\ Start(r) <= wire[r]
    <3>1. CASE Busy /\ serv.s = r
      <4>1. serv.n \in Nat /\ serv.left \in Nat /\ serv.left <= serv.n
        BY <3>1, ServFields DEF MirrorInv, ServHead, Busy
      <4>2. lwipWritten[r] \in Nat /\ lwipWritten[r] <= wire[r] /\ wire[r] \in Nat
        BY <1>0, <1>b DEF MirrorInv, Ordered
      <4>3. Start(r) = lwipWritten[r] - (serv.n - serv.left)
        BY <3>1 DEF Start
      <4> QED
        BY <4>1, <4>2, <4>3
    <3>2. CASE ~(Busy /\ serv.s = r)
      BY <1>0, <3>2 DEF MirrorInv, Ordered, Start
    <3> QED
      BY <3>1, <3>2
  <2> QED
    BY <2>1
<1>10. \A i \in 1..(L + 1) : i \in 1..L \/ i = L + 1
  BY <1>0
<1>11. ServHead'
  <2>1. SUFFICES ASSUME Busy' PROVE ServHead'
    BY DEF ServHead
  <2>2. Busy
    BY <2>1 DEF Busy
  <2>3. epmFeedback # <<>> /\ 1 \in 1..L /\ epmFeedback' # <<>>
    BY <2>2, <1>0, <1>1, <1>b DEF MirrorInv, ServHead
  <2> QED
    BY <2>2, <2>3, <1>2, <1>5, <1>b DEF MirrorInv, ServHead
<1>12. Opened'
  BY <1>2, <1>7, <1>10, <1>b DEF MirrorInv, Opened
<1>13. Ordered'
  <2>1. ASSUME NEW i \in 1..(L + 1), Mirrored(i)'
        PROVE  /\ Start(epmFeedback[i].s)' <= epmFeedback'[i].seq
               /\ epmFeedback'[i].seq + epmFeedback'[i].n <= wire'[epmFeedback'[i].s]
    <3>1. CASE i \in 1..L
      <4>1. /\ Start(epmFeedback[i].s) <= epmFeedback[i].seq
            /\ epmFeedback[i].seq + epmFeedback[i].n <= wire[epmFeedback[i].s]
        BY <2>1, <3>1, <1>5, <1>b DEF MirrorInv, Ordered
      <4>2. epmFeedback'[i] = epmFeedback[i] /\ epmFeedback[i].s \in Sess
            /\ epmFeedback[i].seq + epmFeedback[i].n \in Nat
        BY <3>1, <1>2, <1>8
      <4>3. Start(epmFeedback[i].s)' = Start(epmFeedback[i].s)
        BY <4>2, <1>6
      <4>4. wire[epmFeedback[i].s] <= wire'[epmFeedback[i].s]
            /\ wire[epmFeedback[i].s] \in Nat /\ wire'[epmFeedback[i].s] \in Nat
        BY <4>2, <1>4
      <4> QED
        BY <4>1, <4>2, <4>3, <4>4
    <3>2. CASE i = L + 1
      BY <3>2, <2>1, <1>2, <1>3, <1>4, <1>6, <1>7, <1>9
    <3> QED
      BY <3>1, <3>2, <1>10
  <2>2. ASSUME NEW i \in 1..(L + 1), NEW j \in 1..(L + 1), i < j,
               epmFeedback'[i].s = epmFeedback'[j].s, Mirrored(i)', Mirrored(j)'
        PROVE  epmFeedback'[i].seq + epmFeedback'[i].n <= epmFeedback'[j].seq
    <3>1. i \in 1..L
      BY <2>2, <1>0
    <3>2. CASE j \in 1..L
      BY <2>2, <3>1, <3>2, <1>2, <1>5, <1>b DEF MirrorInv, Ordered
    <3>3. CASE j = L + 1
      <4>1. epmFeedback[i].seq + epmFeedback[i].n <= wire[epmFeedback[i].s]
        BY <2>2, <3>1, <1>5, <1>b DEF MirrorInv, Ordered
      <4> QED
        BY <4>1, <2>2, <3>1, <3>3, <1>2, <1>7
    <3> QED
      BY <3>2, <3>3, <1>10
  <2>3. \A r \in Sess : lwipWritten'[r] <= wire'[r]
    BY <1>0, <1>4, <1>b DEF MirrorInv, Ordered
  <2> QED
    BY <2>1, <2>2, <2>3, <1>2 DEF Ordered
<1>14. Contiguous'
  <2> SUFFICES ASSUME exc_active', serv'.pc # "terminated"
               PROVE  /\ \A i \in 1..(L + 1) :
                           Mirrored(i)' => Follows(epmFeedback[i].s, epmFeedback[i].seq, i - 1)'
                      /\ \A r \in Sess : Follows(r, wire[r], L + 1)'
                                         /\ realDummyBytes'[r] = Start(r)'
                      /\ serv'.pc = "written" => serv'.left = 0
    BY <1>2 DEF Contiguous
  <2>0. exc_active /\ serv.pc # "terminated"
    OBVIOUS
  <2>1. ASSUME NEW r, NEW x, NEW k \in 0..L, Follows(r, x, k) PROVE Follows(r, x, k)'
    <3>1. \A j \in 1..k : j \in 1..L
      BY <1>0
    <3> QED
      BY <2>1, <3>1, <1>2, <1>5, <1>6 DEF Follows
  <2>2. \A r \in Sess : Follows(r, wire[r], L) /\ realDummyBytes[r] = Start(r)
    BY <2>0, <1>b DEF MirrorInv, Contiguous
  <2>3. ASSUME NEW i \in 1..(L + 1), Mirrored(i)'
        PROVE  Follows(epmFeedback[i].s, epmFeedback[i].seq, i - 1)'
    <3>1. CASE i \in 1..L
      <4>1. Follows(epmFeedback[i].s, epmFeedback[i].seq, i - 1) /\ i - 1 \in 0..L
        BY <2>0, <2>3, <3>1, <1>0, <1>5, <1>b DEF MirrorInv, Contiguous
      <4>2. Follows(epmFeedback[i].s, epmFeedback[i].seq, i - 1) =>
              \/ epmFeedback[i].seq = Start(epmFeedback[i].s)
              \/ \E j \in 1..(i - 1) : Mirrored(j) /\ epmFeedback[j].s = epmFeedback[i].s
                       /\ epmFeedback[j].seq + epmFeedback[j].n = epmFeedback[i].seq
        BY DEF Follows
      <4>3. \A j \in 1..(i - 1) : j \in 1..L
        BY <3>1, <1>0
      <4> QED
        BY <3>1, <4>1, <4>2, <4>3, <1>2, <1>5, <1>6 DEF Follows
    <3>2. CASE i = L + 1
      <4>1. Follows(s, wire[s], L)
        BY <2>2
      <4>2. \A j \in 1..L : epmFeedback'[j] = epmFeedback[j] /\ (Mirrored(j)' <=> Mirrored(j))
        BY <1>2, <1>5
      <4>3. i - 1 = L /\ epmFeedback'[i].s = s /\ epmFeedback'[i].seq = wire[s]
        BY <3>2, <1>0, <1>2, <1>7
      <4> QED
        BY <4>1, <4>2, <4>3, <1>6 DEF Follows
    <3> QED
      BY <3>1, <3>2, <1>10
  <2>4. ASSUME NEW r \in Sess PROVE Follows(r, wire[r], L + 1)'
    <3>1. CASE r = s /\ Mirrored(L + 1)'
      <4>1. L + 1 \in 1..(L + 1)
        BY <1>0
      <4>2. epmFeedback'[L + 1].s = s
            /\ epmFeedback'[L + 1].seq + epmFeedback'[L + 1].n = wire'[s]
        BY <3>1, <1>2, <1>3, <1>7
      <4> QED
        BY <3>1, <4>1, <4>2 DEF Follows
    <3>2. CASE ~(r = s /\ Mirrored(L + 1)')
      <4>1. wire'[r] = wire[r] /\ Follows(r, wire[r], L)
        BY <3>2, <1>3, <2>2
      <4>2. \A j \in 1..L : j \in 1..(L + 1) /\ epmFeedback'[j] = epmFeedback[j]
                            /\ (Mirrored(j)' <=> Mirrored(j))
        BY <1>0, <1>2, <1>5
      <4> QED
        BY <4>1, <4>2, <1>6 DEF Follows
    <3> QED
      BY <3>1, <3>2
  <2>5. serv'.pc = "written" => serv'.left = 0
    BY <2>0, <1>b DEF MirrorInv, Contiguous
  <2> QED
    BY <2>2, <2>3, <2>4, <2>5, <1>6
<1> QED
  BY <1>11, <1>12, <1>13, <1>14 DEF MirrorInv

\* ServThread is done with the first entry.
LEMMA MirrorPop ==
    ASSUME TypeOK, MirrorInv, epmFeedback # <<>>, epmFeedback' = Tail(epmFeedback),
           Mirrored(1) => Busy,
           serv'.pc \in {"idle", "terminated"},
           serv'.pc = "idle" => serv.pc \in {"idle", "written"},
           exc_active /\ serv'.pc = "idle" =>
             \A s \in Sess : realDummyBytes'[s] = lwipWritten[s],
           UNCHANGED <<exc_active, conn, app, wire, lwipWritten>>
    PROVE  MirrorInv'
<1>a. wire \in [Sess -> Nat] /\ lwipWritten \in [Sess -> Nat] /\ epmFeedback \in Seq(Feedback)
  BY DEF TypeOK
<1>b. PICK L \in Nat : L = Len(epmFeedback)
  BY <1>a
<1>0. L >= 1 /\ 1 \in 1..L
  BY <1>a, <1>b
<1>1. /\ Len(epmFeedback') = L - 1
      /\ \A i \in 1..(L - 1) : i + 1 \in 1..L /\ epmFeedback'[i] = epmFeedback[i + 1]
  BY <1>a, <1>b, <1>0
<1>2. \A i \in 1..L : epmFeedback[i].s \in Sess /\ epmFeedback[i].seq \in Nat
                      /\ epmFeedback[i].n \in Nat /\ epmFeedback[i].n >= 1
  BY FeedbackEntry, <1>b
<1>3. \A i \in 1..(L - 1) : Mirrored(i)' <=> Mirrored(i + 1)
  BY <1>1 DEF Mirrored, SKIP_LWIP_DUMMY
<1>4. ~Busy' /\ \A r \in Sess : Start(r)' = lwipWritten[r]
  BY <1>a DEF Start, Busy
<1>5. \A r \in Sess : ~(Busy /\ serv.s = r) => Start(r) = lwipWritten[r]
  BY <1>a DEF Start
<1>6. Busy => /\ serv.n = epmFeedback[1].n /\ serv.s = epmFeedback[1].s /\ serv.s \in Sess
              /\ serv.n \in Nat /\ serv.left \in Nat /\ serv.left <= serv.n
              /\ Mirrored(1)
              /\ Start(serv.s) = lwipWritten[serv.s] - (serv.n - serv.left)
              /\ lwipWritten[serv.s] \in Nat
              /\ Start(serv.s) <= epmFeedback[1].seq
  <2> SUFFICES ASSUME Busy
               PROVE  /\ serv.n = epmFeedback[1].n /\ serv.s = epmFeedback[1].s /\ serv.s \in Sess
                      /\ serv.n \in Nat /\ serv.left \in Nat /\ serv.left <= serv.n
                      /\ Mirrored(1)
                      /\ Start(serv.s) = lwipWritten[serv.s] - (serv.n - serv.left)
                      /\ lwipWritten[serv.s] \in Nat
                      /\ Start(serv.s) <= epmFeedback[1].seq
    OBVIOUS
  <2>1. serv.n = epmFeedback[1].n /\ serv.s = epmFeedback[1].s /\ serv.left <= serv.n /\ Mirrored(1)
    BY DEF MirrorInv, ServHead
  <2>2. serv.s \in Sess /\ serv.n \in Nat /\ serv.left \in Nat
    BY ServFields DEF Busy
  <2>3. Start(serv.s) <= epmFeedback[1].seq
    BY <2>1, <1>0, <1>b DEF MirrorInv, Ordered
  <2>4. Start(serv.s) = lwipWritten[serv.s] - (serv.n - serv.left)
    BY DEF Start
  <2> QED
    BY <2>1, <2>2, <2>3, <2>4, <1>a
<1>7. ServHead'
  BY <1>4 DEF ServHead
<1>8. Opened'
  BY <1>1, <1>b DEF MirrorInv, Opened
<1>9. \A i \in 1..(L - 1) : Mirrored(i + 1) /\ Busy /\ serv.s = epmFeedback[i + 1].s
         => epmFeedback[1].seq + serv.n <= epmFeedback[i + 1].seq
  <2> SUFFICES ASSUME NEW i \in 1..(L - 1), Mirrored(i + 1), Busy, serv.s = epmFeedback[i + 1].s
               PROVE  epmFeedback[1].seq + serv.n <= epmFeedback[i + 1].seq
    OBVIOUS
  <2>1. i + 1 \in 1..Len(epmFeedback) /\ 1 \in 1..Len(epmFeedback) /\ 1 < i + 1
    BY <1>0, <1>1, <1>b
  <2>2. epmFeedback[1].s = epmFeedback[i + 1].s /\ Mirrored(1)
    BY <1>6
  <2>3. epmFeedback[1].seq + epmFeedback[1].n <= epmFeedback[i + 1].seq
    BY <2>1, <2>2 DEF MirrorInv, Ordered
  <2> QED
    BY <2>3, <1>6
<1>10. Ordered'
  <2>1. ASSUME NEW i \in 1..(L - 1), Mirrored(i)'
        PROVE  /\ Start(epmFeedback[i].s)' <= epmFeedback'[i].seq
               /\ epmFeedback'[i].seq + epmFeedback'[i].n <= wire'[epmFeedback'[i].s]
    <3>1. i + 1 \in 1..L /\ epmFeedback'[i] = epmFeedback[i + 1] /\ Mirrored(i + 1)
      BY <2>1, <1>1, <1>3
    <3>2. /\ Start(epmFeedback[i + 1].s) <= epmFeedback[i + 1].seq
          /\ epmFeedback[i + 1].seq + epmFeedback[i + 1].n <= wire[epmFeedback[i + 1].s]
      BY <3>1, <1>b DEF MirrorInv, Ordered
    <3>3. lwipWritten[epmFeedback[i + 1].s] <= epmFeedback[i + 1].seq
      <4>1. CASE Busy /\ serv.s = epmFeedback[i + 1].s
        <5>1. epmFeedback[1].seq + serv.n <= epmFeedback[i + 1].seq
          BY <4>1, <3>1, <1>9
        <5>2. epmFeedback[1].seq \in Nat /\ epmFeedback[i + 1].seq \in Nat
          BY <1>2, <1>0, <3>1
        <5>3. /\ serv.n \in Nat /\ serv.left \in Nat
              /\ lwipWritten[serv.s] \in Nat
              /\ Start(serv.s) = lwipWritten[serv.s] - (serv.n - serv.left)
              /\ Start(serv.s) <= epmFeedback[1].seq
          BY <4>1, <1>6
        <5>4. lwipWritten[serv.s] <= epmFeedback[i + 1].seq
          BY <5>1, <5>2, <5>3
        <5> QED
          BY <4>1, <5>4
      <4>2. CASE ~(Busy /\ serv.s = epmFeedback[i + 1].s)
        BY <4>2, <3>1, <3>2, <1>2, <1>5
      <4> QED
        BY <4>1, <4>2
    <3>4. Start(epmFeedback[i].s)' = lwipWritten[epmFeedback'[i].s]
      BY <3>1, <1>2, <1>4
    <3> QED
      BY <3>1, <3>2, <3>3, <3>4
  <2>2. ASSUME NEW i \in 1..(L - 1), NEW j \in 1..(L - 1), i < j,
               epmFeedback'[i].s = epmFeedback'[j].s, Mirrored(i)', Mirrored(j)'
        PROVE  epmFeedback'[i].seq + epmFeedback'[i].n <= epmFeedback'[j].seq
    <3>1. /\ i + 1 \in 1..Len(epmFeedback) /\ j + 1 \in 1..Len(epmFeedback) /\ i + 1 < j + 1
          /\ epmFeedback'[i] = epmFeedback[i + 1] /\ epmFeedback'[j] = epmFeedback[j + 1]
          /\ Mirrored(i + 1) /\ Mirrored(j + 1)
      BY <2>2, <1>1, <1>3, <1>b
    <3> QED
      BY <2>2, <3>1 DEF MirrorInv, Ordered
  <2>3. \A r \in Sess : lwipWritten'[r] <= wire'[r]
    BY DEF MirrorInv, Ordered
  <2> QED
    BY <2>1, <2>2, <2>3, <1>1 DEF Ordered
<1>11. Contiguous'
  <2> SUFFICES ASSUME exc_active', serv'.pc # "terminated"
               PROVE  /\ \A i \in 1..(L - 1) :
                           Mirrored(i)' => Follows(epmFeedback[i].s, epmFeedback[i].seq, i - 1)'
                      /\ \A r \in Sess : Follows(r, wire[r], L - 1)'
                                         /\ realDummyBytes'[r] = Start(r)'
                      /\ serv'.pc = "written" => serv'.left = 0
    BY <1>1 DEF Contiguous
  <2>0. exc_active /\ serv.pc \in {"idle", "written"}
    OBVIOUS
  <2>1. /\ \A i \in 1..L : Mirrored(i) => Follows(epmFeedback[i].s, epmFeedback[i].seq, i - 1)
        /\ \A r \in Sess : Follows(r, wire[r], L)
        /\ serv.pc = "written" => serv.left = 0
    BY <2>0, <1>b DEF MirrorInv, Contiguous
  <2>2. Mirrored(1) => Start(serv.s) = epmFeedback[1].seq /\ serv.left = 0
    <3> SUFFICES ASSUME Mirrored(1) PROVE Start(serv.s) = epmFeedback[1].seq /\ serv.left = 0
      OBVIOUS
    <3>1. Follows(epmFeedback[1].s, epmFeedback[1].seq, 1 - 1)
      BY <2>1, <1>0
    <3>2. epmFeedback[1].seq = Start(epmFeedback[1].s)
      BY <3>1 DEF Follows
    <3> QED
      BY <3>2, <2>0, <2>1, <1>6 DEF Busy
  <2>3. ASSUME NEW r \in Sess, NEW x \in Nat, NEW k \in 1..L, Follows(r, x, k),
               Busy /\ serv.s = r => epmFeedback[1].seq + serv.n <= x
        PROVE  \/ x = lwipWritten[r]
               \/ \E j \in 1..(k - 1) :
                    Mirrored(j)' /\ epmFeedback'[j].s = r /\ epmFeedback'[j].seq + epmFeedback'[j].n = x
    <3>1. CASE x = Start(r)
      <4>1. CASE Busy /\ serv.s = r
        <5>1. serv.n >= 1 /\ epmFeedback[1].seq \in Nat
          BY <4>1, <1>2, <1>0, <1>6
        <5> QED
          BY <5>1, <4>1, <3>1, <2>3, <1>6
      <4>2. CASE ~(Busy /\ serv.s = r)
        BY <4>2, <3>1, <1>5
      <4> QED
        BY <4>1, <4>2
    <3>2. CASE \E j \in 1..k : Mirrored(j) /\ epmFeedback[j].s = r
                               /\ epmFeedback[j].seq + epmFeedback[j].n = x
      <4>1. PICK j \in 1..k : Mirrored(j) /\ epmFeedback[j].s = r
                              /\ epmFeedback[j].seq + epmFeedback[j].n = x
        BY <3>2
      <4>2. CASE j = 1
        <5>1. Mirrored(1) /\ Busy
          BY <4>1, <4>2
        <5>2. Start(serv.s) = epmFeedback[1].seq /\ serv.left = 0
          BY <5>1, <2>2
        <5>3. lwipWritten[serv.s] = epmFeedback[1].seq + serv.n /\ serv.s = r
          BY <5>1, <5>2, <4>1, <4>2, <1>6
        <5> QED
          BY <5>1, <5>3, <4>1, <4>2, <1>6
      <4>3. CASE j # 1
        <5>1. j - 1 \in 1..(k - 1) /\ j - 1 \in 1..(L - 1) /\ (j - 1) + 1 = j
          BY <4>3
        <5>2. epmFeedback'[j - 1] = epmFeedback[j] /\ (Mirrored(j - 1)' <=> Mirrored(j))
          BY <5>1, <1>1, <1>3
        <5> QED
          BY <5>1, <5>2, <4>1
      <4> QED
        BY <4>2, <4>3
    <3> QED
      BY <3>1, <3>2, <2>3 DEF Follows
  <2>4. ASSUME NEW i \in 1..(L - 1), Mirrored(i)'
        PROVE  Follows(epmFeedback[i].s, epmFeedback[i].seq, i - 1)'
    <3>1. i + 1 \in 1..L /\ epmFeedback'[i] = epmFeedback[i + 1] /\ Mirrored(i + 1)
          /\ i \in 1..L /\ (i + 1) - 1 = i
      BY <2>4, <1>1, <1>3
    <3>2. Follows(epmFeedback[i + 1].s, epmFeedback[i + 1].seq, i)
      BY <3>1, <2>1
    <3>3. epmFeedback[i + 1].s \in Sess /\ epmFeedback[i + 1].seq \in Nat
      BY <3>1, <1>2
    <3>4. Busy /\ serv.s = epmFeedback[i + 1].s
             => epmFeedback[1].seq + serv.n <= epmFeedback[i + 1].seq
      BY <3>1, <1>9
    <3>5. \/ epmFeedback[i + 1].seq = lwipWritten[epmFeedback[i + 1].s]
          \/ \E j \in 1..(i - 1) :
               /\ Mirrored(j)' /\ epmFeedback'[j].s = epmFeedback[i + 1].s
               /\ epmFeedback'[j].seq + epmFeedback'[j].n = epmFeedback[i + 1].seq
      <4>1. PICK r \in Sess, x \in Nat : r = epmFeedback[i + 1].s /\ x = epmFeedback[i + 1].seq
        BY <3>3
      <4>2. Follows(r, x, i) /\ (Busy /\ serv.s = r => epmFeedback[1].seq + serv.n <= x)
        BY <3>2, <3>4, <4>1
      <4>3. i \in 1..L
        BY <3>1
      <4>4. \/ x = lwipWritten[r]
            \/ \E j \in 1..(i - 1) : Mirrored(j)' /\ epmFeedback'[j].s = r
                                     /\ epmFeedback'[j].seq + epmFeedback'[j].n = x
        BY <4>2, <4>3, <2>3
      <4> QED
        BY <4>1, <4>4
    <3>6. Start(epmFeedback[i].s)' = lwipWritten[epmFeedback'[i].s]
      BY <3>1, <3>3, <1>4
    <3> QED
      BY <3>1, <3>5, <3>6 DEF Follows
  <2>5. ASSUME NEW r \in Sess PROVE Follows(r, wire[r], L - 1)'
    <3>1. Follows(r, wire[r], L) /\ wire[r] \in Nat /\ L \in 1..L
      BY <2>1, <1>a, <1>0
    <3>2. Busy /\ serv.s = r => epmFeedback[1].seq + serv.n <= wire[r]
      <4> SUFFICES ASSUME Busy, serv.s = r PROVE epmFeedback[1].seq + serv.n <= wire[r]
        OBVIOUS
      <4>1. epmFeedback[1].seq + epmFeedback[1].n <= wire[epmFeedback[1].s]
        BY <1>0, <1>6, <1>b DEF MirrorInv, Ordered
      <4> QED
        BY <4>1, <1>6
    <3>3. \/ wire[r] = lwipWritten[r]
          \/ \E j \in 1..(L - 1) :
               /\ Mirrored(j)' /\ epmFeedback'[j].s = r
               /\ epmFeedback'[j].seq + epmFeedback'[j].n = wire[r]
      <4>1. PICK x \in Nat : x = wire[r]
        BY <3>1
      <4>2. Follows(r, x, L) /\ (Busy /\ serv.s = r => epmFeedback[1].seq + serv.n <= x)
        BY <3>1, <3>2, <4>1
      <4>3. L \in 1..L
        BY <3>1
      <4>4. \/ x = lwipWritten[r]
            \/ \E j \in 1..(L - 1) : Mirrored(j)' /\ epmFeedback'[j].s = r
                                     /\ epmFeedback'[j].seq + epmFeedback'[j].n = x
        BY <4>2, <4>3, <2>3
      <4> QED
        BY <4>1, <4>4
    <3> QED
      BY <3>3, <1>4 DEF Follows
  <2>6. \A r \in Sess : realDummyBytes'[r] = Start(r)'
    BY <2>0, <1>4
  <2> QED
    BY <2>4, <2>5, <2>6
<1> QED
  BY <1>7, <1>8, <1>10, <1>11 DEF MirrorInv

\* The pieces of MirrorInv speak of Start; ServThread moves and Start does not.
LEMMA MirrorSameStart ==
    ASSUME MirrorInv, ServHead',
           UNCHANGED <<exc_active, conn, app, epmFeedback, wire, realDummyBytes>>,
           \A s \in Sess : Start(s)' = Start(s) /\ lwipWritten'[s] <= wire[s],
           TypeOK,
           serv'.pc # "terminated" => serv.pc # "terminated",
           exc_active /\ serv'.pc = "written" => serv'.left = 0
    PROVE  MirrorInv'
<1>1. Opened'
  BY DEF MirrorInv, Opened
<1>2. \A i : Mirrored(i)' <=> Mirrored(i)
  BY DEF Mirrored, SKIP_LWIP_DUMMY
<1>3. \A i \in 1..Len(epmFeedback) : epmFeedback[i].s \in Sess
  BY FeedbackEntry
<1>4. Ordered'
  BY <1>2, <1>3 DEF MirrorInv, Ordered
<1>5. Contiguous'
  BY <1>2, <1>3 DEF MirrorInv, Contiguous, Follows
<1> QED
  BY <1>1, <1>4, <1>5 DEF MirrorInv

\* ServThread drops the oldest entry or begins to write it.
LEMMA MirrorTake ==
    ASSUME TypeOK, MirrorInv, ServTake PROVE MirrorInv'
<1>1. serv.pc = "idle" /\ epmFeedback # <<>> /\ ~Busy
      /\ UNCHANGED <<exc_active, conn, app, wire, realDummyBytes, lwipWritten>>
  BY DEF ServTake, Busy
<1>2. Head(epmFeedback) = epmFeedback[1] /\ 1 \in 1..Len(epmFeedback)
      /\ lwipWritten \in [Sess -> Nat]
  BY <1>1 DEF TypeOK
<1>3. CASE SKIP_LWIP_DUMMY(Head(epmFeedback))
  <2>1. epmFeedback' = Tail(epmFeedback) /\ serv' = serv /\ ~Mirrored(1)
    BY <1>2, <1>3 DEF ServTake, Mirrored
  <2>2. exc_active => \A s \in Sess : realDummyBytes'[s] = lwipWritten[s]
    BY <1>1, <1>2 DEF MirrorInv, Contiguous, Start
  <2> QED
    BY <1>1, <2>1, <2>2, MirrorPop
<1>4. CASE ~SKIP_LWIP_DUMMY(Head(epmFeedback))
  <2>1. /\ serv' = [pc |-> "write", s |-> epmFeedback[1].s, n |-> epmFeedback[1].n,
                    left |-> epmFeedback[1].n]
        /\ UNCHANGED epmFeedback /\ Mirrored(1)
    BY <1>2, <1>4 DEF ServTake, Mirrored
  <2>2. epmFeedback[1].n \in Nat
    BY <1>2, FeedbackEntry
  <2>3. ServHead'
    BY <1>1, <2>1, <2>2 DEF ServHead, Mirrored, SKIP_LWIP_DUMMY
  <2>4. \A s \in Sess : Start(s)' = Start(s) /\ lwipWritten'[s] <= wire[s]
    <3>1. serv'.n - serv'.left = 0
      BY <2>1, <2>2
    <3> QED
      BY <3>1, <1>1, <1>2 DEF Start, MirrorInv, Ordered
  <2>5. serv.pc # "terminated" /\ serv'.pc = "write"
    BY <1>1, <2>1
  <2> QED
    BY <1>1, <2>1, <2>3, <2>4, <2>5, MirrorSameStart
<1> QED
  BY <1>3, <1>4

\* A round of the write loop advances the offset by what lwIP accepted.
LEMMA MirrorWrite ==
    ASSUME TypeOK, MirrorInv, ServWrite PROVE MirrorInv'
<1>1. serv.pc = "write" /\ Busy
      /\ UNCHANGED <<exc_active, conn, app, wire, realDummyBytes, epmFeedback>>
  BY DEF ServWrite, Busy
<1>a. serv.s \in Sess /\ serv.n \in Nat /\ serv.left \in Nat
  BY <1>1, ServFields
<1>b. lwipWritten \in [Sess -> Nat] /\ wire \in [Sess -> Nat] /\ lwipLastAck \in [Sess -> Nat]
  BY DEF TypeOK
<1>2. serv.s \in Sess /\ serv.n \in Nat /\ serv.left \in Nat /\ lwipWritten \in [Sess -> Nat]
      /\ wire \in [Sess -> Nat] /\ lwipLastAck \in [Sess -> Nat]
  BY <1>a, <1>b
<1>3. epmFeedback # <<>> /\ Mirrored(1) /\ serv.s = epmFeedback[1].s
      /\ serv.n = epmFeedback[1].n /\ serv.left <= serv.n
  BY <1>1 DEF MirrorInv, ServHead
<1>4. PICK k \in Nat : k = LwipTakes(serv.s, serv.left) /\ k <= serv.left
  BY <1>2 DEF LwipTakes, LwipRoom, Lesser, Positive
<1>5. /\ lwipWritten' = [lwipWritten EXCEPT ![serv.s] = @ + k]
      /\ serv' = [pc |-> IF WriteDone(serv.left - k) THEN "written" ELSE "write",
                  s |-> serv.s, n |-> serv.n, left |-> serv.left - k]
  BY <1>4 DEF ServWrite
<1>6. serv'.s = serv.s /\ serv'.n = serv.n /\ serv'.left = serv.left - k
      /\ serv'.pc \in {"write", "written"} /\ (exc_active /\ serv'.pc = "written" => serv'.left = 0)
  BY <1>5 DEF WriteDone
<1>7. ServHead'
  BY <1>1, <1>2, <1>3, <1>4, <1>6 DEF ServHead, Mirrored, SKIP_LWIP_DUMMY
<1>8. \A r \in Sess : r # serv.s => lwipWritten'[r] = lwipWritten[r]
  BY <1>2, <1>5
<1>9. lwipWritten'[serv.s] = lwipWritten[serv.s] + k
  BY <1>2, <1>5
<1>10. Busy'
  BY <1>6 DEF Busy
<1>11. \A r \in Sess : Start(r)' = Start(r)
  <2> SUFFICES ASSUME NEW r \in Sess PROVE Start(r)' = Start(r)
    OBVIOUS
  <2>1. CASE r = serv.s
    <3>1. Start(r) = lwipWritten[serv.s] - (serv.n - serv.left)
          /\ Start(r)' = lwipWritten'[serv.s] - (serv'.n - serv'.left)
      BY <2>1, <1>1, <1>6, <1>10 DEF Start
    <3> QED
      BY <3>1, <1>2, <1>4, <1>6, <1>9
  <2>2. CASE r # serv.s
    BY <2>2, <1>6, <1>8 DEF Start
  <2> QED
    BY <2>1, <2>2
<1>12. \A r \in Sess : lwipWritten'[r] <= wire[r]
  <2> SUFFICES ASSUME NEW r \in Sess PROVE lwipWritten'[r] <= wire[r]
    OBVIOUS
  <2>1. CASE r = serv.s
    <3>1. 1 \in 1..Len(epmFeedback)
      BY <1>3 DEF TypeOK
    <3>2. Start(serv.s) <= epmFeedback[1].seq /\ epmFeedback[1].seq + serv.n <= wire[serv.s]
          /\ epmFeedback[1].seq \in Nat
      BY <3>1, <1>3, FeedbackEntry DEF MirrorInv, Ordered
    <3>3. Start(serv.s) = lwipWritten[serv.s] - (serv.n - serv.left)
      BY <1>1 DEF Start
    <3>4. lwipWritten[serv.s] \in Nat /\ wire[serv.s] \in Nat
      BY <1>2
    <3> QED
      BY <2>1, <3>2, <3>3, <3>4, <1>2, <1>4, <1>9
  <2>2. CASE r # serv.s
    BY <2>2, <1>8 DEF MirrorInv, Ordered
  <2> QED
    BY <2>1, <2>2
<1> QED
  BY <1>1, <1>6, <1>7, <1>11, <1>12, MirrorSameStart

\* ServThread consumes the entry: the next one follows it.
LEMMA MirrorWritten ==
    ASSUME TypeOK, MirrorInv, ServWritten PROVE MirrorInv'
<1>1. /\ serv.pc = "written" /\ Busy /\ serv'.pc = "idle"
      /\ epmFeedback' = Tail(epmFeedback)
      /\ realDummyBytes' = [realDummyBytes EXCEPT ![serv.s] = @ + serv.n]
      /\ UNCHANGED <<exc_active, conn, app, wire, lwipWritten>>
  BY DEF ServWritten, Busy, Idle
<1>a. serv.s \in Sess /\ serv.n \in Nat /\ serv.left \in Nat
  BY <1>1, ServFields
<1>b. lwipWritten \in [Sess -> Nat] /\ realDummyBytes \in [Sess -> Nat]
  BY DEF TypeOK
<1>2. serv.s \in Sess /\ serv.n \in Nat /\ serv.left \in Nat /\ lwipWritten \in [Sess -> Nat]
      /\ realDummyBytes \in [Sess -> Nat] /\ epmFeedback # <<>>
  BY <1>1, <1>a, <1>b DEF MirrorInv, ServHead
<1>3. exc_active => \A r \in Sess : realDummyBytes'[r] = lwipWritten[r]
  <2> SUFFICES ASSUME exc_active, NEW r \in Sess PROVE realDummyBytes'[r] = lwipWritten[r]
    OBVIOUS
  <2>1. serv.left = 0 /\ realDummyBytes[r] = Start(r)
    BY <1>1 DEF MirrorInv, Contiguous
  <2>2. CASE r = serv.s
    <3>1. Start(r) = lwipWritten[r] - (serv.n - serv.left) /\ realDummyBytes'[r] = realDummyBytes[r] + serv.n
      BY <2>2, <1>1, <1>2 DEF Start
    <3>2. lwipWritten[r] \in Nat
      BY <1>2
    <3> QED
      BY <3>1, <3>2, <2>1, <1>2
  <2>3. CASE r # serv.s
    BY <2>1, <2>3, <1>1, <1>2 DEF Start
  <2> QED
    BY <2>2, <2>3
<1> QED
  BY <1>1, <1>2, <1>3, MirrorPop

\* A handshake starts all counters of its session at the same number.
LEMMA MirrorSyn ==
    ASSUME TypeOK, MirrorInv, NEW s \in Sess, SendSyn(s) PROVE MirrorInv'
<1>1. /\ conn[s] = "closed" /\ conn' = [conn EXCEPT ![s] = "synSent"]
      /\ wire' = [wire EXCEPT ![s] = Base] /\ lwipWritten' = [lwipWritten EXCEPT ![s] = Base]
      /\ realDummyBytes' = [realDummyBytes EXCEPT ![s] = Base]
      /\ UNCHANGED <<exc_active, app, serv, epmFeedback>>
  BY DEF SendSyn
<1>2. conn \in [Sess -> {"closed", "synSent", "synAcked", "firstAck", "up"}]
      /\ wire \in [Sess -> Nat] /\ lwipWritten \in [Sess -> Nat] /\ realDummyBytes \in [Sess -> Nat]
  BY DEF TypeOK
<1>3. \A i \in 1..Len(epmFeedback) : epmFeedback[i].s # s /\ epmFeedback[i].s \in Sess
  BY <1>1, FeedbackEntry DEF MirrorInv, Opened
<1>4. Busy => serv.s # s
  <2>1. Busy => 1 \in 1..Len(epmFeedback) /\ serv.s = epmFeedback[1].s
    BY DEF MirrorInv, ServHead, TypeOK
  <2> QED
    BY <2>1, <1>3
<1>5. \A r \in Sess : r # s => /\ Start(r)' = Start(r) /\ wire'[r] = wire[r]
                               /\ lwipWritten'[r] = lwipWritten[r]
                               /\ realDummyBytes'[r] = realDummyBytes[r]
  BY <1>1, <1>2 DEF Start, Busy
<1>6. /\ wire'[s] = Base /\ lwipWritten'[s] = Base /\ realDummyBytes'[s] = Base
      /\ Base \in Nat
  BY <1>1, <1>2, BaseNat
<1>7. Start(s)' = Base
  BY <1>1, <1>4, <1>6 DEF Start, Busy
<1>8. \A i : Mirrored(i)' <=> Mirrored(i)
  BY <1>1 DEF Mirrored, SKIP_LWIP_DUMMY
<1>9. ServHead'
  BY <1>1, <1>8 DEF MirrorInv, ServHead, Busy
<1>10. Opened'
  <2>1. \A r \in Sess : conn[r] # "closed" => conn'[r] # "closed"
    BY <1>1, <1>2
  <2>2. \A t \in Thread : app[t].pc # "idle" => app[t].s \in Sess
    BY AppFields
  <2> QED
    BY <1>1, <1>3, <2>1, <2>2 DEF MirrorInv, Opened
<1>11. Ordered'
  <2>1. \A r \in Sess : lwipWritten'[r] <= wire'[r]
    BY <1>5, <1>6 DEF MirrorInv, Ordered
  <2> QED
    BY <2>1, <1>1, <1>3, <1>5, <1>8 DEF MirrorInv, Ordered
<1>12. Contiguous'
  <2> SUFFICES ASSUME exc_active', serv'.pc # "terminated"
               PROVE  /\ \A i \in 1..Len(epmFeedback) :
                           Mirrored(i)' => Follows(epmFeedback[i].s, epmFeedback[i].seq, i - 1)'
                      /\ \A r \in Sess : Follows(r, wire[r], Len(epmFeedback))'
                                         /\ realDummyBytes'[r] = Start(r)'
                      /\ serv'.pc = "written" => serv'.left = 0
    BY <1>1 DEF Contiguous
  <2>1. /\ \A i \in 1..Len(epmFeedback) :
             Mirrored(i) => Follows(epmFeedback[i].s, epmFeedback[i].seq, i - 1)
        /\ \A r \in Sess : Follows(r, wire[r], Len(epmFeedback)) /\ realDummyBytes[r] = Start(r)
        /\ serv.pc = "written" => serv.left = 0
    BY <1>1 DEF MirrorInv, Contiguous
  <2>2. \A i \in 1..Len(epmFeedback) :
          Mirrored(i)' => Follows(epmFeedback[i].s, epmFeedback[i].seq, i - 1)'
    BY <2>1, <1>1, <1>3, <1>5, <1>8 DEF Follows
  <2>3. \A r \in Sess : Follows(r, wire[r], Len(epmFeedback))'
    BY <2>1, <1>1, <1>5, <1>6, <1>7, <1>8 DEF Follows
  <2>4. \A r \in Sess : realDummyBytes'[r] = Start(r)'
    BY <2>1, <1>5, <1>6, <1>7
  <2> QED
    BY <2>1, <2>2, <2>3, <2>4, <1>1
<1> QED
  BY <1>9, <1>10, <1>11, <1>12 DEF MirrorInv

\* Every step keeps MirrorInv, one case per action.
LEMMA MirrorStep ==
    ASSUME TypeInv, MirrorInv, [Next]_vars PROVE MirrorInv'
<1>0. TypeOK
  BY DEF TypeInv
<1>a. \A t \in Thread : app[t].pc # "idle" => conn[app[t].s] # "closed"
  BY DEF MirrorInv, Opened
<1>b. conn \in [Sess -> {"closed", "synSent", "synAcked", "firstAck", "up"}]
      /\ app \in [Thread -> AppState]
  BY <1>0 DEF TypeOK
<1>1. ASSUME ServNext PROVE MirrorInv'
  <2>1. ASSUME ServWriteError PROVE MirrorInv'
    <3>1. epmFeedback # <<>> /\ Busy
      BY <2>1 DEF ServWriteError, Busy, MirrorInv, ServHead
    <3> QED
      BY <2>1, <3>1, <1>0, MirrorPop DEF ServWriteError
  <2>2. ASSUME ServExit PROVE MirrorInv'
    <3>1. ~Busy /\ ~Busy' /\ lwipWritten' = lwipWritten /\ serv'.pc = "terminated"
      BY <2>2 DEF ServExit, Busy
    <3>2. \A s \in Sess : Start(s)' = Start(s) /\ lwipWritten'[s] <= wire[s]
      BY <3>1 DEF Start, MirrorInv, Ordered
    <3> QED
      BY <2>2, <3>1, <3>2, <1>0, MirrorSameStart DEF ServExit, ServHead
  <2> QED
    BY <1>1, <2>1, <2>2, <1>0, MirrorTake, MirrorWrite, MirrorWritten DEF ServNext
<1>2. ASSUME RxStoreWnd \/ RxStoreAck \/ RxDelay \/ Stop PROVE MirrorInv'
  BY <1>2, <1>a, <1>0, MirrorFrame DEF RxStoreWnd, RxStoreAck, RxDelay, RxTestAhead, RxLoadTx, RxInsertEmptyAck, Stop
<1>3. ASSUME RxForward PROVE MirrorInv'
  <2>1. \A s \in Sess : conn'[s] = "closed" => conn[s] = "closed"
    BY <1>3, <1>b DEF RxForward, RxForwardPkt
  <2>2. \A t \in Thread : app'[t].pc # "idle" => conn'[app'[t].s] # "closed"
    BY <1>3, <2>1, <1>0, <1>a, AppFields DEF RxForward, RxForwardPkt
  <2> QED
    BY <1>3, <2>1, <2>2, <1>0, MirrorFrame DEF RxForward, RxForwardPkt
<1>4. ASSUME NEW s \in Sess, ConnectStep(s) PROVE MirrorInv'
  <2>1. ASSUME ConnectReturn(s) \/ \E w \in PeerWnds : PeerSynAck(s, w) PROVE MirrorInv'
    <3>1. \A r \in Sess : conn'[r] = "closed" => conn[r] = "closed"
      BY <2>1, <1>b DEF ConnectReturn, PeerSynAck
    <3>2. \A t \in Thread : app'[t].pc # "idle" => conn'[app'[t].s] # "closed"
      BY <2>1, <3>1, <1>0, <1>a, AppFields DEF ConnectReturn, PeerSynAck
    <3>3. UNCHANGED <<exc_active, serv, epmFeedback, wire, lwipWritten, realDummyBytes>>
      BY <2>1 DEF ConnectReturn, PeerSynAck
    <3> QED
      BY <3>1, <3>2, <3>3, <1>0, MirrorFrame
  <2> QED
    BY <1>4, <2>1, <1>0, MirrorSyn DEF ConnectStep
<1>5. ASSUME NEW s \in Sess, LwipNext(s) PROVE MirrorInv'
  BY <1>5, <1>a, <1>0, MirrorFrame DEF LwipNext, LwipOutput, LwipSendFin, LwipRetransmit
<1>6. ASSUME NEW s \in Sess, PeerNext(s) \/ Shutdown(s) PROVE MirrorInv'
  BY <1>6, <1>a, <1>0, MirrorFrame DEF PeerNext, PeerAckAny, PeerSendAck, Lose, StaleAck,
     PeerReset, Shutdown
<1>7. ASSUME NEW s \in Sess, NEW n \in 1..MAX_PAYLOAD_SIZE, HwFire(s, n) PROVE MirrorInv'
  <2>1. conn[s] # "closed" /\ FpgaSend(s, n, TRUE)
        /\ UNCHANGED <<exc_active, conn, serv, lwipWritten, realDummyBytes, app>>
    BY <1>7 DEF HwFire
  <2> QED
    BY <2>1, <1>0, <1>a, MirrorAppend
<1>8. ASSUME NEW t \in Thread, FastSend(t) PROVE MirrorInv'
  <2>1. app[t].s \in Sess /\ app[t].n \in 1..MAX_PAYLOAD_SIZE /\ conn[app[t].s] # "closed"
    BY <1>8, <1>0, <1>a, AppFields DEF FastSend
  <2>2. FpgaSend(app[t].s, app[t].n, FALSE) /\ app' = [app EXCEPT ![t] = Idle]
        /\ UNCHANGED <<exc_active, conn, serv, lwipWritten, realDummyBytes>>
    BY <1>8 DEF FastSend
  <2>3. \A u \in Thread : app'[u].pc # "idle" => conn[app'[u].s] # "closed"
    BY <2>2, <1>a, <1>b DEF Idle
  <2> QED
    BY <2>1, <2>2, <2>3, <1>0, MirrorAppend
<1>9. ASSUME NEW t \in Thread,
             PreSendLoadAck(t) \/ PreSendCheck(t) \/ PreSendLimit(t) \/ PreSendCount(t)
      PROVE  MirrorInv'
  <2>1. app[t].pc # "idle"
    BY <1>9 DEF PreSendLoadAck, PreSendCheck, PreSendLimit, PreSendCount
  <2>2. \A u \in Thread : u # t => app'[u] = app[u]
    BY <1>9, <1>b DEF PreSendLoadAck, PreSendCheck, PreSendLimit, PreSendCount
  <2>3. app'[t].pc = "idle" \/ app'[t].s = app[t].s
    <3>1. ASSUME PreSendLoadAck(t) PROVE app'[t].s = app[t].s
      BY <3>1, <1>b DEF PreSendLoadAck
    <3>2. ASSUME PreSendCheck(t) PROVE app'[t].pc = "idle" \/ app'[t].s = app[t].s
      <4>1. app'[t] = IF Throttled(app[t].s, app[t].n, app[t].unAcked)
                      THEN Idle
                      ELSE [pc |-> "limit", s |-> app[t].s, n |-> app[t].n,
                            fast |-> globalFastPathBytes]
        BY <3>2, <1>b DEF PreSendCheck
      <4> QED
        BY <4>1 DEF Idle
    <3>4. ASSUME PreSendLimit(t) PROVE app'[t].pc = "idle" \/ app'[t].s = app[t].s
      <4>1. app'[t] = IF FpgaBusy(app[t].fast)
                      THEN Idle ELSE [pc |-> "count", s |-> app[t].s, n |-> app[t].n]
        BY <3>4, <1>b DEF PreSendLimit
      <4> QED
        BY <4>1 DEF Idle
    <3>3. ASSUME PreSendCount(t) PROVE app'[t].s = app[t].s
      <4>1. app'[t] = [app[t] EXCEPT !.pc = "send"]
        BY <3>3, <1>b DEF PreSendCount
      <4>2. app[t] \in AppState /\ app[t].pc = "count"
        BY <3>3, <1>b DEF PreSendCount
      <4> QED
        BY <4>1, <4>2 DEF AppState, Idle
    <3> QED
      BY <1>9, <3>1, <3>2, <3>3, <3>4
  <2>4. \A u \in Thread : app'[u].pc # "idle" => conn[app'[u].s] # "closed"
    BY <2>1, <2>2, <2>3, <1>a
  <2> QED
    BY <1>9, <2>4, <1>0, MirrorFrame DEF PreSendLoadAck, PreSendCheck, PreSendLimit, PreSendCount
<1>10. ASSUME NEW t \in Thread, NEW s \in Sess, NEW n \in 1..MAX_PAYLOAD_SIZE,
              PreSendLoadFastPath(t, s, n)
       PROVE  MirrorInv'
  <2>1. app' = [app EXCEPT ![t] = [pc |-> "loadAck", s |-> s, n |-> n,
                                   fast |-> realFastPathBytes[s]]]
        /\ conn[s] # "closed"
    BY <1>10 DEF PreSendLoadFastPath
  <2>2. \A u \in Thread : app'[u].pc # "idle" => conn[app'[u].s] # "closed"
    BY <2>1, <1>a, <1>b
  <2> QED
    BY <1>10, <2>2, <1>0, MirrorFrame DEF PreSendLoadFastPath
<1>11. ASSUME UNCHANGED vars PROVE MirrorInv'
  BY <1>11, <1>a, <1>0, MirrorFrame
<1> QED
  BY <1>1, <1>2, <1>3, <1>4, <1>5, <1>6, <1>7, <1>8, <1>9, <1>10, <1>11
     DEF Next, RxNext, AppStep

\* lwipDummyWrite(): while the stack is active, ServThread writes every byte into lwIP
\* at the sequence number the wire gave it; for any number of sessions and threads,
\* any interleaving of their sends with HW fires, any split of a packet over rounds of
\* the write loop, and with ReportOnly as without.
THEOREM TcpMirrorExact == Spec => []MirrorExact
<1>1. Init => TypeInv /\ MirrorInv
  BY TypeInit, MirrorInit
<1>2. TypeInv /\ MirrorInv /\ [Next]_vars => TypeInv' /\ MirrorInv'
  BY TypeStep, MirrorStep
<1>3. TypeInv /\ MirrorInv => MirrorExact
  <2> SUFFICES ASSUME TypeInv, MirrorInv, exc_active, serv.pc = "write"
               PROVE  lwipWritten[serv.s] = Head(epmFeedback).seq + (serv.n - serv.left)
    BY DEF MirrorExact
  <2>1. TypeOK /\ Busy
    BY DEF TypeInv, Busy
  <2>2. epmFeedback # <<>> /\ Mirrored(1) /\ serv.s = epmFeedback[1].s
    BY <2>1 DEF MirrorInv, ServHead
  <2>3. 1 \in 1..Len(epmFeedback) /\ Head(epmFeedback) = epmFeedback[1]
    BY <2>1, <2>2 DEF TypeOK
  <2>4. Follows(epmFeedback[1].s, epmFeedback[1].seq, 1 - 1)
    BY <2>2, <2>3 DEF MirrorInv, Contiguous
  <2>5. epmFeedback[1].seq = Start(serv.s)
    BY <2>2, <2>4 DEF Follows
  <2>6. Start(serv.s) = lwipWritten[serv.s] - (serv.n - serv.left)
    BY <2>1 DEF Start
  <2>7. serv.s \in Sess /\ serv.n \in Nat /\ serv.left \in Nat
    BY <2>1, ServFields
  <2>8. lwipWritten[serv.s] \in Nat
    BY <2>1, <2>7 DEF TypeOK
  <2> QED
    BY <2>3, <2>5, <2>6, <2>7, <2>8
<1> QED
  BY <1>1, <1>2, <1>3, PTL DEF Spec

----------------------------------------------------------------------------
(* What lwIP transmits.  The driver tells a retransmission from a new dummy *)
(* by the 32-bit sequence number alone; lwIP's congestion window keeps them *)
(* less than half the sequence space apart.                                 *)

TxInv ==
    \A s \in Sess :
      /\ lwipLastAck[s] <= lwipSndNxt[s]
      /\ lwipSndNxt[s] <= lwipWritten[s] + 1
      /\ s \notin finSent =>
           /\ lwipSndNxt[s] <= lwipWritten[s]
           /\ lwipSndNxt[s] <= lwipLastAck[s] + Cwnd
           /\ tcpLocalSeqNum[s] = lwipSndNxt[s] % SeqMod
           /\ realTxDriverBytes[s] = lwipSndNxt[s]

\* A number at most half the space behind is an old one.
LEMMA OldIsLess ==
    ASSUME NEW a \in Nat, NEW b \in Nat, a < b, 2 * (b - a) <= SeqMod
    PROVE  TCP_SEQ_LT(a % SeqMod, b % SeqMod)
<1> DEFINE p == a \div SeqMod
           q == b \div SeqMod
           r == SeqMod - (b - a)
<1>0. SeqMod \in Nat \ {0} /\ a \in Int /\ b \in Int
  OBVIOUS
<1>1. p \in Int /\ a % SeqMod \in Int /\ a = SeqMod * p + (a % SeqMod)
  BY <1>0, DivMod
<1>2. q \in Int /\ b % SeqMod \in Int /\ b = SeqMod * q + (b % SeqMod)
  BY <1>0, DivMod
<1> HIDE DEF p, q
<1>3. r \in 0..(SeqMod - 1) /\ 2 * r >= SeqMod
  BY <1>0
<1>4. SeqMod * (q - p - 1) = SeqMod * q - SeqMod * p - SeqMod /\ q - p - 1 \in Int
      /\ SeqMod * q \in Int /\ SeqMod * p \in Int
  BY <1>0, <1>1, <1>2
<1>5. (a % SeqMod) - (b % SeqMod) = SeqMod * (q - p - 1) + r
  BY <1>0, <1>1, <1>2, <1>4
<1> HIDE DEF r
<1>6. (SeqMod * (q - p - 1) + r) % SeqMod = r
  BY <1>0, <1>3, <1>4, ModUnique
<1> QED
  BY <1>3, <1>5, <1>6 DEF TCP_SEQ_LT

\* A number is not older than itself.
LEMMA SameIsNotLess ==
    ASSUME NEW a \in Nat PROVE ~TCP_SEQ_LT(a % SeqMod, a % SeqMod)
<1>0. SeqMod \in Nat \ {0} /\ 0 \in Int /\ 0 \in 0..(SeqMod - 1)
  OBVIOUS
<1>1. a % SeqMod \in Int
  BY <1>0, DivMod
<1>2. (SeqMod * 0 + 0) % SeqMod = 0
  BY <1>0, ModUnique
<1>3. SeqMod * 0 + 0 = (a % SeqMod) - (a % SeqMod)
  BY <1>0, <1>1
<1> QED
  BY <1>0, <1>2, <1>3 DEF TCP_SEQ_LT

\* Before the first connection nothing was transmitted.
LEMMA TxInit == Init => TxInv
<1> SUFFICES ASSUME Init PROVE TxInv
  OBVIOUS
<1>1. 0 % SeqMod = 0
  <2>1. 0 \in Nat /\ SeqMod \in Nat \ {0}
    OBVIOUS
  <2>2. 0 % SeqMod <= 0 /\ 0 % SeqMod \in 0..(SeqMod - 1)
    BY <2>1, ModBelow, DivMod
  <2> QED
    BY <2>2
<1> QED
  BY <1>1 DEF Init, TxInv

\* A step that writes or nothing at all.
LEMMA TxFrame ==
    ASSUME TypeOK, TypeOK', TxInv,
           UNCHANGED <<lwipSndNxt, lwipLastAck, finSent, tcpLocalSeqNum, realTxDriverBytes>>,
           \A s \in Sess : lwipWritten[s] <= lwipWritten'[s]
    PROVE  TxInv'
<1>1. lwipWritten \in [Sess -> Nat] /\ lwipWritten' \in [Sess -> Nat] /\ lwipSndNxt \in [Sess -> Nat]
  BY DEF TypeOK
<1> QED
  BY <1>1 DEF TxInv

\* lwIP takes an ACK.
LEMMA TxInput ==
    ASSUME TypeOK, TxInv, NEW s \in Sess, NEW ack \in Nat, NEW wnd, LwipInput(s, ack, wnd),
           UNCHANGED <<lwipWritten, lwipSndNxt, finSent, tcpLocalSeqNum, realTxDriverBytes>>
    PROVE  TxInv'
<1>1. lwipLastAck' = [lwipLastAck EXCEPT ![s] =
                        IF @ <= ack /\ ack <= lwipSndNxt[s] THEN ack ELSE @]
  BY DEF LwipInput
<1>2. lwipLastAck \in [Sess -> Nat] /\ lwipSndNxt \in [Sess -> Nat]
  BY DEF TypeOK
<1>3. \A r \in Sess : lwipLastAck[r] <= lwipSndNxt[r]
  BY DEF TxInv
<1>4. \A r \in Sess : /\ lwipLastAck'[r] \in Nat
                      /\ lwipLastAck[r] <= lwipLastAck'[r] /\ lwipLastAck'[r] <= lwipSndNxt[r]
  BY <1>1, <1>2, <1>3
<1>5. ASSUME NEW r \in Sess, lwipSndNxt[r] <= lwipLastAck[r] + Cwnd
      PROVE  lwipSndNxt[r] <= lwipLastAck'[r] + Cwnd
  BY <1>2, <1>4, <1>5
<1> QED
  BY <1>4, <1>5 DEF TxInv

\* lwIP sends more of what was written and the driver takes it for a dummy.
LEMMA TxOutput ==
    ASSUME TypeOK, TypeOK', TxInv, NEW s \in Sess, LwipOutput(s)
    PROVE  TxInv'
<1>0. /\ lwipLastAck[s] \in Nat /\ lwipSndNxt[s] \in Nat /\ lwipWritten[s] \in Nat
      /\ lwipSndWnd[s] \in Nat /\ realTxDriverBytes[s] \in Nat
  BY DEF TypeOK
<1>1. /\ lwipLastAck[s] <= lwipSndNxt[s] /\ lwipSndNxt[s] <= lwipWritten[s]
      /\ tcpLocalSeqNum[s] = lwipSndNxt[s] % SeqMod /\ realTxDriverBytes[s] = lwipSndNxt[s]
      /\ s \notin finSent
  BY DEF TxInv, LwipOutput
<1>2. PICK n \in Nat : /\ n = LwipMaySend(s) /\ n <= lwipWritten[s] - lwipSndNxt[s]
                       /\ n <= Cwnd - (lwipSndNxt[s] - lwipLastAck[s])
  <2>1. LwipMaySend(s) > 0
    BY DEF LwipOutput
  <2> QED
    BY <2>1, <1>0, <1>1 DEF LwipMaySend, Lesser, Positive
<1>3. /\ lwipSndNxt' = [lwipSndNxt EXCEPT ![s] = @ + n]
      /\ sendStackEthFrame(s, lwipSndNxt[s], n)
      /\ UNCHANGED <<lwipWritten, lwipLastAck, finSent>>
  BY <1>2 DEF LwipOutput
<1>4. ~TCP_SEQ_LT(lwipSndNxt[s] % SeqMod, tcpLocalSeqNum[s])
  BY <1>0, <1>1, SameIsNotLess
<1>5. /\ tcpLocalSeqNum' = [tcpLocalSeqNum EXCEPT ![s] = (lwipSndNxt[s] + n) % SeqMod]
      /\ realTxDriverBytes' = [realTxDriverBytes EXCEPT ![s] = @ + n]
  BY <1>3, <1>4 DEF sendStackEthFrame, CountTx
<1>6. tcpLocalSeqNum \in [Sess -> 0..(SeqMod - 1)] /\ realTxDriverBytes \in [Sess -> Nat]
      /\ lwipSndNxt \in [Sess -> Nat]
  BY DEF TypeOK
<1>7. /\ lwipSndNxt'[s] = lwipSndNxt[s] + n /\ realTxDriverBytes'[s] = lwipSndNxt[s] + n
      /\ tcpLocalSeqNum'[s] = (lwipSndNxt[s] + n) % SeqMod
      /\ \A r \in Sess : r # s => /\ lwipSndNxt'[r] = lwipSndNxt[r]
                                  /\ realTxDriverBytes'[r] = realTxDriverBytes[r]
                                  /\ tcpLocalSeqNum'[r] = tcpLocalSeqNum[r]
  BY <1>1, <1>3, <1>5, <1>6
<1>8. ASSUME NEW r \in Sess
      PROVE  /\ lwipLastAck'[r] <= lwipSndNxt'[r]
             /\ lwipSndNxt'[r] <= lwipWritten'[r] + 1
             /\ r \notin finSent' =>
                  /\ lwipSndNxt'[r] <= lwipWritten'[r]
                  /\ lwipSndNxt'[r] <= lwipLastAck'[r] + Cwnd
                  /\ tcpLocalSeqNum'[r] = lwipSndNxt'[r] % SeqMod
                  /\ realTxDriverBytes'[r] = lwipSndNxt'[r]
  <2>1. CASE r = s
    <3>1. /\ lwipLastAck[s] <= lwipSndNxt[s] + n /\ lwipSndNxt[s] + n <= lwipWritten[s]
          /\ lwipSndNxt[s] + n <= lwipWritten[s] + 1 /\ lwipSndNxt[s] + n <= lwipLastAck[s] + Cwnd
      BY <1>0, <1>1, <1>2
    <3>2. tcpLocalSeqNum'[s] = lwipSndNxt'[s] % SeqMod /\ realTxDriverBytes'[s] = lwipSndNxt'[s]
      BY <1>7
    <3> QED
      BY <2>1, <3>1, <3>2, <1>3, <1>7
  <2>2. CASE r # s
    BY <2>2, <1>3, <1>7 DEF TxInv
  <2> QED
    BY <2>1, <2>2
<1> QED
  BY <1>8 DEF TxInv

\* The FIN of lwIP comes after the last mirrored byte.
LEMMA TxFin ==
    ASSUME TypeOK, TxInv, NEW s \in Sess, LwipSendFin(s)
    PROVE  TxInv'
<1>0. /\ lwipLastAck[s] \in Nat /\ lwipSndNxt[s] \in Nat /\ lwipWritten[s] \in Nat
      /\ lwipSndWnd[s] \in Nat /\ lwipSndNxt \in [Sess -> Nat]
  BY DEF TypeOK
<1>1. lwipLastAck[s] <= lwipSndNxt[s] /\ lwipSndNxt[s] <= lwipWritten[s]
  BY DEF TxInv, LwipSendFin
<1>2. PICK n \in Nat : n = LwipMaySend(s)
  BY <1>0, <1>1 DEF LwipMaySend, Lesser, Positive
<1>3. /\ lwipSndNxt' = [lwipSndNxt EXCEPT ![s] = @ + n + 1] /\ lwipSndNxt[s] + n = lwipWritten[s]
      /\ finSent' = finSent \cup {s}
      /\ UNCHANGED <<lwipWritten, lwipLastAck, tcpLocalSeqNum, realTxDriverBytes>>
  BY <1>2 DEF LwipSendFin, FinNow
<1>4. /\ lwipSndNxt'[s] = lwipWritten[s] + 1 /\ s \in finSent'
      /\ \A r \in Sess : r # s => lwipSndNxt'[r] = lwipSndNxt[r] /\ (r \in finSent' <=> r \in finSent)
  BY <1>0, <1>3
<1> QED
  BY <1>0, <1>1, <1>3, <1>4 DEF TxInv

\* The driver takes a retransmission for one: it moves no counter.
LEMMA TxRetransmit ==
    ASSUME TypeOK, TxInv, 2 * Cwnd <= SeqMod, NEW s \in Sess, LwipRetransmit(s)
    PROVE  TxInv'
<1>0. /\ lwipLastAck[s] \in Nat /\ lwipSndNxt[s] \in Nat
      /\ tcpLocalSeqNum \in [Sess -> 0..(SeqMod - 1)] /\ realTxDriverBytes \in [Sess -> Nat]
  BY DEF TypeOK
<1>1. PICK n : sendStackEthFrame(s, lwipLastAck[s], n)
  BY DEF LwipRetransmit
<1>2. lwipLastAck[s] < lwipSndNxt[s] /\ UNCHANGED <<lwipWritten, lwipSndNxt, lwipLastAck, finSent>>
  BY DEF LwipRetransmit
<1>3. CASE s \in finSent
  <2>1. \A r \in Sess : r # s => tcpLocalSeqNum'[r] = tcpLocalSeqNum[r]
                                 /\ realTxDriverBytes'[r] = realTxDriverBytes[r]
    BY <1>0, <1>1 DEF sendStackEthFrame, CountTx
  <2> QED
    BY <1>2, <1>3, <2>1 DEF TxInv
<1>4. CASE s \notin finSent
  <2>1. tcpLocalSeqNum[s] = lwipSndNxt[s] % SeqMod /\ lwipSndNxt[s] <= lwipLastAck[s] + Cwnd
    BY <1>4 DEF TxInv
  <2>2. 2 * (lwipSndNxt[s] - lwipLastAck[s]) <= SeqMod
    BY <2>1, <1>0
  <2>3. TCP_SEQ_LT(lwipLastAck[s] % SeqMod, tcpLocalSeqNum[s])
    BY <2>1, <2>2, <1>0, <1>2, OldIsLess
  <2>4. UNCHANGED <<tcpLocalSeqNum, realTxDriverBytes>>
    BY <1>1, <2>3 DEF sendStackEthFrame
  <2> QED
    BY <1>2, <2>4 DEF TxInv
<1> QED
  BY <1>3, <1>4

\* The handshake starts lwIP and the driver at the same number.
LEMMA TxSyn ==
    ASSUME TypeOK, TxInv, NEW s \in Sess, SendSyn(s) PROVE TxInv'
<1>0. /\ lwipSndNxt \in [Sess -> Nat] /\ lwipWritten \in [Sess -> Nat]
      /\ lwipLastAck \in [Sess -> Nat] /\ realTxDriverBytes \in [Sess -> Nat]
      /\ tcpLocalSeqNum \in [Sess -> 0..(SeqMod - 1)]
  BY DEF TypeOK
<1>1. Base \in Nat /\ Base = Base % SeqMod
  <2>1. Base \in Nat /\ Base \in 0..(SeqMod - 1) /\ SeqMod \in Nat \ {0} /\ 0 \in Int
    BY BaseNat
  <2>2. (SeqMod * 0 + Base) % SeqMod = Base
    BY <2>1, ModUnique
  <2>3. SeqMod * 0 + Base = Base
    BY <2>1
  <2> QED
    BY <2>1, <2>2, <2>3
<1>2. /\ tcpLocalSeqNum' = [tcpLocalSeqNum EXCEPT ![s] = Base]
      /\ realTxDriverBytes' = [realTxDriverBytes EXCEPT ![s] = Base]
      /\ lwipWritten' = [lwipWritten EXCEPT ![s] = Base]
      /\ lwipSndNxt' = [lwipSndNxt EXCEPT ![s] = Base]
      /\ lwipLastAck' = [lwipLastAck EXCEPT ![s] = Base] /\ UNCHANGED finSent
  BY DEF SendSyn
<1>3. /\ tcpLocalSeqNum'[s] = Base /\ realTxDriverBytes'[s] = Base /\ lwipWritten'[s] = Base
      /\ lwipSndNxt'[s] = Base /\ lwipLastAck'[s] = Base
      /\ \A r \in Sess : r # s =>
           /\ tcpLocalSeqNum'[r] = tcpLocalSeqNum[r] /\ realTxDriverBytes'[r] = realTxDriverBytes[r]
           /\ lwipWritten'[r] = lwipWritten[r] /\ lwipSndNxt'[r] = lwipSndNxt[r]
           /\ lwipLastAck'[r] = lwipLastAck[r]
  BY <1>0, <1>2
<1>4. ASSUME NEW r \in Sess
      PROVE  /\ lwipLastAck'[r] <= lwipSndNxt'[r]
             /\ lwipSndNxt'[r] <= lwipWritten'[r] + 1
             /\ r \notin finSent' =>
                  /\ lwipSndNxt'[r] <= lwipWritten'[r]
                  /\ lwipSndNxt'[r] <= lwipLastAck'[r] + Cwnd
                  /\ tcpLocalSeqNum'[r] = lwipSndNxt'[r] % SeqMod
                  /\ realTxDriverBytes'[r] = lwipSndNxt'[r]
  <2>1. CASE r = s
    <3>1. Base <= Base /\ Base <= Base + 1 /\ Base <= Base + Cwnd
      BY <1>1
    <3> QED
      BY <2>1, <3>1, <1>1, <1>3
  <2>2. CASE r # s
    BY <2>2, <1>2, <1>3 DEF TxInv
  <2> QED
    BY <2>1, <2>2
<1> QED
  BY <1>4 DEF TxInv

\* Every step keeps TxInv, one case per action.
LEMMA TxStep ==
    ASSUME 2 * Cwnd <= SeqMod, TypeInv, TypeInv', TxInv, [Next]_vars PROVE TxInv'
<1>0. TypeOK /\ TypeOK' /\ HeadHeld
  BY DEF TypeInv
<1>a. lwipWritten \in [Sess -> Nat]
  BY <1>0 DEF TypeOK
<1>b. \A s \in Sess : lwipWritten[s] <= lwipWritten[s]
  BY <1>a
<1>1. ASSUME ServWrite PROVE TxInv'
  <2>1. serv.s \in Sess /\ serv.left \in Nat
    BY <1>1, <1>0, ServFields DEF ServWrite
  <2>2. PICK k \in Nat : k = LwipTakes(serv.s, serv.left)
    <3>1. lwipWritten[serv.s] \in Nat /\ lwipLastAck[serv.s] \in Nat
      BY <2>1, <1>0 DEF TypeOK
    <3> QED
      BY <2>1, <3>1 DEF LwipTakes, LwipRoom, Lesser, Positive
  <2>3. lwipWritten' = [lwipWritten EXCEPT ![serv.s] = @ + k]
        /\ UNCHANGED <<lwipSndNxt, lwipLastAck, finSent, tcpLocalSeqNum, realTxDriverBytes>>
    BY <1>1, <2>2 DEF ServWrite
  <2>4. \A s \in Sess : lwipWritten[s] <= lwipWritten'[s]
    BY <2>1, <2>3, <1>a
  <2> QED
    BY <2>3, <2>4, <1>0, TxFrame
<1>2. ASSUME ServTake \/ ServWritten \/ ServWriteError \/ ServExit PROVE TxInv'
  BY <1>2, <1>0, <1>b, TxFrame DEF ServTake, ServWritten, ServWriteError, ServExit
<1>3. ASSUME RxStoreWnd \/ RxStoreAck \/ Stop PROVE TxInv'
  BY <1>3, <1>0, <1>b, TxFrame DEF RxStoreWnd, RxStoreAck, Stop
<1>4. ASSUME RxDelay PROVE TxInv'
  <2>1. CASE RxTestAhead \/ RxLoadTx
    BY <2>1, <1>0, <1>b, TxFrame DEF RxTestAhead, RxLoadTx
  <2>2. CASE RxInsertEmptyAck
    <3>1. Head(lwipRx).s \in Sess
      BY <2>2, <1>0, RxHead DEF RxInsertEmptyAck, HeadHeld
    <3>2. lastInsertedEmptyAck[Head(lwipRx).s] \in Nat
      BY <3>1, <1>0 DEF TypeOK
    <3> QED
      BY <2>2, <3>1, <3>2, <1>0, TxInput DEF RxInsertEmptyAck
  <2> QED
    BY <1>4, <2>1, <2>2 DEF RxDelay
<1>5. ASSUME RxForward PROVE TxInv'
  <2>1. Head(lwipRx).s \in Sess /\ Head(lwipRx).ack \in Nat
    BY <1>5, <1>0, RxHead DEF RxForward, HeadHeld
  <2> QED
    BY <1>5, <2>1, <1>0, TxInput DEF RxForward, RxForwardPkt
<1>6. ASSUME NEW s \in Sess, ConnectReturn(s) \/ \E w \in PeerWnds : PeerSynAck(s, w) PROVE TxInv'
  BY <1>6, <1>0, <1>b, TxFrame DEF ConnectReturn, PeerSynAck
<1>7. ASSUME NEW s \in Sess, PeerNext(s) \/ Shutdown(s) PROVE TxInv'
  BY <1>7, <1>0, <1>b, TxFrame DEF PeerNext, PeerAckAny, PeerSendAck, Lose, StaleAck,
     PeerReset, Shutdown
<1>8. ASSUME NEW s \in Sess, NEW n \in 1..MAX_PAYLOAD_SIZE, HwFire(s, n) PROVE TxInv'
  BY <1>8, <1>0, <1>b, TxFrame DEF HwFire
<1>9. ASSUME NEW t \in Thread, AppStep(t) PROVE TxInv'
  BY <1>9, <1>0, <1>b, TxFrame DEF AppStep, PreSendLoadAck, PreSendCheck, PreSendLimit, PreSendCount, FastSend
<1>10. ASSUME NEW t \in Thread, NEW s \in Sess, NEW n \in 1..MAX_PAYLOAD_SIZE,
              PreSendLoadFastPath(t, s, n)
       PROVE  TxInv'
  BY <1>10, <1>0, <1>b, TxFrame DEF PreSendLoadFastPath
<1>11. ASSUME UNCHANGED vars PROVE TxInv'
  BY <1>11, <1>0, <1>b, TxFrame
<1>12. ASSUME NEW s \in Sess, SendSyn(s) \/ LwipNext(s) PROVE TxInv'
  BY <1>12, <1>0, TxSyn, TxOutput, TxFin, TxRetransmit DEF LwipNext
<1> QED
  BY <1>1, <1>2, <1>3, <1>4, <1>5, <1>6, <1>7, <1>8, <1>9, <1>10, <1>11, <1>12
     DEF Next, ServNext, RxNext, ConnectStep

\* sendStackEthFrame() and lwipDummyWrite(): as long as lwIP's congestion window is at
\* most half the sequence space, so that TCP_SEQ_LT tells every retransmission from a
\* new dummy, lwIP's copy of a session never runs ahead of the wire, lwIP transmits only
\* what was written to it, and the driver's count of what lwIP transmitted is lwIP's own
\* until the FIN; with losses, resets, stale ACKs and the stop of the device.
THEOREM TcpMirrorBehindWire == 2 * Cwnd <= SeqMod => (Spec => []MirrorBehindWire)
<1> SUFFICES ASSUME 2 * Cwnd <= SeqMod PROVE Spec => []MirrorBehindWire
  OBVIOUS
<1>1. Init => TypeInv /\ MirrorInv /\ TxInv
  BY TypeInit, MirrorInit, TxInit
<1>2. TypeInv /\ MirrorInv /\ TxInv /\ [Next]_vars => TypeInv' /\ MirrorInv' /\ TxInv'
  BY TypeStep, MirrorStep, TxStep
<1>3. MirrorInv /\ TxInv => MirrorBehindWire
  BY DEF MirrorInv, Ordered, TxInv, MirrorBehindWire
<1> QED
  BY <1>1, <1>2, <1>3, PTL DEF Spec

----------------------------------------------------------------------------
(* Sums without recursion: "the numbers add up to x" is the existence of    *)
(* the partial sums, which a step extends, shifts or cuts.                  *)

\* The numbers w[1], ..., w[L] add up to x.
Total(w, L, x) ==
    \E g \in [0..L -> Nat] :
      /\ g[0] = 0 /\ g[L] = x
      /\ \A i, j \in 0..L : i <= j => g[i] <= g[j]
      /\ \A i \in 1..L : g[i] = g[i - 1] + w[i]

\* The numbers v[t] of the members of Q add up to y.
SetTotal(Q, v, y) ==
    \E g \in [SUBSET Q -> Nat] :
      /\ g[{}] = 0 /\ g[Q] = y
      /\ \A A \in SUBSET Q : \A t \in Q \ A : g[A \cup {t}] = g[A] + v[t]

\* The weights of an empty queue add up to 0.
LEMMA TotalEmpty ==
    ASSUME NEW w PROVE Total(w, 0, 0) /\ \A x : Total(w, 0, x) => x = 0
<1>1. Total(w, 0, 0)
  <2> DEFINE g == [i \in 0..0 |-> 0]
  <2>1. g \in [0..0 -> Nat] /\ g[0] = 0
    OBVIOUS
  <2>2. \A i, j \in 0..0 : g[i] <= g[j]
    OBVIOUS
  <2>3. \A i \in 1..0 : FALSE
    OBVIOUS
  <2> HIDE DEF g
  <2> QED
    BY <2>1, <2>2, <2>3 DEF Total
<1> QED
  BY <1>1 DEF Total

\* Weights of a queue add up to a natural number.
LEMMA TotalNat ==
    ASSUME NEW L \in Nat, NEW w, NEW x, Total(w, L, x) PROVE x \in Nat
BY DEF Total

\* A queue with the same length and weights has the same total.
LEMMA TotalSame ==
    ASSUME NEW L \in Nat, NEW w, NEW u, NEW x, Total(w, L, x), \A i \in 1..L : u[i] = w[i]
    PROVE  Total(u, L, x)
BY DEF Total

\* An entry at the end adds its weight.
LEMMA TotalAppend ==
    ASSUME NEW L \in Nat, NEW w, NEW u, NEW x, Total(w, L, x),
           \A i \in 1..L : u[i] = w[i], u[L + 1] \in Nat
    PROVE  Total(u, L + 1, x + u[L + 1])
<1>1. PICK g \in [0..L -> Nat] :
        /\ g[0] = 0 /\ g[L] = x
        /\ \A i, j \in 0..L : i <= j => g[i] <= g[j]
        /\ \A i \in 1..L : g[i] = g[i - 1] + w[i]
  BY DEF Total
<1> DEFINE h == [i \in 0..(L + 1) |-> IF i = L + 1 THEN x + u[L + 1] ELSE g[i]]
<1>2. \A i \in 0..(L + 1) : i \in 0..L \/ i = L + 1
  OBVIOUS
<1>3. x \in Nat /\ x + u[L + 1] \in Nat
  BY <1>1
<1>4. /\ h \in [0..(L + 1) -> Nat]
      /\ h[L + 1] = x + u[L + 1] /\ \A i \in 0..L : h[i] = g[i]
  BY <1>1, <1>2, <1>3
<1> HIDE DEF h
<1>5. h[0] = 0
  BY <1>1, <1>4
<1>6. ASSUME NEW i \in 0..(L + 1), NEW j \in 0..(L + 1), i <= j PROVE h[i] <= h[j]
  <2>1. CASE j \in 0..L
    <3>1. i \in 0..L
      BY <1>6, <2>1
    <3> QED
      BY <3>1, <2>1, <1>6, <1>1, <1>4
  <2>2. CASE j = L + 1 /\ i \in 0..L
    <3>1. g[i] <= g[L] /\ g[i] \in Nat
      BY <2>2, <1>1
    <3>2. h[i] = g[i] /\ h[j] = x + u[L + 1] /\ g[L] = x
      BY <2>2, <1>1, <1>4
    <3> QED
      BY <3>1, <3>2, <1>3
  <2>3. CASE j = L + 1 /\ i = L + 1
    BY <2>3, <1>3, <1>4
  <2> QED
    BY <2>1, <2>2, <2>3, <1>2
<1>7. ASSUME NEW i \in 1..(L + 1) PROVE h[i] = h[i - 1] + u[i]
  <2>1. CASE i \in 1..L
    <3>1. i - 1 \in 0..L /\ i \in 0..L
      BY <2>1
    <3>2. h[i] = g[i] /\ h[i - 1] = g[i - 1] /\ g[i] = g[i - 1] + w[i] /\ u[i] = w[i]
      BY <2>1, <3>1, <1>1, <1>4
    <3> QED
      BY <3>2
  <2>2. CASE i = L + 1
    <3>1. i - 1 = L /\ L \in 0..L
      BY <2>2
    <3> QED
      BY <2>2, <3>1, <1>1, <1>4
  <2> QED
    BY <2>1, <2>2
<1> QED
  BY <1>4, <1>5, <1>6, <1>7 DEF Total

\* The total is the weight of the head and the total of the rest.
LEMMA TotalTail ==
    ASSUME NEW L \in Nat, L >= 1, NEW w, NEW u, NEW x, Total(w, L, x), \A i \in 1..L : w[i] \in Nat,
           \A i \in 1..(L - 1) : u[i] = w[i + 1]
    PROVE  x - w[1] \in Nat /\ Total(u, L - 1, x - w[1])
<1>1. PICK g \in [0..L -> Nat] :
        /\ g[0] = 0 /\ g[L] = x
        /\ \A i, j \in 0..L : i <= j => g[i] <= g[j]
        /\ \A i \in 1..L : g[i] = g[i - 1] + w[i]
  BY DEF Total
<1>2. 1 \in 0..L /\ 1 \in 1..L /\ 0 \in 0..L /\ L \in 0..L /\ 1 - 1 = 0 /\ w[1] \in Nat
  OBVIOUS
<1>3. g[1] = w[1]
  <2>1. g[1] = g[0] + w[1]
    BY <1>1, <1>2
  <2> QED
    BY <2>1, <1>1
<1> DEFINE h == [i \in 0..(L - 1) |-> g[i + 1] - w[1]]
<1>4. \A i \in 0..(L - 1) : i + 1 \in 0..L /\ i + 1 \in 1..L /\ 1 <= i + 1
  OBVIOUS
<1>5. \A i \in 0..(L - 1) : g[i + 1] \in Nat /\ g[1] <= g[i + 1]
  BY <1>1, <1>2, <1>4
<1>6. /\ h \in [0..(L - 1) -> Nat] /\ \A i \in 0..(L - 1) : h[i] = g[i + 1] - w[1]
  BY <1>2, <1>3, <1>5
<1> HIDE DEF h
<1>7. h[0] = 0
  <2>1. 0 \in 0..(L - 1) /\ 0 + 1 = 1
    OBVIOUS
  <2> QED
    BY <2>1, <1>3, <1>6
<1>8. h[L - 1] = x - w[1] /\ x - w[1] \in Nat
  <2>1. L - 1 \in 0..(L - 1) /\ (L - 1) + 1 = L
    OBVIOUS
  <2> QED
    BY <2>1, <1>1, <1>6
<1>9. ASSUME NEW i \in 0..(L - 1), NEW j \in 0..(L - 1), i <= j PROVE h[i] <= h[j]
  <2>1. g[i + 1] <= g[j + 1] /\ g[i + 1] \in Nat /\ g[j + 1] \in Nat
    BY <1>9, <1>1, <1>4
  <2>2. h[i] = g[i + 1] - w[1] /\ h[j] = g[j + 1] - w[1]
    BY <1>6
  <2> QED
    BY <2>1, <2>2, <1>2
<1>10. ASSUME NEW i \in 1..(L - 1) PROVE h[i] = h[i - 1] + u[i]
  <2>1. i \in 0..(L - 1) /\ i - 1 \in 0..(L - 1) /\ (i - 1) + 1 = i /\ i + 1 \in 1..L
        /\ (i + 1) - 1 = i /\ i \in 0..L /\ i + 1 \in 0..L
    OBVIOUS
  <2>2. h[i] = g[i + 1] - w[1] /\ h[i - 1] = g[i] - w[1] /\ u[i] = w[i + 1]
    BY <2>1, <1>6
  <2>3. g[i + 1] = g[i] + w[i + 1] /\ g[i] \in Nat /\ w[i + 1] \in Nat
    BY <2>1, <1>1
  <2> QED
    BY <2>2, <2>3, <1>2
<1> QED
  BY <1>6, <1>7, <1>8, <1>9, <1>10 DEF Total

\* The weights of an empty set add up to 0.
LEMMA SetTotalEmpty ==
    ASSUME NEW v PROVE SetTotal({}, v, 0) /\ \A y : SetTotal({}, v, y) => y = 0
<1>1. SetTotal({}, v, 0)
  <2> DEFINE g == [A \in SUBSET {} |-> 0]
  <2>1. g \in [SUBSET {} -> Nat] /\ g[{}] = 0
    OBVIOUS
  <2> HIDE DEF g
  <2> QED
    BY <2>1 DEF SetTotal
<1> QED
  BY <1>1 DEF SetTotal

\* Weights of a set add up to a natural number.
LEMMA SetTotalNat ==
    ASSUME NEW Q, NEW v, NEW y, SetTotal(Q, v, y) PROVE y \in Nat
BY DEF SetTotal

\* Equal weights on a set add up to the same number.
LEMMA SetTotalSame ==
    ASSUME NEW Q, NEW v, NEW u, NEW y, SetTotal(Q, v, y), \A t \in Q : u[t] = v[t]
    PROVE  SetTotal(Q, u, y)
<1>1. PICK g \in [SUBSET Q -> Nat] :
        /\ g[{}] = 0 /\ g[Q] = y
        /\ \A A \in SUBSET Q : \A t \in Q \ A : g[A \cup {t}] = g[A] + v[t]
  BY DEF SetTotal
<1>2. \A A \in SUBSET Q : \A t \in Q \ A : g[A \cup {t}] = g[A] + u[t]
  BY <1>1
<1> QED
  BY <1>1, <1>2 DEF SetTotal

\* One more member.
LEMMA SetTotalAdd ==
    ASSUME NEW Q, NEW v, NEW u, NEW y, SetTotal(Q, v, y), NEW t, t \notin Q,
           \A q \in Q : u[q] = v[q] /\ u[q] \in Nat, u[t] \in Nat
    PROVE  SetTotal(Q \cup {t}, u, y + u[t])
<1>1. PICK g \in [SUBSET Q -> Nat] :
        /\ g[{}] = 0 /\ g[Q] = y
        /\ \A A \in SUBSET Q : \A q \in Q \ A : g[A \cup {q}] = g[A] + v[q]
  BY DEF SetTotal
<1> DEFINE R == Q \cup {t}
           h == [A \in SUBSET R |-> IF t \in A THEN g[A \ {t}] + u[t] ELSE g[A]]
<1>2. \A A \in SUBSET R : A \ {t} \in SUBSET Q /\ (t \notin A => A \in SUBSET Q)
  OBVIOUS
<1>3. \A A \in SUBSET R : /\ t \in A => h[A] = g[A \ {t}] + u[t]
                          /\ t \notin A => h[A] = g[A]
  OBVIOUS
<1>4. \A A \in SUBSET Q : g[A] \in Nat
  BY <1>1
<1>5. h \in [SUBSET R -> Nat]
  BY <1>2, <1>4
<1> HIDE DEF h
<1>6. {} \in SUBSET R /\ R \in SUBSET R /\ R \ {t} = Q /\ t \in R
  OBVIOUS
<1>7. h[{}] = 0 /\ h[R] = y + u[t]
  BY <1>1, <1>3, <1>6
<1>8. ASSUME NEW A \in SUBSET R, NEW q \in R \ A PROVE h[A \cup {q}] = h[A] + u[q]
  <2>0. A \cup {q} \in SUBSET R
    OBVIOUS
  <2>1. CASE q = t
    <3>1. (A \cup {q}) \ {t} = A /\ t \in A \cup {q} /\ t \notin A
      BY <2>1
    <3>2. h[A \cup {q}] = g[A] + u[t] /\ h[A] = g[A]
      BY <2>0, <3>1, <1>3
    <3> QED
      BY <2>1, <3>2
  <2>2. CASE q # t /\ t \in A
    <3>1. /\ (A \cup {q}) \ {t} = (A \ {t}) \cup {q} /\ t \in A \cup {q}
          /\ A \ {t} \in SUBSET Q /\ q \in Q \ (A \ {t})
      BY <2>2
    <3>2. h[A \cup {q}] = g[(A \ {t}) \cup {q}] + u[t] /\ h[A] = g[A \ {t}] + u[t]
      BY <2>0, <2>2, <3>1, <1>3
    <3>3. g[(A \ {t}) \cup {q}] = g[A \ {t}] + v[q]
      BY <3>1, <1>1
    <3>4. u[q] = v[q] /\ u[q] \in Nat /\ g[A \ {t}] \in Nat
      BY <3>1, <1>4
    <3> QED
      BY <3>2, <3>3, <3>4
  <2>3. CASE q # t /\ t \notin A
    <3>1. A \in SUBSET Q /\ q \in Q \ A /\ t \notin A \cup {q}
      BY <2>3
    <3>2. h[A \cup {q}] = g[A \cup {q}] /\ h[A] = g[A]
      BY <2>0, <2>3, <3>1, <1>3
    <3> QED
      BY <3>1, <3>2, <1>1
  <2> QED
    BY <2>1, <2>2, <2>3
<1> QED
  BY <1>5, <1>7, <1>8 DEF SetTotal

\* One member less.
LEMMA SetTotalRemove ==
    ASSUME NEW Q, NEW v, NEW u, NEW y, SetTotal(Q, v, y), NEW t \in Q,
           \A q \in Q : q # t => u[q] = v[q], v[t] \in Nat
    PROVE  y - v[t] \in Nat /\ SetTotal(Q \ {t}, u, y - v[t])
<1>1. PICK g \in [SUBSET Q -> Nat] :
        /\ g[{}] = 0 /\ g[Q] = y
        /\ \A A \in SUBSET Q : \A q \in Q \ A : g[A \cup {q}] = g[A] + v[q]
  BY DEF SetTotal
<1> DEFINE R == Q \ {t}
           h == [A \in SUBSET R |-> g[A]]
<1>2. \A A \in SUBSET R : A \in SUBSET Q /\ h[A] = g[A]
  OBVIOUS
<1>3. h \in [SUBSET R -> Nat]
  BY <1>1
<1>4. R \in SUBSET Q /\ t \in Q \ R /\ R \cup {t} = Q /\ R \in SUBSET R /\ {} \in SUBSET R
  OBVIOUS
<1> HIDE DEF h
<1>5. y = g[R] + v[t] /\ g[R] \in Nat
  BY <1>1, <1>4
<1>6. h[{}] = 0 /\ h[R] = y - v[t]
  BY <1>1, <1>2, <1>4, <1>5
<1>7. ASSUME NEW A \in SUBSET R, NEW q \in R \ A PROVE h[A \cup {q}] = h[A] + u[q]
  <2>1. A \cup {q} \in SUBSET R /\ A \in SUBSET Q /\ q \in Q \ A /\ q # t
    OBVIOUS
  <2> QED
    BY <2>1, <1>1, <1>2
<1>8. SetTotal(R, u, y - v[t])
  <2> HIDE DEF R
  <2> QED
    BY <1>3, <1>6, <1>7 DEF SetTotal
<1>9. y - v[t] \in Nat
  BY <1>5
<1> QED
  BY <1>8, <1>9

----------------------------------------------------------------------------
(* The byte counters.                                                       *)

\* Bytes of the packets in epmFeedback that preSendCheck() has counted, and of those
\* that lwipDummyWrite() is to count for session s.
SwBytes == [i \in 1..Len(epmFeedback) |-> IF epmFeedback[i].hw THEN 0 ELSE epmFeedback[i].n]
HwOwed(s) ==
    [i \in 1..Len(epmFeedback) |->
       IF epmFeedback[i].hw /\ ~ReportOnly /\ epmFeedback[i].s = s THEN epmFeedback[i].n ELSE 0]

\* Bytes of the HW fire that ServThread has counted and not yet consumed.
Taken == IF Busy THEN HwBytes(epmFeedback[1]) ELSE 0
TakenOf(s) == IF Busy /\ epmFeedback[1].s = s THEN HwBytes(epmFeedback[1]) ELSE 0

\* Threads between the count of preSendCheck() and fastSend().
Sending(s) == {t \in Thread : app[t].pc = "send" /\ app[t].s = s}
Sizes == [t \in Thread |-> app[t].n]

CountedAll ==
    \E x \in Nat : Total(SwBytes, Len(epmFeedback), x)
                   /\ globalFastPathBytes = globalDummyBytes + x + Taken
Counted(s) ==
    \E x, y \in Nat :
      /\ Total(HwOwed(s), Len(epmFeedback), x) /\ SetTotal(Sending(s), Sizes, y)
      /\ realFastPathBytes[s] + x = wire[s] + y + TakenOf(s)

CountInv ==
    /\ globalDummyBytes <= globalFastPathBytes
    /\ serv.pc # "terminated" => CountedAll /\ \A s \in Sess : Counted(s)
    /\ \A s \in Sess : conn[s] = "closed" => realFastPathBytes[s] = wire[s]

\* Nothing was sent, nothing is owed.
LEMMA CountInit == Init => CountInv
<1> SUFFICES ASSUME Init PROVE CountInv
  OBVIOUS
<1>1. Len(epmFeedback) = 0 /\ serv.pc = "idle" /\ \A t \in Thread : app[t].pc = "idle"
  BY DEF Init, Idle
<1>2. Taken = 0 /\ \A s : TakenOf(s) = 0 /\ Sending(s) = {}
  BY <1>1 DEF Taken, TakenOf, Sending, Busy
<1>3. CountedAll
  <2>1. Total(SwBytes, 0, 0)
    BY TotalEmpty
  <2>2. globalFastPathBytes = globalDummyBytes + 0 + Taken
    BY <1>2 DEF Init
  <2> QED
    BY <1>1, <2>1, <2>2 DEF CountedAll
<1>4. ASSUME NEW s \in Sess PROVE Counted(s)
  <2>1. Total(HwOwed(s), 0, 0) /\ SetTotal(Sending(s), Sizes, 0)
    BY <1>2, TotalEmpty, SetTotalEmpty
  <2>2. realFastPathBytes[s] + 0 = wire[s] + 0 + TakenOf(s)
    BY <1>2 DEF Init
  <2> QED
    BY <1>1, <2>1, <2>2 DEF Counted
<1> QED
  BY <1>3, <1>4 DEF CountInv, Init

\* A step between the sends.
LEMMA CountFrame ==
    ASSUME CountInv, UNCHANGED <<epmFeedback, globalFastPathBytes, globalDummyBytes,
                                 realFastPathBytes, wire>>,
           Busy' <=> Busy, serv'.pc # "terminated" => serv.pc # "terminated",
           \A t \in Thread : app'[t] = app[t] \/ (app'[t].pc # "send" /\ app[t].pc # "send"),
           \A s \in Sess : conn'[s] = "closed" => conn[s] = "closed"
    PROVE  CountInv'
<1>1. Taken' = Taken /\ \A s : TakenOf(s)' = TakenOf(s)
  BY DEF Taken, TakenOf, HwBytes
<1>2. \A s : Sending(s)' = Sending(s)
  BY DEF Sending
<1>3. \A s : \A t \in Sending(s) : Sizes'[t] = Sizes[t]
  BY DEF Sending, Sizes
<1>4. SwBytes' = SwBytes /\ \A s : HwOwed(s)' = HwOwed(s)
  BY DEF SwBytes, HwOwed
<1>5. CountedAll => CountedAll'
  BY <1>1, <1>4 DEF CountedAll
<1>6. ASSUME NEW s \in Sess, Counted(s) PROVE Counted(s)'
  <2>1. PICK x \in Nat, y \in Nat :
          /\ Total(HwOwed(s), Len(epmFeedback), x) /\ SetTotal(Sending(s), Sizes, y)
          /\ realFastPathBytes[s] + x = wire[s] + y + TakenOf(s)
    BY <1>6 DEF Counted
  <2>2. SetTotal(Sending(s), Sizes', y)
    BY <2>1, <1>3, SetTotalSame
  <2> QED
    BY <2>1, <2>2, <1>1, <1>2, <1>4 DEF Counted
<1> QED
  BY <1>5, <1>6 DEF CountInv

\* The bytes of an entry.
LEMMA Weights ==
    ASSUME TypeOK, NEW i \in 1..Len(epmFeedback)
    PROVE  /\ SwBytes[i] \in Nat /\ SwBytes[i] = epmFeedback[i].n - HwBytes(epmFeedback[i])
           /\ HwBytes(epmFeedback[i]) \in Nat /\ HwBytes(epmFeedback[i]) <= MAX_PAYLOAD_SIZE
           /\ epmFeedback[i].hw \in BOOLEAN
           /\ \A s : /\ HwOwed(s)[i] \in Nat
                     /\ Mirrored(i) /\ epmFeedback[i].s = s => HwOwed(s)[i] = HwBytes(epmFeedback[i])
                     /\ ~(Mirrored(i) /\ epmFeedback[i].s = s) => HwOwed(s)[i] = 0
<1>1. epmFeedback[i].n \in Nat /\ epmFeedback[i].n <= MAX_PAYLOAD_SIZE
  BY FeedbackEntry
<1>2. epmFeedback[i].hw \in BOOLEAN
  <2>1. epmFeedback[i] \in Feedback
    BY DEF TypeOK
  <2> QED
    BY <2>1 DEF Feedback
<1> QED
  BY <1>1, <1>2 DEF SwBytes, HwOwed, HwBytes, Mirrored, SKIP_LWIP_DUMMY

\* The weights of a queue with one more entry.
LEMMA WeightsAppend ==
    ASSUME TypeOK, NEW f \in Feedback, epmFeedback' = Append(epmFeedback, f),
           NEW L, L = Len(epmFeedback)
    PROVE  /\ L \in Nat /\ Len(epmFeedback') = L + 1
           /\ \A i \in 1..L : SwBytes'[i] = SwBytes[i] /\ \A s : HwOwed(s)'[i] = HwOwed(s)[i]
           /\ SwBytes'[L + 1] = IF f.hw THEN 0 ELSE f.n
           /\ \A s : HwOwed(s)'[L + 1] = IF f.hw /\ ~ReportOnly /\ f.s = s THEN f.n ELSE 0
           /\ L >= 1 => epmFeedback'[1] = epmFeedback[1]
<1>1. epmFeedback \in Seq(Feedback) /\ L \in Nat
  BY DEF TypeOK
<1>2. /\ Len(epmFeedback') = L + 1 /\ epmFeedback'[L + 1] = f
      /\ \A i \in 1..L : epmFeedback'[i] = epmFeedback[i]
  BY <1>1
<1>3. \A i \in 1..L : i \in 1..(L + 1)
  BY <1>1
<1>4. L + 1 \in 1..(L + 1) /\ (L >= 1 => 1 \in 1..L)
  BY <1>1
<1> QED
  BY <1>1, <1>2, <1>3, <1>4 DEF SwBytes, HwOwed

\* The weights of a queue without its head.
LEMMA WeightsTail ==
    ASSUME TypeOK, epmFeedback # <<>>, epmFeedback' = Tail(epmFeedback),
           NEW L, L = Len(epmFeedback)
    PROVE  /\ L \in Nat /\ L >= 1 /\ 1 \in 1..L /\ Len(epmFeedback') = L - 1
           /\ \A i \in 1..(L - 1) : SwBytes'[i] = SwBytes[i + 1]
                                    /\ \A s : HwOwed(s)'[i] = HwOwed(s)[i + 1]
           /\ \A i \in 1..L : SwBytes[i] \in Nat /\ \A s : HwOwed(s)[i] \in Nat
<1>1. epmFeedback \in Seq(Feedback) /\ L \in Nat /\ L >= 1 /\ 1 \in 1..L
  BY DEF TypeOK
<1>2. /\ Len(epmFeedback') = L - 1
      /\ \A i \in 1..(L - 1) : i + 1 \in 1..L /\ epmFeedback'[i] = epmFeedback[i + 1]
  BY <1>1
<1>3. \A i \in 1..L : SwBytes[i] \in Nat /\ \A s : HwOwed(s)[i] \in Nat
  BY Weights
<1> QED
  BY <1>1, <1>2, <1>3 DEF SwBytes, HwOwed

\* preSendCheck() counts the bytes that the thread is about to send.
LEMMA CountCount ==
    ASSUME TypeOK, MirrorInv, CountInv, NEW t \in Thread, PreSendCount(t) PROVE CountInv'
<1> DEFINE s == app[t].s
           n == app[t].n
<1>1. app[t].pc = "count" /\ s \in Sess /\ n \in Nat
  BY AppFields DEF PreSendCount
<1>2. /\ realFastPathBytes' = [realFastPathBytes EXCEPT ![s] = @ + n]
      /\ app' = [app EXCEPT ![t].pc = "send"]
      /\ UNCHANGED <<epmFeedback, globalFastPathBytes, globalDummyBytes, wire, conn, serv>>
  BY DEF PreSendCount
<1>3. app[t] \in AppState /\ app \in [Thread -> AppState] /\ realFastPathBytes \in [Sess -> Nat]
      /\ wire \in [Sess -> Nat]
  BY DEF TypeOK
<1>4. app'[t].pc = "send" /\ app'[t].s = s /\ app'[t].n = n
      /\ \A u \in Thread : u # t => app'[u] = app[u]
  <2>1. app'[t] = [app[t] EXCEPT !.pc = "send"]
    BY <1>2, <1>3
  <2>2. app'[t].pc = "send" /\ app'[t].s = s /\ app'[t].n = n
    BY <1>1, <1>3, <2>1 DEF AppState, Idle
  <2> QED
    BY <1>2, <1>3, <2>2
<1>5. Taken' = Taken /\ \A r : TakenOf(r)' = TakenOf(r) /\ HwOwed(r)' = HwOwed(r)
  BY <1>2 DEF Taken, TakenOf, HwBytes, Busy, HwOwed
<1>6. SwBytes' = SwBytes
  BY <1>2 DEF SwBytes
<1>7. CountedAll => CountedAll'
  BY <1>2, <1>5, <1>6 DEF CountedAll
<1>8. ASSUME NEW r \in Sess, Counted(r) PROVE Counted(r)'
  <2>1. PICK x \in Nat, y \in Nat :
          /\ Total(HwOwed(r), Len(epmFeedback), x) /\ SetTotal(Sending(r), Sizes, y)
          /\ realFastPathBytes[r] + x = wire[r] + y + TakenOf(r)
    BY <1>8 DEF Counted
  <2>0. Total(HwOwed(r)', Len(epmFeedback'), x)
    BY <2>1, <1>2, <1>5
  <2>2. CASE r # s
    <3>1. Sending(r)' = Sending(r) /\ \A u \in Sending(r) : Sizes'[u] = Sizes[u]
      BY <2>2, <1>1, <1>4 DEF Sending, Sizes
    <3>2. SetTotal(Sending(r), Sizes', y)
      BY <2>1, <3>1, SetTotalSame
    <3>3. realFastPathBytes'[r] = realFastPathBytes[r]
      BY <2>2, <1>2, <1>3
    <3> QED
      BY <2>0, <2>1, <3>1, <3>2, <3>3, <1>2, <1>5 DEF Counted
  <2>3. CASE r = s
    <3>1. Sending(r)' = Sending(r) \cup {t} /\ t \notin Sending(r)
      BY <2>3, <1>1, <1>4 DEF Sending
    <3>2. \A u \in Sending(r) : Sizes'[u] = Sizes[u] /\ Sizes'[u] \in Nat
      <4>1. ASSUME NEW u \in Sending(r) PROVE Sizes'[u] = Sizes[u] /\ Sizes'[u] \in Nat
        <5>1. u \in Thread /\ app[u].pc # "idle" /\ u # t
          BY <1>1 DEF Sending
        <5> QED
          BY <5>1, <1>4, AppFields DEF Sizes
      <4> QED
        BY <4>1
    <3>3. Sizes'[t] = n /\ Sizes'[t] \in Nat
      BY <1>1, <1>4 DEF Sizes
    <3>4. SetTotal(Sending(r) \cup {t}, Sizes', y + Sizes'[t])
      BY <2>1, <3>1, <3>2, <3>3, SetTotalAdd
    <3>5. realFastPathBytes'[r] + x = wire[r] + (y + n) + TakenOf(r)
      <4>1. realFastPathBytes'[r] = realFastPathBytes[r] + n
        BY <2>3, <1>1, <1>2, <1>3
      <4>2. TakenOf(r) \in Int
        <5>1. CASE Busy
          <6>1. 1 \in 1..Len(epmFeedback)
            BY <5>1 DEF MirrorInv, ServHead, TypeOK
          <6> QED
            BY <6>1, Weights DEF TakenOf
        <5>2. CASE ~Busy
          BY <5>2 DEF TakenOf
        <5> QED
          BY <5>1, <5>2
      <4>3. wire[r] \in Nat /\ realFastPathBytes[r] \in Nat
        BY <1>3
      <4>4. realFastPathBytes[r] + x = wire[r] + y + TakenOf(r) /\ n \in Nat
        BY <2>1, <1>1
      <4> HIDE DEF n
      <4> QED
        BY <4>1, <4>2, <4>3, <4>4
    <3>6. y + n \in Nat
      BY <1>1
    <3> QED
      BY <2>0, <3>1, <3>3, <3>4, <3>5, <3>6, <1>2, <1>5 DEF Counted
  <2> QED
    BY <2>2, <2>3
<1>9. \A r \in Sess : conn'[r] = "closed" => realFastPathBytes'[r] = wire'[r]
  <2>1. conn[s] # "closed"
    BY <1>1 DEF MirrorInv, Opened
  <2> QED
    BY <2>1, <1>1, <1>2, <1>3 DEF CountInv
<1> QED
  BY <1>2, <1>7, <1>8, <1>9 DEF CountInv

\* fastSend(): the thread leaves, the packet joins the queue.
LEMMA CountFastSend ==
    ASSUME TypeOK, MirrorInv, CountInv, NEW t \in Thread, FastSend(t) PROVE CountInv'
<1>a. PICK s \in Sess, n \in 1..MAX_PAYLOAD_SIZE : s = app[t].s /\ n = app[t].n
  BY AppFields DEF FastSend
<1>b. PICK L : L = Len(epmFeedback)
  OBVIOUS
<1>c. PICK f : f = [s |-> s, seq |-> wire[s], n |-> n, hw |-> FALSE]
  OBVIOUS
<1>1. n \in Nat /\ app[t].pc = "send" /\ conn[s] # "closed"
  BY <1>a DEF FastSend, MirrorInv, Opened
<1>2. /\ globalFastPathBytes' = globalFastPathBytes + n
      /\ wire' = [wire EXCEPT ![s] = @ + n]
      /\ epmFeedback' = Append(epmFeedback, f)
      /\ app' = [app EXCEPT ![t] = Idle]
      /\ UNCHANGED <<globalDummyBytes, realFastPathBytes, conn, serv>>
  BY <1>a, <1>c DEF FastSend, FpgaSend
<1>3. /\ app \in [Thread -> AppState] /\ realFastPathBytes \in [Sess -> Nat]
      /\ wire \in [Sess -> Nat] /\ globalFastPathBytes \in Nat /\ globalDummyBytes \in Nat
  BY DEF TypeOK
<1>4. f \in Feedback /\ f.hw = FALSE /\ f.n = n /\ f.s = s
  BY <1>3, <1>c DEF Feedback
<1>5. /\ L \in Nat /\ Len(epmFeedback') = L + 1
      /\ \A i \in 1..L : SwBytes'[i] = SwBytes[i] /\ \A r : HwOwed(r)'[i] = HwOwed(r)[i]
      /\ SwBytes'[L + 1] = n /\ \A r : HwOwed(r)'[L + 1] = 0
      /\ L >= 1 => epmFeedback'[1] = epmFeedback[1]
  BY <1>2, <1>4, <1>b, WeightsAppend
<1>6. (Busy' <=> Busy) /\ (Busy => L >= 1)
  BY <1>2, <1>b DEF Busy, MirrorInv, ServHead, TypeOK
<1>7. Taken' = Taken /\ \A r : TakenOf(r)' = TakenOf(r)
  BY <1>5, <1>6 DEF Taken, TakenOf
<1>8. Taken \in Int /\ \A r : TakenOf(r) \in Int
  <2>1. Busy => 1 \in 1..Len(epmFeedback)
    BY <1>5, <1>6, <1>b
  <2> QED
    BY <2>1, Weights DEF Taken, TakenOf
<1>9. app'[t].pc = "idle" /\ \A u \in Thread : u # t => app'[u] = app[u]
  BY <1>2, <1>3 DEF Idle
<1>10. ASSUME CountedAll PROVE CountedAll'
  <2>1. PICK x \in Nat : Total(SwBytes, L, x)
                         /\ globalFastPathBytes = globalDummyBytes + x + Taken
    BY <1>10, <1>b DEF CountedAll
  <2>2. Total(SwBytes', L + 1, x + n)
    BY <2>1, <1>1, <1>5, TotalAppend
  <2>3. globalFastPathBytes' = globalDummyBytes + (x + n) + Taken /\ x + n \in Nat
    BY <2>1, <1>1, <1>2, <1>3, <1>8
  <2> QED
    BY <2>2, <2>3, <1>2, <1>5, <1>7 DEF CountedAll
<1>11. ASSUME NEW r \in Sess, Counted(r) PROVE Counted(r)'
  <2>1. PICK x \in Nat, y \in Nat :
          /\ Total(HwOwed(r), L, x) /\ SetTotal(Sending(r), Sizes, y)
          /\ realFastPathBytes[r] + x = wire[r] + y + TakenOf(r)
    BY <1>11, <1>b DEF Counted
  <2>2. Total(HwOwed(r)', L + 1, x)
    <3>1. Total(HwOwed(r)', L + 1, x + HwOwed(r)'[L + 1])
      <4>1. HwOwed(r)'[L + 1] \in Nat /\ \A i \in 1..L : HwOwed(r)'[i] = HwOwed(r)[i]
        BY <1>5
      <4> QED
        BY <4>1, <2>1, <1>5, TotalAppend
    <3>2. x + HwOwed(r)'[L + 1] = x
      BY <1>5
    <3> QED
      BY <3>1, <3>2
  <2>3. CASE r # s
    <3>1. Sending(r)' = Sending(r) /\ \A u \in Sending(r) : Sizes'[u] = Sizes[u]
      BY <2>3, <1>a, <1>9 DEF Sending, Sizes
    <3>2. SetTotal(Sending(r), Sizes', y)
      BY <2>1, <3>1, SetTotalSame
    <3>3. wire'[r] = wire[r]
      BY <2>3, <1>2, <1>3
    <3> QED
      BY <2>1, <2>2, <3>1, <3>2, <3>3, <1>2, <1>5, <1>7 DEF Counted
  <2>4. CASE r = s
    <3>1. Sending(r)' = Sending(r) \ {t} /\ t \in Sending(r)
      BY <2>4, <1>a, <1>1, <1>9 DEF Sending
    <3>2. \A u \in Sending(r) : u # t => Sizes'[u] = Sizes[u]
      BY <1>9 DEF Sizes, Sending
    <3>3. Sizes[t] = n
      BY <1>a DEF Sizes
    <3>4. y - n \in Nat /\ SetTotal(Sending(r) \ {t}, Sizes', y - n)
      <4>1. Sizes[t] \in Nat /\ t \in Sending(r)
        BY <3>1, <3>3, <1>1
      <4>2. y - Sizes[t] \in Nat /\ SetTotal(Sending(r) \ {t}, Sizes', y - Sizes[t])
        BY <4>1, <2>1, <3>2, SetTotalRemove
      <4> QED
        BY <4>2, <3>3
    <3>5. realFastPathBytes[r] + x = wire'[r] + (y - n) + TakenOf(r)
      <4>1. wire'[r] = wire[r] + n /\ wire[r] \in Nat
        BY <2>4, <1>2, <1>3
      <4> QED
        BY <4>1, <2>1, <1>1, <1>8
    <3> QED
      BY <2>2, <3>1, <3>4, <3>5, <1>2, <1>5, <1>7 DEF Counted
  <2> QED
    BY <2>3, <2>4
<1>12. \A r \in Sess : conn'[r] = "closed" => realFastPathBytes'[r] = wire'[r]
  BY <1>1, <1>2, <1>3 DEF CountInv
<1>13. globalDummyBytes' <= globalFastPathBytes'
  BY <1>1, <1>2, <1>3 DEF CountInv
<1> QED
  BY <1>2, <1>10, <1>11, <1>12, <1>13 DEF CountInv

\* A HW fire joins the queue; one that report_only keeps off the wire has no bytes.
LEMMA CountHwFire ==
    ASSUME TypeOK, MirrorInv, CountInv, NEW s \in Sess, NEW n \in 1..MAX_PAYLOAD_SIZE, HwFire(s, n)
    PROVE  CountInv'
<1>b. PICK L : L = Len(epmFeedback)
  OBVIOUS
<1>c. PICK f : f = [s |-> s, seq |-> wire[s], n |-> n, hw |-> TRUE]
  OBVIOUS
<1>1. n \in Nat /\ conn[s] = "up"
  BY DEF HwFire
<1>2. /\ wire' = [wire EXCEPT ![s] = IF ReportOnly THEN @ ELSE @ + n]
      /\ epmFeedback' = Append(epmFeedback, f)
      /\ UNCHANGED <<globalDummyBytes, globalFastPathBytes, realFastPathBytes, conn, serv, app>>
  BY <1>c DEF HwFire, FpgaSend
<1>3. /\ realFastPathBytes \in [Sess -> Nat]
      /\ wire \in [Sess -> Nat] /\ globalFastPathBytes \in Nat /\ globalDummyBytes \in Nat
  BY DEF TypeOK
<1>4. f \in Feedback /\ f.hw = TRUE /\ f.n = n /\ f.s = s
  BY <1>3, <1>c DEF Feedback
<1>5. /\ L \in Nat /\ Len(epmFeedback') = L + 1
      /\ \A i \in 1..L : SwBytes'[i] = SwBytes[i] /\ \A r : HwOwed(r)'[i] = HwOwed(r)[i]
      /\ SwBytes'[L + 1] = 0
      /\ \A r : HwOwed(r)'[L + 1] = IF ~ReportOnly /\ s = r THEN n ELSE 0
      /\ L >= 1 => epmFeedback'[1] = epmFeedback[1]
  BY <1>2, <1>4, <1>b, WeightsAppend
<1>6. (Busy' <=> Busy) /\ (Busy => L >= 1)
  BY <1>2, <1>b DEF Busy, MirrorInv, ServHead, TypeOK
<1>7. Taken' = Taken /\ \A r : TakenOf(r)' = TakenOf(r)
  BY <1>5, <1>6 DEF Taken, TakenOf
<1>8. \A r : TakenOf(r) \in Int
  <2>1. Busy => 1 \in 1..Len(epmFeedback)
    BY <1>5, <1>6, <1>b
  <2> QED
    BY <2>1, Weights DEF TakenOf
<1>10. ASSUME CountedAll PROVE CountedAll'
  <2>1. PICK x \in Nat : Total(SwBytes, L, x)
                         /\ globalFastPathBytes = globalDummyBytes + x + Taken
    BY <1>10, <1>b DEF CountedAll
  <2>2. SwBytes'[L + 1] \in Nat /\ x + SwBytes'[L + 1] = x
    BY <1>5
  <2>3. Total(SwBytes', L + 1, x)
    <3>1. L \in Nat /\ Total(SwBytes, L, x) /\ \A i \in 1..L : SwBytes'[i] = SwBytes[i]
      BY <2>1, <1>5
    <3>2. Total(SwBytes', L + 1, x + SwBytes'[L + 1])
      BY <3>1, <2>2, TotalAppend
    <3> QED
      BY <3>2, <2>2
  <2> QED
    BY <2>1, <2>3, <1>2, <1>5, <1>7 DEF CountedAll
<1>11. ASSUME NEW r \in Sess, Counted(r) PROVE Counted(r)'
  <2>1. PICK x \in Nat, y \in Nat :
          /\ Total(HwOwed(r), L, x) /\ SetTotal(Sending(r), Sizes, y)
          /\ realFastPathBytes[r] + x = wire[r] + y + TakenOf(r)
    BY <1>11, <1>b DEF Counted
  <2>2. PICK d \in Nat : d = HwOwed(r)'[L + 1]
    BY <1>1, <1>5
  <2>3. Total(HwOwed(r)', L + 1, x + d)
    <3>1. \A i \in 1..L : HwOwed(r)'[i] = HwOwed(r)[i]
      BY <1>5
    <3>2. Total(HwOwed(r)', L + 1, x + HwOwed(r)'[L + 1])
      BY <3>1, <2>1, <2>2, <1>5, TotalAppend
    <3> QED
      BY <3>2, <2>2
  <2>4. wire'[r] = wire[r] + d
    <3>1. wire'[r] = IF ~ReportOnly /\ s = r THEN wire[r] + n ELSE wire[r]
      BY <1>2, <1>3
    <3>2. wire[r] \in Nat
      BY <1>3
    <3> QED
      BY <3>1, <3>2, <2>2, <1>1, <1>5
  <2>5. realFastPathBytes[r] + (x + d) = wire'[r] + y + TakenOf(r) /\ x + d \in Nat
    <3>1. PICK w \in Nat, v \in Nat, k \in Int : w = wire[r] /\ v = realFastPathBytes[r] /\ k = TakenOf(r)
      BY <1>3, <1>8
    <3>2. v + x = w + y + k
      BY <2>1, <3>1
    <3>3. v + (x + d) = (w + d) + y + k
      BY <3>2
    <3> QED
      BY <3>1, <3>3, <2>4
  <2>6. Sending(r)' = Sending(r) /\ Sizes' = Sizes
    BY <1>2 DEF Sending, Sizes
  <2> QED
    BY <2>1, <2>3, <2>5, <2>6, <1>2, <1>5, <1>7 DEF Counted
<1>12. \A r \in Sess : conn'[r] = "closed" => realFastPathBytes'[r] = wire'[r]
  BY <1>1, <1>2, <1>3 DEF CountInv
<1> QED
  BY <1>2, <1>10, <1>11, <1>12 DEF CountInv

\* ServThread counts a HW fire when it takes it.
LEMMA CountTake ==
    ASSUME TypeOK, MirrorInv, CountInv, ServTake PROVE CountInv'
<1>1. /\ serv.pc = "idle" /\ epmFeedback # <<>> /\ ~Busy
      /\ UNCHANGED <<globalDummyBytes, conn, app, wire>>
  BY DEF ServTake, Busy
<1>b. PICK L : L = Len(epmFeedback)
  OBVIOUS
<1>2. Head(epmFeedback) = epmFeedback[1] /\ 1 \in 1..Len(epmFeedback)
  BY <1>1 DEF TypeOK
<1>3. Taken = 0 /\ \A r : TakenOf(r) = 0
  BY <1>1 DEF Taken, TakenOf
<1>4. /\ realFastPathBytes \in [Sess -> Nat]
      /\ wire \in [Sess -> Nat] /\ globalFastPathBytes \in Nat /\ globalDummyBytes \in Nat
  BY DEF TypeOK
<1>5. Sizes' = Sizes /\ \A r : Sending(r)' = Sending(r)
  BY <1>1 DEF Sizes, Sending
<1>6. CASE SKIP_LWIP_DUMMY(Head(epmFeedback))
  <2>1. epmFeedback' = Tail(epmFeedback) /\ ~Mirrored(1) /\ epmFeedback[1].hw
        /\ UNCHANGED <<serv, realFastPathBytes, globalFastPathBytes>>
    BY <1>2, <1>6 DEF ServTake, Mirrored, SKIP_LWIP_DUMMY
  <2>2. /\ L \in Nat /\ L >= 1 /\ 1 \in 1..L /\ Len(epmFeedback') = L - 1
        /\ \A i \in 1..(L - 1) : SwBytes'[i] = SwBytes[i + 1]
                                 /\ \A s : HwOwed(s)'[i] = HwOwed(s)[i + 1]
        /\ \A i \in 1..L : SwBytes[i] \in Nat /\ \A s : HwOwed(s)[i] \in Nat
    BY <1>1, <2>1, <1>b, WeightsTail
  <2>3. SwBytes[1] = 0 /\ \A r : HwOwed(r)[1] = 0
    <3>1. SwBytes[1] = 0
      BY <1>2, <2>1 DEF SwBytes
    <3> QED
      BY <3>1, <1>2, <2>1, Weights
  <2>4. Taken' = 0 /\ \A r : TakenOf(r)' = 0
    BY <1>1, <2>1 DEF Taken, TakenOf, Busy
  <2>5. CountedAll => CountedAll'
    <3> SUFFICES ASSUME CountedAll PROVE CountedAll'
      OBVIOUS
    <3>1. PICK x \in Nat : Total(SwBytes, L, x)
                           /\ globalFastPathBytes = globalDummyBytes + x + Taken
      BY <1>b DEF CountedAll
    <3>2. Total(SwBytes', L - 1, x - SwBytes[1])
      BY <3>1, <2>2, TotalTail
    <3>3. x - SwBytes[1] = x
      BY <2>3
    <3> QED
      BY <3>1, <3>2, <3>3, <2>1, <2>2, <2>4, <1>1, <1>3 DEF CountedAll
  <2>6. ASSUME NEW r \in Sess, Counted(r) PROVE Counted(r)'
    <3>1. PICK x \in Nat, y \in Nat :
            /\ Total(HwOwed(r), L, x) /\ SetTotal(Sending(r), Sizes, y)
            /\ realFastPathBytes[r] + x = wire[r] + y + TakenOf(r)
      BY <2>6, <1>b DEF Counted
    <3>2. Total(HwOwed(r)', L - 1, x - HwOwed(r)[1])
      <4>1. /\ \A i \in 1..L : HwOwed(r)[i] \in Nat
            /\ \A i \in 1..(L - 1) : HwOwed(r)'[i] = HwOwed(r)[i + 1]
        BY <2>2
      <4> QED
        BY <4>1, <3>1, <2>2, TotalTail
    <3>3. x - HwOwed(r)[1] = x
      BY <2>3
    <3> QED
      BY <3>1, <3>2, <3>3, <2>1, <2>2, <2>4, <1>1, <1>3, <1>5 DEF Counted
  <2> QED
    BY <2>1, <2>5, <2>6, <1>1 DEF CountInv
<1>7. CASE ~SKIP_LWIP_DUMMY(Head(epmFeedback))
  <2>0. PICK d \in Nat : d = HwBytes(epmFeedback[1])
    BY <1>2, Weights
  <2>1. /\ serv'.pc = "write" /\ UNCHANGED epmFeedback
        /\ realFastPathBytes' = [realFastPathBytes EXCEPT ![epmFeedback[1].s] = @ + d]
        /\ globalFastPathBytes' = globalFastPathBytes + d
    BY <2>0, <1>2, <1>7 DEF ServTake
  <2>2. Busy' /\ Taken' = d /\ \A r : TakenOf(r)' = IF epmFeedback[1].s = r THEN d ELSE 0
    BY <2>0, <2>1 DEF Busy, Taken, TakenOf, HwBytes
  <2>3. SwBytes' = SwBytes /\ \A r : HwOwed(r)' = HwOwed(r)
    BY <2>1 DEF SwBytes, HwOwed
  <2>4. ASSUME CountedAll PROVE CountedAll'
    BY <2>4, <2>0, <2>1, <2>2, <2>3, <1>1, <1>3, <1>4 DEF CountedAll
  <2>5. epmFeedback[1].s \in Sess
    BY <1>2, FeedbackEntry
  <2>6. ASSUME NEW r \in Sess, Counted(r) PROVE Counted(r)'
    <3>1. PICK x \in Nat, y \in Nat :
            /\ Total(HwOwed(r), Len(epmFeedback), x) /\ SetTotal(Sending(r), Sizes, y)
            /\ realFastPathBytes[r] + x = wire[r] + y + TakenOf(r)
      BY <2>6 DEF Counted
    <3>2. realFastPathBytes[r] \in Nat /\ wire[r] \in Nat
      BY <1>4
    <3>3. realFastPathBytes'[r] = realFastPathBytes[r] + TakenOf(r)' /\ TakenOf(r)' \in Nat
      <4>1. CASE epmFeedback[1].s = r
        BY <4>1, <2>0, <2>1, <2>2, <1>4
      <4>2. CASE epmFeedback[1].s # r
        BY <4>2, <3>2, <2>1, <2>2, <1>4
      <4> QED
        BY <4>1, <4>2
    <3>4. realFastPathBytes'[r] + x = wire[r] + y + TakenOf(r)'
      BY <3>1, <3>2, <3>3, <1>3
    <3> QED
      BY <3>1, <3>4, <2>1, <2>3, <1>1, <1>5 DEF Counted
  <2>7. \A r \in Sess : conn'[r] = "closed" => realFastPathBytes'[r] = wire'[r]
    <3>1. conn[epmFeedback[1].s] # "closed"
      BY <1>2 DEF MirrorInv, Opened
    <3> QED
      BY <3>1, <2>1, <2>5, <1>1, <1>4 DEF CountInv
  <2>8. globalDummyBytes' <= globalFastPathBytes'
    BY <2>0, <2>1, <1>1, <1>4 DEF CountInv
  <2> QED
    BY <2>1, <2>4, <2>6, <2>7, <2>8, <1>1 DEF CountInv
<1> QED
  BY <1>6, <1>7

\* After the last round the packet is consumed and counted as mirrored.
LEMMA CountWritten ==
    ASSUME TypeOK, MirrorInv, CountInv, ServWritten PROVE CountInv'
<1>1. /\ serv.pc = "written" /\ serv'.pc = "idle" /\ Busy /\ ~Busy'
      /\ globalDummyBytes' = globalDummyBytes + serv.n
      /\ epmFeedback' = Tail(epmFeedback)
      /\ UNCHANGED <<globalFastPathBytes, realFastPathBytes, conn, app, wire>>
  BY DEF ServWritten, Busy, Idle
<1>b. PICK L : L = Len(epmFeedback)
  OBVIOUS
<1>2. epmFeedback # <<>> /\ Mirrored(1) /\ serv.n = epmFeedback[1].n
  BY <1>1 DEF MirrorInv, ServHead
<1>3. /\ L \in Nat /\ L >= 1 /\ 1 \in 1..L /\ Len(epmFeedback') = L - 1
      /\ \A i \in 1..(L - 1) : SwBytes'[i] = SwBytes[i + 1]
                               /\ \A s : HwOwed(s)'[i] = HwOwed(s)[i + 1]
      /\ \A i \in 1..L : SwBytes[i] \in Nat /\ \A s : HwOwed(s)[i] \in Nat
  BY <1>1, <1>2, <1>b, WeightsTail
<1>4. /\ SwBytes[1] = serv.n - Taken /\ Taken \in Nat /\ serv.n \in Nat /\ SwBytes[1] \in Nat
      /\ \A r : HwOwed(r)[1] = TakenOf(r) /\ TakenOf(r) \in Nat
  <2>1. 1 \in 1..Len(epmFeedback)
    BY <1>3, <1>b
  <2>2. Taken = HwBytes(epmFeedback[1])
        /\ \A r : TakenOf(r) = IF epmFeedback[1].s = r THEN HwBytes(epmFeedback[1]) ELSE 0
    BY <1>1 DEF Taken, TakenOf
  <2>3. serv.n \in Nat
    BY <2>1, <1>2, FeedbackEntry
  <2> QED
    BY <2>1, <2>2, <2>3, <1>2, Weights
<1>5. Taken' = 0 /\ \A r : TakenOf(r)' = 0
  BY <1>1 DEF Taken, TakenOf
<1>6. /\ realFastPathBytes \in [Sess -> Nat]
      /\ wire \in [Sess -> Nat] /\ globalFastPathBytes \in Nat /\ globalDummyBytes \in Nat
  BY DEF TypeOK
<1>7. CountedAll' /\ globalDummyBytes' <= globalFastPathBytes'
  <2>1. PICK x \in Nat : Total(SwBytes, L, x)
                         /\ globalFastPathBytes = globalDummyBytes + x + Taken
    BY <1>1, <1>b DEF CountInv, CountedAll
  <2>2. x - SwBytes[1] \in Nat /\ Total(SwBytes', L - 1, x - SwBytes[1])
    BY <2>1, <1>3, TotalTail
  <2>3. globalFastPathBytes' = globalDummyBytes' + (x - SwBytes[1]) + Taken'
        /\ globalDummyBytes' <= globalFastPathBytes'
    <3>1. /\ globalFastPathBytes = globalDummyBytes + x + Taken
          /\ globalFastPathBytes' = globalFastPathBytes
          /\ globalDummyBytes' = globalDummyBytes + serv.n /\ Taken' = 0
          /\ SwBytes[1] = serv.n - Taken /\ x - SwBytes[1] \in Nat
          /\ Taken \in Nat /\ serv.n \in Nat /\ globalDummyBytes \in Nat
          /\ SwBytes[1] \in Nat
      BY <2>1, <2>2, <1>1, <1>4, <1>5, <1>6
    <3> QED
      BY <3>1
  <2> QED
    BY <2>2, <2>3, <1>3 DEF CountedAll
<1>8. ASSUME NEW r \in Sess PROVE Counted(r)'
  <2>1. PICK x \in Nat, y \in Nat :
          /\ Total(HwOwed(r), L, x) /\ SetTotal(Sending(r), Sizes, y)
          /\ realFastPathBytes[r] + x = wire[r] + y + TakenOf(r)
    BY <1>1, <1>b DEF CountInv, Counted
  <2>2. x - HwOwed(r)[1] \in Nat /\ Total(HwOwed(r)', L - 1, x - HwOwed(r)[1])
    <3>1. /\ \A i \in 1..L : HwOwed(r)[i] \in Nat
          /\ \A i \in 1..(L - 1) : HwOwed(r)'[i] = HwOwed(r)[i + 1]
      BY <1>3
    <3> QED
      BY <3>1, <2>1, <1>3, TotalTail
  <2>3. realFastPathBytes[r] + (x - HwOwed(r)[1]) = wire[r] + y + TakenOf(r)'
    <3>1. realFastPathBytes[r] \in Nat /\ wire[r] \in Nat /\ HwOwed(r)[1] = TakenOf(r)
          /\ TakenOf(r) \in Nat /\ TakenOf(r)' = 0
      BY <1>4, <1>5, <1>6
    <3> QED
      BY <3>1, <2>1
  <2>4. Sizes' = Sizes /\ Sending(r)' = Sending(r)
    BY <1>1 DEF Sizes, Sending
  <2> QED
    BY <2>1, <2>2, <2>3, <2>4, <1>1, <1>3 DEF Counted
<1> QED
  BY <1>1, <1>7, <1>8 DEF CountInv

\* A handshake starts the counters of its session together.
LEMMA CountSyn ==
    ASSUME TypeOK, MirrorInv, CountInv, NEW s \in Sess, SendSyn(s) PROVE CountInv'
<1>1. /\ conn[s] = "closed" /\ conn' = [conn EXCEPT ![s] = "synSent"]
      /\ realFastPathBytes' = [realFastPathBytes EXCEPT ![s] = Base]
      /\ wire' = [wire EXCEPT ![s] = Base]
      /\ UNCHANGED <<globalDummyBytes, globalFastPathBytes, epmFeedback, serv, app>>
  BY DEF SendSyn
<1>2. /\ realFastPathBytes \in [Sess -> Nat] /\ wire \in [Sess -> Nat] /\ Base \in Nat
      /\ conn \in [Sess -> {"closed", "synSent", "synAcked", "firstAck", "up"}]
  BY BaseNat DEF TypeOK
<1>3. realFastPathBytes[s] = wire[s]
  BY <1>1 DEF CountInv
<1>4. CountedAll => CountedAll'
  BY <1>1 DEF CountedAll, SwBytes, Taken, Busy, HwBytes
<1>5. ASSUME NEW r \in Sess, Counted(r) PROVE Counted(r)'
  <2>1. PICK x \in Nat, y \in Nat :
          /\ Total(HwOwed(r), Len(epmFeedback), x) /\ SetTotal(Sending(r), Sizes, y)
          /\ realFastPathBytes[r] + x = wire[r] + y + TakenOf(r)
    BY <1>5 DEF Counted
  <2>2. HwOwed(r)' = HwOwed(r) /\ Sending(r)' = Sending(r) /\ Sizes' = Sizes
        /\ TakenOf(r)' = TakenOf(r)
    BY <1>1 DEF HwOwed, Sending, Sizes, TakenOf, Busy, HwBytes
  <2>3. realFastPathBytes'[r] + x = wire'[r] + y + TakenOf(r)'
    <3>1. CASE r = s
      <4>1. realFastPathBytes'[r] = Base /\ wire'[r] = Base
        BY <3>1, <1>1, <1>2
      <4>2. TakenOf(r) \in Int
        <5>1. Busy => 1 \in 1..Len(epmFeedback)
          BY DEF MirrorInv, ServHead, TypeOK
        <5> QED
          BY <5>1, Weights DEF TakenOf
      <4>3. x = y + TakenOf(r)
        <5>1. wire[r] \in Nat /\ realFastPathBytes[r] = wire[r]
          BY <3>1, <1>2, <1>3
        <5> QED
          BY <5>1, <4>2, <2>1
      <4> QED
        BY <4>1, <4>2, <4>3, <2>2, <1>2
    <3>2. CASE r # s
      BY <3>2, <2>1, <2>2, <1>1, <1>2
    <3> QED
      BY <3>1, <3>2
  <2> QED
    BY <2>1, <2>2, <2>3, <1>1 DEF Counted
<1>6. \A r \in Sess : conn'[r] = "closed" => realFastPathBytes'[r] = wire'[r]
  BY <1>1, <1>2 DEF CountInv
<1> QED
  BY <1>1, <1>4, <1>5, <1>6 DEF CountInv

\* Every step keeps CountInv, one case per action.
LEMMA CountStep ==
    ASSUME TypeInv, MirrorInv, CountInv, [Next]_vars PROVE CountInv'
<1>0. TypeOK
  BY DEF TypeInv
<1>a. app \in [Thread -> AppState]
      /\ conn \in [Sess -> {"closed", "synSent", "synAcked", "firstAck", "up"}]
  BY <1>0 DEF TypeOK
<1>b. ASSUME UNCHANGED <<epmFeedback, globalFastPathBytes, globalDummyBytes, realFastPathBytes, wire,
                         serv, app, conn>>
      PROVE  CountInv'
  BY <1>b, CountFrame DEF Busy
<1>1. ASSUME ServWrite PROVE CountInv'
  <2>1. serv.pc = "write" /\ serv'.pc \in {"write", "written"}
        /\ UNCHANGED <<epmFeedback, globalFastPathBytes, globalDummyBytes, realFastPathBytes, wire,
                       app, conn>>
    BY <1>1 DEF ServWrite
  <2> QED
    BY <2>1, CountFrame DEF Busy
<1>2. ASSUME ServExit PROVE CountInv'
  <2>1. ~Busy /\ ~Busy' /\ serv'.pc = "terminated"
        /\ UNCHANGED <<epmFeedback, globalFastPathBytes, globalDummyBytes, realFastPathBytes, wire,
                       app, conn>>
    BY <1>2 DEF ServExit, Busy
  <2> QED
    BY <2>1, CountFrame
<1>3. ASSUME ServWriteError PROVE CountInv'
  BY <1>3 DEF ServWriteError, CountInv
<1>4. ASSUME ServTake \/ ServWritten PROVE CountInv'
  BY <1>4, <1>0, CountTake, CountWritten
<1>5. ASSUME RxStoreWnd \/ RxStoreAck \/ RxDelay \/ Stop PROVE CountInv'
  BY <1>5, <1>b DEF RxStoreWnd, RxStoreAck, RxDelay, RxTestAhead, RxLoadTx, RxInsertEmptyAck, Stop
<1>6. ASSUME NEW s \in Sess, LwipNext(s) \/ PeerNext(s) \/ Shutdown(s) PROVE CountInv'
  BY <1>6, <1>b DEF LwipNext, LwipOutput, LwipSendFin, LwipRetransmit,
     PeerNext, PeerAckAny, PeerSendAck, Lose, StaleAck, PeerReset, Shutdown
<1>7. ASSUME UNCHANGED vars PROVE CountInv'
  BY <1>7, <1>b
<1>8. ASSUME RxForward \/ \E s \in Sess : ConnectReturn(s) \/ \E w \in PeerWnds : PeerSynAck(s, w)
      PROVE  CountInv'
  <2>1. \A r \in Sess : conn'[r] = "closed" => conn[r] = "closed"
    BY <1>8, <1>a DEF RxForward, RxForwardPkt, ConnectReturn, PeerSynAck
  <2>2. UNCHANGED <<epmFeedback, globalFastPathBytes, globalDummyBytes, realFastPathBytes, wire,
                    serv, app>>
    BY <1>8 DEF RxForward, RxForwardPkt, ConnectReturn, PeerSynAck
  <2> QED
    BY <2>1, <2>2, CountFrame DEF Busy
<1>9. ASSUME NEW t \in Thread, PreSendLoadAck(t) \/ PreSendCheck(t) \/ PreSendLimit(t)
      PROVE  CountInv'
  <2>1. \A u \in Thread : u # t => app'[u] = app[u]
    BY <1>9, <1>a DEF PreSendLoadAck, PreSendCheck, PreSendLimit
  <2>2. app[t].pc # "send" /\ app'[t].pc # "send"
    <3>1. ASSUME PreSendLoadAck(t) PROVE app[t].pc # "send" /\ app'[t].pc # "send"
      BY <3>1, <1>a DEF PreSendLoadAck
    <3>2. ASSUME PreSendCheck(t) PROVE app[t].pc # "send" /\ app'[t].pc # "send"
      <4>1. app'[t] = IF Throttled(app[t].s, app[t].n, app[t].unAcked)
                      THEN Idle
                      ELSE [pc |-> "limit", s |-> app[t].s, n |-> app[t].n,
                            fast |-> globalFastPathBytes]
        BY <3>2, <1>a DEF PreSendCheck
      <4> QED
        BY <3>2, <4>1 DEF PreSendCheck, Idle
    <3>3. ASSUME PreSendLimit(t) PROVE app[t].pc # "send" /\ app'[t].pc # "send"
      <4>1. app'[t] = IF FpgaBusy(app[t].fast)
                      THEN Idle ELSE [pc |-> "count", s |-> app[t].s, n |-> app[t].n]
        BY <3>3, <1>a DEF PreSendLimit
      <4> QED
        BY <3>3, <4>1 DEF PreSendLimit, Idle
    <3> QED
      BY <1>9, <3>1, <3>2, <3>3
  <2>3. UNCHANGED <<epmFeedback, globalFastPathBytes, globalDummyBytes, realFastPathBytes, wire,
                    serv, conn>>
    BY <1>9 DEF PreSendLoadAck, PreSendCheck, PreSendLimit
  <2> QED
    BY <2>1, <2>2, <2>3, CountFrame DEF Busy
<1>10. ASSUME NEW t \in Thread, NEW s \in Sess, NEW n \in 1..MAX_PAYLOAD_SIZE,
              PreSendLoadFastPath(t, s, n)
       PROVE  CountInv'
  <2>1. \A u \in Thread : u # t => app'[u] = app[u]
    BY <1>10, <1>a DEF PreSendLoadFastPath
  <2>2. app[t].pc # "send" /\ app'[t].pc # "send"
    BY <1>10, <1>a DEF PreSendLoadFastPath
  <2>3. UNCHANGED <<epmFeedback, globalFastPathBytes, globalDummyBytes, realFastPathBytes, wire,
                    serv, conn>>
    BY <1>10 DEF PreSendLoadFastPath
  <2> QED
    BY <2>1, <2>2, <2>3, CountFrame DEF Busy
<1>11. ASSUME NEW t \in Thread, PreSendCount(t) \/ FastSend(t) PROVE CountInv'
  BY <1>11, <1>0, CountCount, CountFastSend
<1>12. ASSUME NEW s \in Sess, SendSyn(s) PROVE CountInv'
  BY <1>12, <1>0, CountSyn
<1>13. ASSUME NEW s \in Sess, NEW n \in 1..MAX_PAYLOAD_SIZE, HwFire(s, n) PROVE CountInv'
  BY <1>13, <1>0, CountHwFire
<1> QED
  BY <1>1, <1>2, <1>3, <1>4, <1>5, <1>6, <1>7, <1>8, <1>9, <1>10, <1>11, <1>12, <1>13
     DEF Next, ServNext, RxNext, AppStep, ConnectStep

\* preSendCheck(), lwipDummyWrite() and the FPGA: whenever the threads are idle and
\* ServThread has consumed the feedback of an active stack, the byte counters of every
\* session agree with its wire and the counters of the device with each other, after
\* any interleaving of sends and HW fires, counted by two different threads.
THEOREM TcpReconciled == Spec => []Reconciled
<1>1. Init => TypeInv /\ MirrorInv /\ CountInv
  BY TypeInit, MirrorInit, CountInit
<1>2. TypeInv /\ MirrorInv /\ CountInv /\ [Next]_vars => TypeInv' /\ MirrorInv' /\ CountInv'
  BY TypeStep, MirrorStep, CountStep
<1>3. TypeInv /\ MirrorInv /\ CountInv => Reconciled
  <2> SUFFICES ASSUME TypeInv, MirrorInv, CountInv,
                      exc_active, serv.pc = "idle", epmFeedback = <<>>,
                      \A t \in Thread : app[t].pc \in {"idle", "loadAck", "check", "limit"}
               PROVE  /\ globalFastPathBytes = globalDummyBytes
                      /\ \A s \in Sess : /\ realFastPathBytes[s] = wire[s]
                                         /\ realDummyBytes[s] = wire[s]
                                         /\ lwipWritten[s] = wire[s]
    BY DEF Reconciled
  <2>1. Len(epmFeedback) = 0 /\ ~Busy /\ TypeOK
    BY DEF Busy, TypeInv
  <2>2. Taken = 0 /\ \A s : TakenOf(s) = 0 /\ Sending(s) = {}
    BY <2>1 DEF Taken, TakenOf, Sending
  <2>3. globalFastPathBytes = globalDummyBytes
    <3>1. PICK x \in Nat : Total(SwBytes, 0, x) /\ globalFastPathBytes = globalDummyBytes + x + Taken
      BY <2>1 DEF CountInv, CountedAll
    <3>2. x = 0
      BY <3>1, TotalEmpty
    <3>3. globalDummyBytes \in Nat
      BY <2>1 DEF TypeOK
    <3> QED
      BY <3>1, <3>2, <3>3, <2>2
  <2>4. ASSUME NEW s \in Sess PROVE realFastPathBytes[s] = wire[s]
    <3>1. PICK x \in Nat, y \in Nat :
            /\ Total(HwOwed(s), 0, x) /\ SetTotal({}, Sizes, y)
            /\ realFastPathBytes[s] + x = wire[s] + y + TakenOf(s)
      BY <2>1, <2>2 DEF CountInv, Counted
    <3>2. x = 0 /\ y = 0
      BY <3>1, TotalEmpty, SetTotalEmpty
    <3>3. realFastPathBytes[s] \in Nat /\ wire[s] \in Nat
      BY <2>1 DEF TypeOK
    <3> QED
      BY <3>1, <3>2, <3>3, <2>2
  <2>5. ASSUME NEW s \in Sess PROVE realDummyBytes[s] = wire[s] /\ lwipWritten[s] = wire[s]
    <3>1. Follows(s, wire[s], 0) /\ realDummyBytes[s] = Start(s)
      BY <2>1 DEF MirrorInv, Contiguous
    <3>2. wire[s] = Start(s)
      BY <3>1 DEF Follows
    <3>3. Start(s) = lwipWritten[s]
      BY <2>1 DEF Start, TypeOK
    <3> QED
      BY <3>1, <3>2, <3>3
  <2> QED
    BY <2>3, <2>4, <2>5
<1> QED
  BY <1>1, <1>2, <1>3, PTL DEF Spec

----------------------------------------------------------------------------
(* The limit on the bytes in flight.                                        *)

\* What the fire being mirrored adds, or the one a failed write left behind.
Mirroring == IF serv.pc = "terminated" THEN MAX_PAYLOAD_SIZE ELSE Taken

\* Threads that have passed the check of FpgaInFlightLimit, or that are between its two
\* loads and would pass it with m in flight and mirrored.
Waiting(m) == {t \in Thread : \/ app[t].pc \in {"count", "send"}
                              \/ app[t].pc = "limit" /\ app[t].fast <= m}

\* What may still be counted before m is in flight and mirrored.
Slack(m) == m + slip + Mirroring - globalFastPathBytes

\* For the limit as it stands, and for every later one.
LimitInv ==
    \A m \in Nat :
      m >= globalDummyBytes + FpgaInFlightLimit
      => MAX_PAYLOAD_SIZE * Cardinality(Waiting(m))
           <= Slack(m) + MAX_PAYLOAD_SIZE * Cardinality(Thread)

\* A payload more for each of k + 1 than for each of k.
LEMMA MulSucc ==
    ASSUME NEW m \in Nat, NEW k \in Nat
    PROVE  m * k \in Nat /\ m * (k + 1) = m * k + m
OBVIOUS

\* More of them take more payloads.
LEMMA MulMono ==
    ASSUME NEW m \in Nat, NEW k \in Nat, NEW l \in Nat, k <= l
    PROVE  m * k \in Nat /\ m * l \in Nat /\ m * k <= m * l
OBVIOUS

\* The payloads of a set of threads.
LEMMA PayloadsOf ==
    ASSUME IsFiniteSet(Thread), NEW A \in SUBSET Thread, NEW B \in SUBSET Thread, A \subseteq B
    PROVE  /\ MAX_PAYLOAD_SIZE * Cardinality(A) \in Nat /\ MAX_PAYLOAD_SIZE * Cardinality(B) \in Nat
           /\ MAX_PAYLOAD_SIZE * Cardinality(A) <= MAX_PAYLOAD_SIZE * Cardinality(B)
<1>1. IsFiniteSet(B)
  BY FS_Subset
<1>2. Cardinality(A) \in Nat /\ Cardinality(B) \in Nat /\ Cardinality(A) <= Cardinality(B)
  BY <1>1, FS_Subset, FS_CardinalityType
<1> QED
  BY <1>2, MulMono

\* One packet at most is being mirrored.
LEMMA MirroringNat ==
    ASSUME TypeOK, MirrorInv PROVE Taken \in Nat /\ Taken <= MAX_PAYLOAD_SIZE
                                   /\ Mirroring \in Nat /\ Mirroring <= MAX_PAYLOAD_SIZE
<1>1. Busy => 1 \in 1..Len(epmFeedback)
  BY DEF MirrorInv, ServHead, TypeOK
<1> QED
  BY <1>1, Weights DEF Taken, Mirroring

\* Initially nothing is in flight.
LEMMA LimitInit == IsFiniteSet(Thread) /\ Init => LimitInv
<1> SUFFICES ASSUME IsFiniteSet(Thread), Init, NEW m \in Nat
             PROVE  MAX_PAYLOAD_SIZE * Cardinality(Waiting(m))
                      <= Slack(m) + MAX_PAYLOAD_SIZE * Cardinality(Thread)
  BY DEF LimitInv
<1>1. Waiting(m) \in SUBSET Thread /\ Mirroring = 0 /\ globalFastPathBytes = 0 /\ slip = 0
  BY DEF Init, Waiting, Mirroring, Taken, Busy, Idle
<1>2. PICK a \in Nat, b \in Nat : /\ a = MAX_PAYLOAD_SIZE * Cardinality(Waiting(m))
                                  /\ b = MAX_PAYLOAD_SIZE * Cardinality(Thread) /\ a <= b
  BY <1>1, PayloadsOf
<1>3. a <= m + 0 + 0 - 0 + b
  BY <1>2
<1> QED
  BY <1>1, <1>2, <1>3 DEF Slack

\* A step after which no more threads wait, and no less may be counted, than before it for
\* some limit that was in force or to come.
LEMMA LimitFrame ==
    ASSUME IsFiniteSet(Thread), LimitInv, NEW m \in Nat, NEW k \in Nat,
           k >= globalDummyBytes + FpgaInFlightLimit,
           Waiting(m)' \subseteq Waiting(k), Slack(k) \in Int, Slack(m)' \in Int,
           Slack(k) <= Slack(m)'
    PROVE  MAX_PAYLOAD_SIZE * Cardinality(Waiting(m)')
             <= Slack(m)' + MAX_PAYLOAD_SIZE * Cardinality(Thread)
<1>1. Waiting(k) \in SUBSET Thread /\ Waiting(m)' \in SUBSET Thread
  BY DEF Waiting
<1>2. PICK a \in Nat, c \in Nat : /\ a = MAX_PAYLOAD_SIZE * Cardinality(Waiting(m)')
                                  /\ c = MAX_PAYLOAD_SIZE * Cardinality(Waiting(k)) /\ a <= c
  <2> DEFINE A == Waiting(m)'
             B == Waiting(k)
  <2>1. A \in SUBSET Thread /\ B \in SUBSET Thread /\ A \subseteq B
    BY <1>1
  <2> HIDE DEF A, B
  <2>2. /\ MAX_PAYLOAD_SIZE * Cardinality(A) \in Nat /\ MAX_PAYLOAD_SIZE * Cardinality(B) \in Nat
        /\ MAX_PAYLOAD_SIZE * Cardinality(A) <= MAX_PAYLOAD_SIZE * Cardinality(B)
    BY <2>1, PayloadsOf
  <2> QED
    BY <2>2 DEF A, B
<1>3. PICK b \in Nat : b = MAX_PAYLOAD_SIZE * Cardinality(Thread)
  BY PayloadsOf
<1>4. c <= Slack(k) + b
  BY <1>2, <1>3 DEF LimitInv
<1>5. a <= Slack(m)' + b
  BY <1>2, <1>4
<1> QED
  BY <1>2, <1>3, <1>5

\* Where nothing is left to be counted the bound holds for any threads.
LEMMA LimitOpen ==
    ASSUME IsFiniteSet(Thread), NEW m \in Nat, Slack(m)' \in Nat
    PROVE  MAX_PAYLOAD_SIZE * Cardinality(Waiting(m)')
             <= Slack(m)' + MAX_PAYLOAD_SIZE * Cardinality(Thread)
<1> DEFINE A == Waiting(m)'
<1>1. A \in SUBSET Thread
  BY DEF Waiting
<1> HIDE DEF A
<1>2. PICK a \in Nat, b \in Nat : /\ a = MAX_PAYLOAD_SIZE * Cardinality(A)
                                  /\ b = MAX_PAYLOAD_SIZE * Cardinality(Thread) /\ a <= b
  BY <1>1, PayloadsOf
<1>3. a <= Slack(m)' + b
  BY <1>2
<1> QED
  BY <1>2, <1>3 DEF A

\* fastSend(): one thread less that waits, at most a payload more that is counted.
LEMMA LimitFastSend ==
    ASSUME IsFiniteSet(Thread), LimitInv, TypeOK, TypeOK', MirrorInv, NEW t \in Thread, FastSend(t)
    PROVE  LimitInv'
<1>1. /\ app[t].pc = "send" /\ globalFastPathBytes' = globalFastPathBytes + app[t].n
      /\ app' = [app EXCEPT ![t] = Idle] /\ UNCHANGED <<globalDummyBytes, slip, serv>>
      /\ epmFeedback' = Append(epmFeedback, [s |-> app[t].s, seq |-> wire[app[t].s],
                                             n |-> app[t].n, hw |-> FALSE])
  BY DEF FastSend, FpgaSend
<1>2. app \in [Thread -> AppState] /\ epmFeedback \in Seq(Feedback)
  BY DEF TypeOK
<1>3. PICK n \in Nat : n = app[t].n /\ n <= MAX_PAYLOAD_SIZE
  BY <1>1, AppFields
<1>4. Mirroring' = Mirroring
  <2>1. Busy => epmFeedback'[1] = epmFeedback[1]
    BY <1>1, <1>2 DEF MirrorInv, ServHead
  <2> QED
    BY <2>1, <1>1 DEF Mirroring, Taken, Busy, HwBytes
<1>5. PICK f \in Nat, d \in Nat, z \in Nat, y \in Nat :
        f = globalFastPathBytes /\ d = globalDummyBytes /\ z = slip /\ y = Mirroring
  BY MirroringNat DEF TypeOK
<1>6. PICK b \in Nat : b = MAX_PAYLOAD_SIZE * Cardinality(Thread)
  BY PayloadsOf
<1>7. ASSUME NEW m \in Nat, m >= d + FpgaInFlightLimit
      PROVE  MAX_PAYLOAD_SIZE * Cardinality(Waiting(m)') <= Slack(m)' + b
  <2> DEFINE A == Waiting(m)
  <2>1. Waiting(m)' = A \ {t} /\ t \in A /\ A \in SUBSET Thread
    BY <1>1, <1>2 DEF Waiting, Idle
  <2>2. MAX_PAYLOAD_SIZE * Cardinality(A) <= m + z + y - f + b
    BY <1>5, <1>6, <1>7 DEF LimitInv, Slack
  <2>3. Slack(m)' = m + z + y - (f + n)
    BY <1>1, <1>3, <1>4, <1>5 DEF Slack
  <2> HIDE DEF A
  <2>4. PICK c \in Nat : Cardinality(A \ {t}) = c /\ Cardinality(A) = c + 1
    <3>1. IsFiniteSet(A)
      BY <2>1, FS_Subset
    <3>2. IsFiniteSet(A \ {t}) /\ Cardinality(A \ {t}) = Cardinality(A) - 1
      BY <2>1, <3>1, FS_RemoveElement
    <3>3. Cardinality(A \ {t}) \in Nat /\ Cardinality(A) \in Nat
      BY <3>1, <3>2, FS_CardinalityType
    <3> QED
      BY <3>2, <3>3
  <2>5. PICK a \in Nat : a = MAX_PAYLOAD_SIZE * c /\ MAX_PAYLOAD_SIZE * (c + 1) = a + MAX_PAYLOAD_SIZE
    BY MulSucc
  <2>6. a + MAX_PAYLOAD_SIZE <= m + z + y - f + b
    BY <2>2, <2>4, <2>5
  <2>7. a <= m + z + y - (f + n) + b
    BY <2>6, <1>3
  <2> QED
    BY <2>1, <2>3, <2>4, <2>5, <2>7
<1> QED
  BY <1>1, <1>5, <1>6, <1>7 DEF LimitInv

\* The loads of preSendCheck(): with the counters as they are a thread begins to wait only
\* where nothing is left to be counted, and passes only if it waited.
LEMMA LimitCheck ==
    ASSUME IsFiniteSet(Thread), LimitInv, TypeOK, MirrorInv,
           NEW t \in Thread, PreSendCheck(t) \/ PreSendLimit(t)
    PROVE  LimitInv'
<1>1. UNCHANGED <<globalFastPathBytes, globalDummyBytes, slip, serv, epmFeedback>>
  BY DEF PreSendCheck, PreSendLimit
<1>2. app \in [Thread -> AppState]
  BY DEF TypeOK
<1>3. \A u \in Thread : u # t => app'[u] = app[u]
  BY <1>2 DEF PreSendCheck, PreSendLimit
<1>4. Mirroring' = Mirroring
  BY <1>1 DEF Mirroring, Taken, Busy, HwBytes
<1>5. PICK f \in Nat, d \in Nat, z \in Nat, y \in Nat :
        f = globalFastPathBytes /\ d = globalDummyBytes /\ z = slip /\ y = Mirroring
  BY MirroringNat DEF TypeOK
<1>6. SUFFICES ASSUME NEW m \in Nat, m >= d + FpgaInFlightLimit
               PROVE  MAX_PAYLOAD_SIZE * Cardinality(Waiting(m)')
                        <= Slack(m)' + MAX_PAYLOAD_SIZE * Cardinality(Thread)
  BY <1>1, <1>5 DEF LimitInv
<1>7. Slack(m)' = m + z + y - f /\ Slack(m) = m + z + y - f
  BY <1>1, <1>4, <1>5 DEF Slack
<1>8. ASSUME t \in Waiting(m)' => t \in Waiting(m)
      PROVE  Waiting(m)' \subseteq Waiting(m)
  <2>1. \A u \in Thread : u # t => (u \in Waiting(m)' <=> u \in Waiting(m))
    BY <1>3 DEF Waiting
  <2>2. Waiting(m)' \subseteq Thread
    BY DEF Waiting
  <2> QED
    BY <1>8, <2>1, <2>2
<1>9. CASE Waiting(m)' \subseteq Waiting(m)
  BY <1>5, <1>6, <1>7, <1>9, LimitFrame
<1>10. CASE PreSendCheck(t)
  <2>1. app'[t] = IF Throttled(app[t].s, app[t].n, app[t].unAcked)
                  THEN Idle
                  ELSE [pc |-> "limit", s |-> app[t].s, n |-> app[t].n, fast |-> f]
    BY <1>2, <1>5, <1>10 DEF PreSendCheck
  <2>2. CASE f <= m
    <3>1. Slack(m)' \in Nat
      BY <1>7, <2>2
    <3> QED
      BY <3>1, LimitOpen
  <2>3. CASE ~(f <= m)
    <3>1. CASE Throttled(app[t].s, app[t].n, app[t].unAcked)
      <4>1. app'[t].pc = "idle"
        BY <2>1, <3>1 DEF Idle
      <4>2. t \notin Waiting(m)'
        BY <4>1 DEF Waiting
      <4> QED
        BY <4>2, <1>8, <1>9
    <3>2. CASE ~Throttled(app[t].s, app[t].n, app[t].unAcked)
      <4>1. app'[t].pc = "limit" /\ app'[t].fast = f
        BY <2>1, <3>2
      <4>2. t \notin Waiting(m)'
        BY <2>3, <4>1 DEF Waiting
      <4> QED
        BY <4>2, <1>8, <1>9
    <3> QED
      BY <3>1, <3>2
  <2> QED
    BY <2>2, <2>3
<1>11. CASE PreSendLimit(t)
  <2>1. app[t].pc = "limit" /\ app[t].fast \in Nat
    BY <1>11, AppFields DEF PreSendLimit
  <2>2. app'[t] = IF FpgaBusy(app[t].fast)
                  THEN Idle ELSE [pc |-> "count", s |-> app[t].s, n |-> app[t].n]
    BY <1>2, <1>11 DEF PreSendLimit
  <2>3. ~FpgaBusy(app[t].fast) => app[t].fast <= m
    BY <1>5, <1>6, <2>1 DEF FpgaBusy
  <2>4. t \in Waiting(m)' => t \in Waiting(m)
    BY <2>1, <2>2, <2>3 DEF Waiting, Idle
  <2> QED
    BY <2>4, <1>8, <1>9
<1> QED
  BY <1>10, <1>11

\* A fire that raises globalDummyBytes between the two loads of a thread adds to slip;
\* one that does so at another time moves the limit for no thread that waits.
LEMMA LimitWritten ==
    ASSUME IsFiniteSet(Thread), LimitInv, TypeOK, TypeOK', MirrorInv, ServWritten
    PROVE  LimitInv'
<1>1. /\ serv.pc = "written" /\ serv'.pc = "idle"
      /\ globalDummyBytes' = globalDummyBytes + serv.n /\ slip' = Slipped
      /\ UNCHANGED <<globalFastPathBytes, app>>
  BY DEF ServWritten, Idle
<1>2. /\ Busy /\ epmFeedback # <<>> /\ serv.n = epmFeedback[1].n
      /\ 1 \in 1..Len(epmFeedback) /\ Head(epmFeedback) = epmFeedback[1]
  BY <1>1 DEF Busy, MirrorInv, ServHead, TypeOK
<1>3. Mirroring = HwBytes(epmFeedback[1]) /\ Mirroring' = 0
  BY <1>1, <1>2 DEF Mirroring, Taken, Busy
<1>4. PICK n \in Nat, h \in Nat : n = serv.n /\ h = HwBytes(epmFeedback[1]) /\ h <= n
  BY <1>2, FeedbackEntry DEF HwBytes
<1>5. PICK f \in Nat, d \in Nat, z \in Nat, x \in Nat :
        f = globalFastPathBytes /\ d = globalDummyBytes /\ z = slip /\ x = slip'
  BY DEF TypeOK
<1>6. SUFFICES ASSUME NEW m \in Nat, m >= d + n + FpgaInFlightLimit
               PROVE  MAX_PAYLOAD_SIZE * Cardinality(Waiting(m)')
                        <= Slack(m)' + MAX_PAYLOAD_SIZE * Cardinality(Thread)
  BY <1>1, <1>4, <1>5 DEF LimitInv
<1>7. Slack(m)' = m + x - f /\ \A k \in Nat : Slack(k) = k + z + h - f
  <2>1. globalFastPathBytes' = f /\ slip' = x
    BY <1>1, <1>5
  <2>2. m + x + 0 - f = m + x - f
    OBVIOUS
  <2> QED
    BY <2>1, <2>2, <1>3, <1>4, <1>5 DEF Slack
<1>8. \A k : Waiting(k)' = Waiting(k)
  BY <1>1 DEF Waiting
<1>9. x = IF f - (d + n) <= FpgaInFlightLimit THEN 0 ELSE z + (IF BetweenLoads THEN h ELSE 0)
  BY <1>1, <1>2, <1>4, <1>5 DEF Slipped
<1>10. CASE f - (d + n) <= FpgaInFlightLimit
  <2>1. Slack(m)' \in Nat
    BY <1>6, <1>7, <1>10
  <2> QED
    BY <2>1, LimitOpen
<1>11. CASE ~(f - (d + n) <= FpgaInFlightLimit) /\ BetweenLoads
  <2>1. x = z + h
    BY <1>9, <1>11
  <2>2. Slack(m) \in Int /\ Slack(m)' \in Int /\ Slack(m) <= Slack(m)'
    BY <2>1, <1>7
  <2>3. m >= globalDummyBytes + FpgaInFlightLimit
    BY <1>5, <1>6
  <2> QED
    BY <2>2, <2>3, <1>8, LimitFrame
<1>12. CASE ~(f - (d + n) <= FpgaInFlightLimit) /\ ~BetweenLoads
  <2>1. x = z
    BY <1>9, <1>12
  <2>2. PICK k \in Nat : k = m - h /\ k >= d + FpgaInFlightLimit
    BY <1>4, <1>6
  <2>3. Waiting(m)' \subseteq Waiting(k)
    BY <1>8, <1>12 DEF Waiting, BetweenLoads
  <2>4. Slack(k) \in Int /\ Slack(m)' \in Int /\ Slack(k) <= Slack(m)'
    BY <2>1, <2>2, <1>7
  <2> QED
    BY <2>2, <2>3, <2>4, <1>5, LimitFrame
<1> QED
  BY <1>10, <1>11, <1>12

\* Every step keeps LimitInv, one case per action.
LEMMA LimitStep ==
    ASSUME IsFiniteSet(Thread), TypeInv, TypeInv', MirrorInv, MirrorInv', LimitInv, [Next]_vars
    PROVE  LimitInv'
<1>0. TypeOK /\ TypeOK'
  BY DEF TypeInv
<1>a. app \in [Thread -> AppState] /\ epmFeedback \in Seq(Feedback)
  BY <1>0 DEF TypeOK
<1>b. Mirroring \in Nat /\ Mirroring <= MAX_PAYLOAD_SIZE
  BY <1>0, MirroringNat
<1>g. globalFastPathBytes \in Nat /\ globalDummyBytes \in Nat /\ slip \in Nat
  BY <1>0 DEF TypeOK
<1>c. ASSUME NEW h \in Nat, NEW y \in Nat, Mirroring' = y, Mirroring + h <= y,
             globalFastPathBytes' = globalFastPathBytes + h,
             UNCHANGED <<globalDummyBytes, slip>>, \A m \in Nat : Waiting(m)' = Waiting(m)
      PROVE  LimitInv'
  <2>1. ASSUME NEW m \in Nat, m >= globalDummyBytes + FpgaInFlightLimit
        PROVE  MAX_PAYLOAD_SIZE * Cardinality(Waiting(m)')
                 <= Slack(m)' + MAX_PAYLOAD_SIZE * Cardinality(Thread)
    <3>1. PICK f \in Nat, z \in Nat, x \in Nat : f = globalFastPathBytes /\ z = slip /\ x = Mirroring
      BY <1>b, <1>g
    <3>2. Slack(m) = m + z + x - f
      BY <3>1 DEF Slack
    <3>3. Slack(m)' = m + z + y - (f + h)
      BY <3>1, <1>c DEF Slack
    <3>4. Slack(m) \in Int /\ Slack(m)' \in Int /\ Slack(m) <= Slack(m)'
      BY <3>1, <3>2, <3>3, <1>c
    <3> QED
      BY <3>4, <2>1, <1>c, LimitFrame
  <2> QED
    BY <2>1, <1>c DEF LimitInv
<1>d. ASSUME UNCHANGED <<serv, epmFeedback>> PROVE Mirroring' = Mirroring
  BY <1>d DEF Mirroring, Taken, Busy, HwBytes
<1>e. ASSUME UNCHANGED app PROVE \A m \in Nat : Waiting(m)' = Waiting(m)
  BY <1>e DEF Waiting
<1>k. ASSUME UNCHANGED <<globalFastPathBytes, globalDummyBytes, slip>>, Mirroring' = Mirroring,
             \A m \in Nat : Waiting(m)' = Waiting(m)
      PROVE  LimitInv'
  <2>1. globalFastPathBytes' = globalFastPathBytes + 0 /\ Mirroring + 0 <= Mirroring
    BY <1>k, <1>g, <1>b
  <2> QED
    BY <2>1, <1>k, <1>b, <1>c
<1>f. ASSUME UNCHANGED <<globalFastPathBytes, globalDummyBytes, slip, serv, epmFeedback, app>>
      PROVE  LimitInv'
  BY <1>k, <1>d, <1>e, <1>f
<1>1. ASSUME ServWrite PROVE LimitInv'
  <2>1. serv.pc = "write" /\ serv'.pc \in {"write", "written"}
        /\ UNCHANGED <<globalFastPathBytes, globalDummyBytes, slip, epmFeedback, app>>
    BY <1>1 DEF ServWrite
  <2>2. Mirroring' = Mirroring
    BY <2>1 DEF Mirroring, Taken, Busy, HwBytes
  <2> QED
    BY <2>1, <2>2, <1>k, <1>e
<1>2. ASSUME ServExit \/ ServWriteError PROVE LimitInv'
  <2>1. serv'.pc = "terminated" /\ UNCHANGED <<globalFastPathBytes, globalDummyBytes, slip, app>>
    BY <1>2 DEF ServExit, ServWriteError
  <2>2. Mirroring' = MAX_PAYLOAD_SIZE
    BY <2>1 DEF Mirroring
  <2>3. globalFastPathBytes' = globalFastPathBytes + 0 /\ Mirroring + 0 <= MAX_PAYLOAD_SIZE
        /\ MAX_PAYLOAD_SIZE \in Nat
    BY <2>1, <1>g, <1>b
  <2> QED
    BY <2>1, <2>2, <2>3, <1>c, <1>e
<1>3. ASSUME ServTake PROVE LimitInv'
  <2>1. serv.pc = "idle" /\ epmFeedback # <<>> /\ UNCHANGED <<globalDummyBytes, slip, app>>
    BY <1>3 DEF ServTake
  <2>2. Mirroring = 0 /\ Head(epmFeedback) = epmFeedback[1] /\ 1 \in 1..Len(epmFeedback)
    BY <2>1, <1>a DEF Mirroring, Taken, Busy
  <2>3. CASE SKIP_LWIP_DUMMY(Head(epmFeedback))
    <3>1. UNCHANGED <<globalFastPathBytes, serv>>
      BY <1>3, <2>3 DEF ServTake
    <3>2. Mirroring' = 0
      BY <3>1, <2>1 DEF Mirroring, Taken, Busy
    <3> QED
      BY <3>1, <3>2, <2>1, <2>2, <1>k, <1>e
  <2>4. CASE ~SKIP_LWIP_DUMMY(Head(epmFeedback))
    <3>0. PICK h \in Nat : h = HwBytes(epmFeedback[1])
      BY <2>2, <1>0, Weights
    <3>1. /\ serv'.pc = "write" /\ UNCHANGED epmFeedback
          /\ globalFastPathBytes' = globalFastPathBytes + h
      BY <1>3, <2>2, <2>4, <3>0 DEF ServTake
    <3>2. Mirroring' = h /\ Mirroring + h <= h
      BY <2>2, <3>0, <3>1 DEF Mirroring, Taken, Busy, HwBytes
    <3> QED
      BY <3>1, <3>2, <2>1, <1>c, <1>e
  <2> QED
    BY <2>3, <2>4
<1>4. ASSUME ServWritten PROVE LimitInv'
  BY <1>4, <1>0, LimitWritten
<1>5. ASSUME RxNext \/ Stop \/ UNCHANGED vars PROVE LimitInv'
  BY <1>5, <1>f DEF RxNext, RxStoreWnd, RxStoreAck, RxDelay, RxTestAhead, RxLoadTx,
     RxInsertEmptyAck, RxForward, RxForwardPkt, Stop
<1>6. ASSUME NEW s \in Sess, LwipNext(s) \/ PeerNext(s) \/ Shutdown(s) \/ ConnectStep(s) PROVE LimitInv'
  BY <1>6, <1>f DEF LwipNext, LwipOutput, LwipSendFin, LwipRetransmit, ConnectStep, SendSyn,
     PeerSynAck, ConnectReturn,
     PeerNext, PeerAckAny, PeerSendAck, Lose, StaleAck, PeerReset, Shutdown
<1>7. ASSUME NEW s \in Sess, NEW n \in 1..MAX_PAYLOAD_SIZE, HwFire(s, n) PROVE LimitInv'
  <2>1. /\ UNCHANGED <<globalFastPathBytes, globalDummyBytes, slip, serv, app>>
        /\ epmFeedback' = Append(epmFeedback, [s |-> s, seq |-> wire[s], n |-> n, hw |-> TRUE])
    BY <1>7 DEF HwFire, FpgaSend
  <2>2. Busy => epmFeedback'[1] = epmFeedback[1]
    BY <2>1, <1>a DEF MirrorInv, ServHead
  <2>3. Mirroring' = Mirroring
    BY <2>1, <2>2 DEF Mirroring, Taken, Busy, HwBytes
  <2> QED
    BY <2>1, <2>3, <1>k, <1>e
<1>8. ASSUME NEW t \in Thread, PreSendLoadAck(t) PROVE LimitInv'
  <2>1. app[t].pc = "loadAck" /\ app'[t].pc = "check"
        /\ \A u \in Thread : u # t => app'[u] = app[u]
    BY <1>8, <1>a DEF PreSendLoadAck
  <2>2. \A m \in Nat : Waiting(m)' = Waiting(m)
    BY <2>1 DEF Waiting
  <2> QED
    BY <1>8, <2>2, <1>k, <1>d DEF PreSendLoadAck
<1>9. ASSUME NEW t \in Thread, NEW s \in Sess, NEW n \in 1..MAX_PAYLOAD_SIZE,
             PreSendLoadFastPath(t, s, n)
      PROVE  LimitInv'
  <2>1. app[t].pc = "idle" /\ app'[t].pc = "loadAck"
        /\ \A u \in Thread : u # t => app'[u] = app[u]
    BY <1>9, <1>a DEF PreSendLoadFastPath
  <2>2. \A m \in Nat : Waiting(m)' = Waiting(m)
    BY <2>1 DEF Waiting
  <2> QED
    BY <1>9, <2>2, <1>k, <1>d DEF PreSendLoadFastPath
<1>10. ASSUME NEW t \in Thread, PreSendCount(t) PROVE LimitInv'
  <2>1. app[t].pc = "count" /\ \A u \in Thread : u # t => app'[u] = app[u]
    BY <1>10, <1>a DEF PreSendCount
  <2>2. app'[t].pc = "send"
    <3>1. app'[t] = [app[t] EXCEPT !.pc = "send"] /\ app[t] \in AppState
      BY <1>10, <1>a DEF PreSendCount
    <3> QED
      BY <3>1, <2>1 DEF AppState, Idle
  <2>3. \A m \in Nat : Waiting(m)' = Waiting(m)
    BY <2>1, <2>2 DEF Waiting
  <2> QED
    BY <1>10, <2>3, <1>k, <1>d DEF PreSendCount
<1>11. ASSUME NEW t \in Thread, PreSendCheck(t) \/ PreSendLimit(t) \/ FastSend(t) PROVE LimitInv'
  BY <1>11, <1>0, LimitCheck, LimitFastSend
<1> QED
  BY <1>1, <1>2, <1>3, <1>4, <1>5, <1>6, <1>7, <1>8, <1>9, <1>10, <1>11
     DEF Next, ServNext, AppStep

\* preSendCheck(): FpgaInFlightLimit holds across all sessions up to one packet per
\* application thread, since all of them may pass the check before any of them sends,
\* the HW fire being mirrored, and the fires that ServThread finished mirroring between a
\* thread's loads of the two counters since the limit was last kept; and ServThread never
\* mirrors more than was counted.  For any finite set of threads.
THEOREM TcpInFlightBounded == IsFiniteSet(Thread) => (Spec => []InFlightBounded)
<1> SUFFICES ASSUME IsFiniteSet(Thread) PROVE Spec => []InFlightBounded
  OBVIOUS
<1> DEFINE I == TypeInv /\ MirrorInv /\ CountInv /\ LimitInv
<1>1. Init => I
  BY TypeInit, MirrorInit, CountInit, LimitInit
<1>2. I /\ [Next]_vars => I'
  BY TypeStep, MirrorStep, CountStep, LimitStep
<1>3. I => InFlightBounded
  <2> SUFFICES ASSUME TypeInv, MirrorInv, CountInv, LimitInv PROVE InFlightBounded
    OBVIOUS
  <2>1. TypeOK
    BY DEF TypeInv
  <2>2. PICK f \in Nat, d \in Nat, z \in Nat, y \in Nat :
          f = globalFastPathBytes /\ d = globalDummyBytes /\ z = slip /\ y = Mirroring
    BY <2>1, MirroringNat DEF TypeOK
  <2>3. FireBeingMirrored = y
    <3>1. Busy => Head(epmFeedback) = epmFeedback[1]
      BY <2>1 DEF MirrorInv, ServHead, TypeOK
    <3> QED
      BY <2>2, <3>1 DEF FireBeingMirrored, Mirroring, Taken, Busy
  <2>4. PICK m \in Nat : m = d + FpgaInFlightLimit
    OBVIOUS
  <2>5. Waiting(m) \in SUBSET Thread
    BY DEF Waiting
  <2>6. PICK a \in Nat, b \in Nat : /\ a = MAX_PAYLOAD_SIZE * Cardinality(Waiting(m))
                                    /\ b = MAX_PAYLOAD_SIZE * Cardinality(Thread)
    BY <2>5, PayloadsOf
  <2>7. a <= m + z + y - f + b
    BY <2>2, <2>4, <2>6 DEF LimitInv, Slack
  <2>8. f - d <= FpgaInFlightLimit + b + y + z
    BY <2>4, <2>7
  <2>9. d <= f
    BY <2>2 DEF CountInv
  <2> QED
    BY <2>2, <2>3, <2>6, <2>8, <2>9 DEF InFlightBounded
<1> HIDE DEF I
<1> QED
  BY <1>1, <1>2, <1>3, PTL DEF Spec

----------------------------------------------------------------------------
(* The 64-bit ACK number from one ACK to the next.                          *)

\* seq32to64() with the low half of the previous number goes up, and to the very number
\* of the packet if that is less than the sequence space ahead.
LEMMA Seq32to64Grows ==
    ASSUME NEW prev64 \in Nat, NEW ack \in Nat, NEW prev32 \in Nat,
           prev64 <= ack, prev32 = prev64 % SeqMod \/ (prev32 = 0 /\ prev64 = ack)
    PROVE  LET r == seq32to64(prev64, prev32, ack % SeqMod) IN
           /\ prev64 <= r
           /\ ack - prev64 < SeqMod => r = ack
<1> DEFINE r == seq32to64(prev64, prev32, ack % SeqMod)
<1>1. r \in Nat /\ r <= ack /\ r % SeqMod = ack % SeqMod
  BY Seq32to64Below
<1>2. PICK p \in Int, p32 \in 0..(SeqMod - 1) :
        p32 = prev64 % SeqMod /\ prev64 = SeqMod * p + p32
  <2>1. prev64 \in Int
    OBVIOUS
  <2> QED
    BY <2>1, DivMod, Zenon
<1>3. PICK a32 \in 0..(SeqMod - 1) : a32 = ack % SeqMod
  BY SeqRange
<1>4. SeqMod * p \in Int /\ SeqMod * (p + 1) = SeqMod * p + SeqMod
  BY <1>2
<1>5. prev64 <= r
  <2>1. CASE a32 < prev32
    <3>1. prev32 = p32
      BY <2>1, <1>2, <1>3
    <3>2. (prev64 + SeqMod) % SeqMod = p32
      <4>1. prev64 + SeqMod = SeqMod * (p + 1) + p32 /\ p + 1 \in Int
        BY <1>2, <1>4
      <4> QED
        BY <4>1, <1>2, ModUnique
    <3>3. r = ((prev64 + SeqMod) - ((prev64 + SeqMod) % SeqMod)) + a32
      BY <2>1, <1>3 DEF seq32to64
    <3>4. r = SeqMod * p + SeqMod + a32
      <4> HIDE DEF r
      <4> QED
        BY <3>2, <3>3, <1>2, <1>3, <1>4
    <3> HIDE DEF r
    <3> QED
      BY <3>4, <1>2, <1>3, <1>4
  <2>2. CASE ~(a32 < prev32)
    <3>1. p32 <= a32
      BY <2>2, <1>2, <1>3
    <3>2. r = ((prev64 + 0) - ((prev64 + 0) % SeqMod)) + a32
      BY <2>2, <1>3 DEF seq32to64
    <3>3. r = SeqMod * p + a32
      <4> HIDE DEF r
      <4>1. prev64 + 0 = prev64
        OBVIOUS
      <4> QED
        BY <4>1, <3>2, <1>2, <1>3, <1>4
    <3> HIDE DEF r
    <3> QED
      BY <3>1, <3>3, <1>2, <1>3, <1>4
  <2> QED
    BY <2>1, <2>2
<1>6. ASSUME ack - prev64 < SeqMod PROVE r = ack
  <2> HIDE DEF r
  <2>1. CASE r < ack
    <3>1. ack - r < SeqMod
      BY <1>1, <1>5, <1>6, <2>1
    <3> QED
      BY <3>1, <2>1, <1>1, ModApart
  <2> QED
    BY <2>1, <1>1
<1> QED
  BY <1>5, <1>6

\* Until the handshake is over nothing but its first byte is acknowledged; from then on
\* the 32-bit number is the low half of the 64-bit one.
TrackInv ==
    /\ \A s \in Sess : conn[s] \in {"synSent", "synAcked", "firstAck"}
                         => peerAck[s] = Base /\ realTcpRemoteAckNum[s] = Base
    /\ \A s \in Sess : conn[s] \in {"firstAck", "up"} =>
         (IF rx.pc = "storeAck" /\ Head(lwipRx).s = s THEN rx.prev ELSE tcpRemoteAckNum[s])
           = realTcpRemoteAckNum[s] % SeqMod
    /\ rx.pc = "delay" =>
         tcpRemoteAckNum[Head(lwipRx).s] = realTcpRemoteAckNum[Head(lwipRx).s] % SeqMod

\* The answer to the SYN is the only packet of its session, and connect() waits for it.
SynAlone ==
    \A i \in 1..Len(lwipRx) : lwipRx[i].syn =>
      /\ conn[lwipRx[i].s] = "synAcked"
      /\ \A j \in 1..Len(lwipRx) : lwipRx[j].s = lwipRx[i].s => j = i

\* Nothing is acknowledged in the beginning.
LEMMA TrackInit == Init => TrackInv /\ SynAlone
BY DEF Init, TrackInv, SynAlone, Idle

\* While the packet is delayed the head of the channel and the numbers of the
\* exchange stay as they are.
LEMMA DelayStays ==
    ASSUME TypeOK, RxDelay
    PROVE  /\ rx.pc = "delay" /\ rx'.pc = "delay"
           /\ UNCHANGED <<lwipRx, conn, rxCntrs, peerVars>>
<1>1. rx \in RxState /\ rx.pc = "delay"
  BY DEF TypeOK, RxDelay, RxTestAhead, RxLoadTx, RxInsertEmptyAck
<1>2. rx'.pc = "delay"
  BY <1>1 DEF RxDelay, RxTestAhead, RxLoadTx, RxInsertEmptyAck, RxState, Idle
<1>3. UNCHANGED <<lwipRx, conn, rxCntrs, peerVars>>
  BY DEF RxDelay, RxTestAhead, RxLoadTx, RxInsertEmptyAck
<1> QED
  BY <1>1, <1>2, <1>3

\* A step outside the ACK path.
LEMMA TrackFrame ==
    ASSUME TrackInv, UNCHANGED <<conn, rx, lwipRx, tcpRemoteAckNum, realTcpRemoteAckNum, peerAck>>
    PROVE  TrackInv'
BY DEF TrackInv

\* An arriving packet that is no answer to a SYN, or is the first of its session.
LEMMA SynAppend ==
    ASSUME TypeOK, SynAlone, NEW x, lwipRx' = Append(lwipRx, x), x.s \in Sess,
           \A s \in Sess : conn[s] = "synAcked" => s # x.s /\ conn'[s] = "synAcked",
           x.syn => /\ conn'[x.s] = "synAcked" /\ \A i \in 1..Len(lwipRx) : lwipRx[i].s # x.s
    PROVE  SynAlone'
<1>1. lwipRx \in Seq(RxPkt)
  BY DEF TypeOK
<1>2. PICK L \in Nat : L = Len(lwipRx)
  BY <1>1
<1>3. /\ Len(lwipRx') = L + 1 /\ lwipRx'[L + 1] = x
      /\ \A i \in 1..L : lwipRx'[i] = lwipRx[i] /\ lwipRx[i].s \in Sess
  BY <1>1, <1>2, RxEntry
<1>4. \A i \in 1..L : lwipRx[i].syn => lwipRx[i].s # x.s /\ conn'[lwipRx[i].s] = "synAcked"
  BY <1>2, <1>3 DEF SynAlone
<1>5. ASSUME NEW i \in 1..(L + 1), lwipRx'[i].syn, NEW j \in 1..(L + 1), lwipRx'[j].s = lwipRx'[i].s
      PROVE  conn'[lwipRx'[i].s] = "synAcked" /\ j = i
  <2>1. CASE i = L + 1
    BY <2>1, <1>2, <1>3, <1>5
  <2>2. CASE i \in 1..L /\ j = L + 1
    BY <2>2, <1>3, <1>4, <1>5
  <2>3. CASE i \in 1..L /\ j \in 1..L
    <3>1. lwipRx[i].syn /\ lwipRx[j].s = lwipRx[i].s
      BY <2>3, <1>3, <1>5
    <3> QED
      BY <2>3, <3>1, <1>2, <1>3, <1>4 DEF SynAlone
  <2>4. (i = L + 1 \/ i \in 1..L) /\ (j = L + 1 \/ j \in 1..L)
    OBVIOUS
  <2> QED
    BY <2>1, <2>2, <2>3, <2>4
<1> QED
  BY <1>3, <1>5 DEF SynAlone

\* The packet at the head stays there when another one arrives.
LEMMA HeadStays ==
    ASSUME TypeInv, NEW x, lwipRx' = Append(lwipRx, x), rx.pc \in {"storeAck", "delay"}
    PROVE  Head(lwipRx') = Head(lwipRx)
<1>1. lwipRx # <<>> /\ lwipRx \in Seq(RxPkt)
  BY DEF TypeInv, HeadHeld, TypeOK
<1> QED
  BY <1>1

\* updateRx() stores the 64-bit number of the packet, or one that lies between the last
\* one and the packet's.
LEMMA RealGrows ==
    ASSUME TypeInv, AckInv, TrackInv, RxStoreAck
    PROVE  LET p == Head(lwipRx)
               r == realTcpRemoteAckNum'[p.s] IN
           /\ p.s \in Sess /\ p.ack \in Nat /\ r \in Nat /\ lwipRx # <<>>
           /\ realTcpRemoteAckNum' = [realTcpRemoteAckNum EXCEPT ![p.s] = r]
           /\ realTcpRemoteAckNum[p.s] <= r /\ r <= p.ack
           /\ r % SeqMod = p.ack % SeqMod /\ tcpRemoteAckNum[p.s] = p.ack % SeqMod
           /\ p.ack - realTcpRemoteAckNum[p.s] < SeqMod => r = p.ack
           /\ conn[p.s] \notin {"closed", "synSent"} /\ p.ack <= peerAck[p.s]
<1>0. /\ TypeOK /\ HeadHeld /\ rx.pc = "storeAck"
      /\ realTcpRemoteAckNum \in [Sess -> Nat] /\ rx \in RxState
      /\ conn \in [Sess -> {"closed", "synSent", "synAcked", "firstAck", "up"}]
  BY DEF TypeInv, TypeOK, RxStoreAck
<1>1. lwipRx # <<>> /\ 1 \in 1..Len(lwipRx) /\ Head(lwipRx) = lwipRx[1]
  BY <1>0, HeadIsFirst DEF HeadHeld
<1>2. PICK s \in Sess, a \in Nat : s = Head(lwipRx).s /\ a = Head(lwipRx).ack
  BY <1>0, <1>1, RxHead
<1>3. PICK v \in Nat, b \in Nat : v = realTcpRemoteAckNum[s] /\ b = rx.prev
  BY <1>0 DEF RxState, Idle
<1>4. v <= a /\ a <= peerAck[s] /\ conn[s] \notin {"closed", "synSent"}
  BY <1>1, <1>2, <1>3 DEF AckInv, AckChain, Handshake
<1>5. tcpRemoteAckNum[s] = a % SeqMod /\ (b = v % SeqMod \/ b = 0)
  BY <1>0, <1>2, <1>3 DEF AckInv, AckTracked, LowHalf
<1>6. b = v % SeqMod \/ (b = 0 /\ v = a)
  <2>1. CASE conn[s] \in {"firstAck", "up"}
    BY <2>1, <1>0, <1>2, <1>3 DEF TrackInv
  <2>2. CASE conn[s] = "synAcked"
    <3>1. peerAck[s] = Base /\ v = Base
      BY <2>2, <1>3 DEF TrackInv
    <3>2. Base \in Nat
      BY BaseNat
    <3> QED
      BY <3>1, <3>2, <1>4, <1>5
  <2> QED
    BY <2>1, <2>2, <1>0, <1>4
<1>7. PICK r : r = seq32to64(v, b, a % SeqMod)
  OBVIOUS
<1>8. r \in Nat /\ r <= a /\ r % SeqMod = a % SeqMod
  BY <1>4, <1>5, <1>7, Seq32to64Below
<1>9. v <= r /\ (a - v < SeqMod => r = a)
  BY <1>4, <1>6, <1>7, Seq32to64Grows
<1>10. realTcpRemoteAckNum' = [realTcpRemoteAckNum EXCEPT ![s] = r]
  BY <1>2, <1>3, <1>7 DEF RxStoreAck
<1>11. realTcpRemoteAckNum'[s] = r
  BY <1>10, <1>0
<1> QED
  BY <1>1, <1>2, <1>3, <1>4, <1>5, <1>8, <1>9, <1>10, <1>11

\* Every step keeps SynAlone: the actions that change conn or lwipRx.
LEMMA SynStep ==
    ASSUME "staleAck" \notin Env, TypeInv, AckInv, SynAlone, [Next]_vars
    PROVE  SynAlone'
<1>0. /\ TypeOK /\ HeadHeld /\ Handshake /\ lwipRx \in Seq(RxPkt)
      /\ conn \in [Sess -> {"closed", "synSent", "synAcked", "firstAck", "up"}]
  BY DEF TypeInv, TypeOK, AckInv
<1>a. \A i \in 1..Len(lwipRx) : lwipRx[i].s \in Sess
  BY <1>0, RxEntry
<1>f. ASSUME UNCHANGED lwipRx, \A s \in Sess : conn[s] = "synAcked" => conn'[s] = "synAcked"
      PROVE  SynAlone'
  BY <1>f, <1>a DEF SynAlone
<1>1. ASSUME NEW s \in Sess, SendSyn(s) PROVE SynAlone'
  BY <1>1, <1>f, <1>0 DEF SendSyn
<1>2. ASSUME NEW s \in Sess, NEW w \in PeerWnds, PeerSynAck(s, w) PROVE SynAlone'
  <2>1. /\ conn[s] = "synSent" /\ conn' = [conn EXCEPT ![s] = "synAcked"]
        /\ lwipRx' = Append(lwipRx, [s |-> s, ack |-> Base, wnd |-> w, syn |-> TRUE])
    BY <1>2 DEF PeerSynAck
  <2>2. \A i \in 1..Len(lwipRx) : lwipRx[i].s # s
    BY <2>1, <1>0 DEF Handshake
  <2>3. PICK x : x = [s |-> s, ack |-> Base, wnd |-> w, syn |-> TRUE]
    OBVIOUS
  <2>4. x.s = s /\ lwipRx' = Append(lwipRx, x)
    BY <2>1, <2>3
  <2>5. conn'[s] = "synAcked" /\ \A r \in Sess : conn[r] = "synAcked" => r # s /\ conn'[r] = "synAcked"
    BY <2>1, <1>0
  <2> QED
    BY <2>2, <2>4, <2>5, <1>0, SynAppend
<1>3. ASSUME NEW s \in Sess, ConnectReturn(s) PROVE SynAlone'
  BY <1>3, <1>f, <1>0 DEF ConnectReturn
<1>4. ASSUME NEW s \in Sess, PeerAckAny(s) PROVE SynAlone'
  <2>1. PICK a, w : PeerSendAck(s, a, w)
    BY <1>4 DEF PeerAckAny
  <2>2. PICK x : x = [s |-> s, ack |-> a, wnd |-> w, syn |-> FALSE]
    OBVIOUS
  <2>3. conn[s] = "up" /\ conn' = conn /\ lwipRx' = Append(lwipRx, x) /\ x.s = s /\ ~x.syn
    BY <2>1, <2>2 DEF PeerSendAck, PeerSend
  <2> QED
    BY <2>3, <1>0, SynAppend
<1>5. ASSUME RxForward PROVE SynAlone'
  <2>1. lwipRx # <<>> /\ 1 \in 1..Len(lwipRx) /\ Head(lwipRx) = lwipRx[1]
    BY <1>5, <1>0, HeadIsFirst DEF RxForward, HeadHeld
  <2>2. PICK r \in Sess : r = lwipRx[1].s
    BY <2>1, <1>a
  <2>3. lwipRx' = Tail(lwipRx)
        /\ conn' = [conn EXCEPT ![r] = IF lwipRx[1].syn /\ exc_active THEN "firstAck" ELSE @]
    BY <1>5, <2>1, <2>2 DEF RxForward, RxForwardPkt
  <2>4. PICK L \in Nat : L = Len(lwipRx)
    BY <1>0
  <2>5. Len(lwipRx') = L - 1 /\ \A i \in 1..(L - 1) : lwipRx'[i] = lwipRx[i + 1]
    BY <2>1, <2>3, <2>4, <1>0
  <2>6. ASSUME NEW i \in 1..(L - 1), lwipRx[i + 1].syn PROVE lwipRx[i + 1].s # r
    <3>1. i + 1 \in 1..L /\ i + 1 # 1 /\ 1 \in 1..L
      BY <2>4, <2>1
    <3> QED
      BY <3>1, <2>2, <2>4, <2>6 DEF SynAlone
  <2>7. ASSUME NEW i \in 1..(L - 1), lwipRx'[i].syn
        PROVE  /\ conn'[lwipRx'[i].s] = "synAcked"
               /\ \A j \in 1..(L - 1) : lwipRx'[j].s = lwipRx'[i].s => j = i
    <3>1. i + 1 \in 1..L /\ lwipRx'[i] = lwipRx[i + 1] /\ lwipRx[i + 1].syn /\ lwipRx[i + 1].s \in Sess
      BY <2>4, <2>5, <2>7, <1>a
    <3>2. conn[lwipRx[i + 1].s] = "synAcked"
      BY <3>1, <2>4 DEF SynAlone
    <3>3. conn'[lwipRx[i + 1].s] = "synAcked"
      BY <3>1, <3>2, <2>3, <2>6, <1>0
    <3>4. \A j \in 1..(L - 1) : lwipRx[j + 1].s = lwipRx[i + 1].s => j + 1 = i + 1
      BY <3>1, <2>4 DEF SynAlone
    <3> QED
      BY <3>1, <3>3, <3>4, <2>5
  <2> QED
    BY <2>5, <2>7 DEF SynAlone
<1>6. ASSUME NEW t \in Thread, AppStep(t) PROVE SynAlone'
  BY <1>6, <1>f DEF AppStep, PreSendLoadAck, PreSendCheck, PreSendLimit, PreSendCount, FastSend
<1>7. ASSUME NEW t \in Thread, NEW s \in Sess, NEW n \in 1..MAX_PAYLOAD_SIZE,
             PreSendLoadFastPath(t, s, n)
      PROVE  SynAlone'
  BY <1>7, <1>f DEF PreSendLoadFastPath
<1>8. ASSUME NEW s \in Sess, NEW n \in 1..MAX_PAYLOAD_SIZE, HwFire(s, n) PROVE SynAlone'
  BY <1>8, <1>f DEF HwFire
<1>9. ASSUME NEW s \in Sess, Lose(s) \/ PeerReset(s) \/ Shutdown(s) \/ LwipNext(s)
      PROVE  SynAlone'
  BY <1>9, <1>f DEF Lose, PeerReset, Shutdown, LwipNext, LwipOutput, LwipSendFin, LwipRetransmit
<1>10. ASSUME ServNext \/ Stop \/ RxStoreWnd \/ RxStoreAck \/ RxDelay PROVE SynAlone'
  BY <1>10, <1>f DEF ServNext, ServTake, ServWrite, ServWritten, ServWriteError, ServExit,
     Stop, RxStoreWnd, RxStoreAck, RxDelay, RxTestAhead, RxLoadTx, RxInsertEmptyAck
<1>11. CASE UNCHANGED vars
  BY <1>11, <1>f
<1>12. ASSUME NEW s \in Sess, PeerNext(s) PROVE SynAlone'
  BY <1>12, <1>4, <1>9 DEF PeerNext, StaleAck
<1> QED
  BY <1>1, <1>2, <1>3, <1>5, <1>6, <1>7, <1>8, <1>9, <1>10, <1>11, <1>12
     DEF Next, RxNext, ConnectStep

\* Every step keeps TrackInv, one case per action.
LEMMA TrackStep ==
    ASSUME "staleAck" \notin Env, TypeInv, TypeInv', AckInv, SynAlone, TrackInv, [Next]_vars
    PROVE  TrackInv'
<1>0. /\ TypeOK /\ HeadHeld /\ AckChain /\ Handshake /\ AckTracked
      /\ realTcpRemoteAckNum \in [Sess -> Nat] /\ peerAck \in [Sess -> Nat]
      /\ conn \in [Sess -> {"closed", "synSent", "synAcked", "firstAck", "up"}]
      /\ lwipRx \in Seq(RxPkt)
  BY DEF TypeInv, TypeOK, AckInv
<1>b. lwipRx # <<>> => 1 \in 1..Len(lwipRx) /\ Head(lwipRx) = lwipRx[1] /\ Head(lwipRx).s \in Sess
  BY <1>0, HeadIsFirst, RxHead
<1>c. rx.pc \in {"storeAck", "delay"} => lwipRx # <<>>
  BY <1>0 DEF HeadHeld
<1>1. ASSUME NEW s \in Sess, SendSyn(s) PROVE TrackInv'
  <2>1. /\ conn[s] = "closed" /\ conn' = [conn EXCEPT ![s] = "synSent"]
        /\ realTcpRemoteAckNum' = [realTcpRemoteAckNum EXCEPT ![s] = Base]
        /\ peerAck' = [peerAck EXCEPT ![s] = Base]
        /\ UNCHANGED <<rx, lwipRx, tcpRemoteAckNum>>
    BY <1>1 DEF SendSyn
  <2>2. \A i \in 1..Len(lwipRx) : lwipRx[i].s # s
    BY <2>1, <1>0 DEF Handshake
  <2>3. rx.pc = "delay" => Head(lwipRx).s # s
    BY <2>2, <1>b, <1>c
  <2>4. \A r \in Sess : r # s => /\ conn'[r] = conn[r] /\ peerAck'[r] = peerAck[r]
                                 /\ realTcpRemoteAckNum'[r] = realTcpRemoteAckNum[r]
    BY <2>1, <1>0
  <2>5. conn'[s] = "synSent" /\ peerAck'[s] = Base /\ realTcpRemoteAckNum'[s] = Base
    BY <2>1, <1>0
  <2> QED
    BY <2>1, <2>3, <2>4, <2>5, <1>b, <1>c DEF TrackInv
<1>2. ASSUME NEW s \in Sess, NEW w \in PeerWnds, PeerSynAck(s, w) PROVE TrackInv'
  <2>1. /\ conn[s] = "synSent" /\ conn' = [conn EXCEPT ![s] = "synAcked"]
        /\ lwipRx' = Append(lwipRx, [s |-> s, ack |-> Base, wnd |-> w, syn |-> TRUE])
        /\ UNCHANGED <<rx, tcpRemoteAckNum, realTcpRemoteAckNum, peerAck>>
    BY <1>2 DEF PeerSynAck
  <2>2. rx.pc \in {"storeAck", "delay"} => Head(lwipRx') = Head(lwipRx)
    BY <2>1, HeadStays
  <2>3. \A r \in Sess : r # s => conn'[r] = conn[r]
    BY <2>1, <1>0
  <2>4. conn'[s] = "synAcked"
    BY <2>1, <1>0
  <2> QED
    BY <2>1, <2>2, <2>3, <2>4 DEF TrackInv
<1>3. ASSUME NEW s \in Sess, ConnectReturn(s) PROVE TrackInv'
  <2>1. /\ conn[s] = "firstAck" /\ conn' = [conn EXCEPT ![s] = "up"]
        /\ UNCHANGED <<rx, lwipRx, tcpRemoteAckNum, realTcpRemoteAckNum, peerAck>>
    BY <1>3 DEF ConnectReturn
  <2>2. \A r \in Sess : r # s => conn'[r] = conn[r]
    BY <2>1, <1>0
  <2>3. conn'[s] = "up"
    BY <2>1, <1>0
  <2> QED
    BY <2>1, <2>2, <2>3 DEF TrackInv
<1>4. ASSUME NEW s \in Sess, PeerAckAny(s) PROVE TrackInv'
  <2>1. PICK a, w : PeerSendAck(s, a, w)
    BY <1>4 DEF PeerAckAny
  <2>2. /\ conn[s] = "up" /\ peerAck' = [peerAck EXCEPT ![s] = a]
        /\ lwipRx' = Append(lwipRx, [s |-> s, ack |-> a, wnd |-> w, syn |-> FALSE])
        /\ UNCHANGED <<rx, conn, tcpRemoteAckNum, realTcpRemoteAckNum>>
    BY <2>1 DEF PeerSendAck, PeerSend
  <2>3. rx.pc \in {"storeAck", "delay"} => Head(lwipRx') = Head(lwipRx)
    BY <2>2, HeadStays
  <2>4. \A r \in Sess : r # s => peerAck'[r] = peerAck[r]
    BY <2>2, <1>0
  <2> QED
    BY <2>2, <2>3, <2>4 DEF TrackInv
<1>5. ASSUME RxStoreWnd PROVE TrackInv'
  <2>1. PICK p : p = Head(lwipRx)
    OBVIOUS
  <2>2. /\ rx.pc = "idle" /\ p.s \in Sess /\ rx'.pc = "storeAck" /\ rx'.prev = tcpRemoteAckNum[p.s]
        /\ tcpRemoteAckNum' = [tcpRemoteAckNum EXCEPT ![p.s] = p.ack % SeqMod]
        /\ UNCHANGED <<conn, lwipRx, realTcpRemoteAckNum, peerAck>>
    BY <1>5, <2>1, <1>b DEF RxStoreWnd
  <2>3. \A r \in Sess : r # p.s => tcpRemoteAckNum'[r] = tcpRemoteAckNum[r]
    BY <2>2, <1>0 DEF TypeOK
  <2> QED
    BY <2>1, <2>2, <2>3 DEF TrackInv
<1>6. ASSUME RxStoreAck PROVE TrackInv'
  <2>1. PICK s \in Sess, r \in Nat, a \in Nat :
          /\ s = Head(lwipRx).s /\ a = Head(lwipRx).ack
          /\ realTcpRemoteAckNum' = [realTcpRemoteAckNum EXCEPT ![s] = r]
          /\ realTcpRemoteAckNum[s] <= r /\ r <= a /\ r % SeqMod = a % SeqMod
          /\ tcpRemoteAckNum[s] = a % SeqMod /\ a <= peerAck[s]
    BY <1>6, RealGrows
  <2>2. rx.pc = "storeAck" /\ rx' = [pc |-> "delay", at |-> "test"]
        /\ UNCHANGED <<conn, lwipRx, tcpRemoteAckNum, peerAck>>
    BY <1>6 DEF RxStoreAck
  <2>3. \A q \in Sess : q # s => realTcpRemoteAckNum'[q] = realTcpRemoteAckNum[q]
    BY <2>1, <1>0
  <2>4. realTcpRemoteAckNum'[s] = r
    BY <2>1, <1>0
  <2>5. conn[s] \in {"synSent", "synAcked", "firstAck"} => r = Base
    <3> SUFFICES ASSUME conn[s] \in {"synSent", "synAcked", "firstAck"} PROVE r = Base
      OBVIOUS
    <3>1. peerAck[s] = Base /\ realTcpRemoteAckNum[s] = Base /\ Base \in Nat
      BY BaseNat DEF TrackInv
    <3> QED
      BY <3>1, <2>1
  <2>6. r % SeqMod = tcpRemoteAckNum[s]
    BY <2>1
  <2> QED
    BY <2>1, <2>2, <2>3, <2>4, <2>5, <2>6 DEF TrackInv
<1>7. ASSUME RxForward PROVE TrackInv'
  <2>1. PICK p : p = Head(lwipRx)
    OBVIOUS
  <2>2. /\ rx.pc = "delay" /\ p.s \in Sess /\ rx' = Idle
        /\ conn' = [conn EXCEPT ![p.s] = IF p.syn /\ exc_active THEN "firstAck" ELSE @]
        /\ UNCHANGED <<tcpRemoteAckNum, realTcpRemoteAckNum, peerAck>>
    BY <1>7, <2>1, <1>b, <1>c DEF RxForward, RxForwardPkt
  <2>3. tcpRemoteAckNum[p.s] = realTcpRemoteAckNum[p.s] % SeqMod
    BY <2>1, <2>2 DEF TrackInv
  <2>4. \A r \in Sess : r # p.s => conn'[r] = conn[r]
    BY <2>2, <1>0
  <2>5. conn'[p.s] = conn[p.s] \/ (conn[p.s] = "synAcked" /\ conn'[p.s] = "firstAck")
    <3>1. p.syn => conn[p.s] = "synAcked"
      BY <2>1, <2>2, <1>b, <1>c DEF SynAlone
    <3> QED
      BY <3>1, <2>2, <1>0
  <2>7. rx'.pc = "idle"
    BY <2>2 DEF Idle
  <2>8. ASSUME NEW r \in Sess, conn'[r] \in {"synSent", "synAcked", "firstAck"}
        PROVE  peerAck'[r] = Base /\ realTcpRemoteAckNum'[r] = Base
    <3>1. conn[r] \in {"synSent", "synAcked", "firstAck"}
      BY <2>8, <2>4, <2>5, <1>0
    <3> QED
      BY <3>1, <2>2 DEF TrackInv
  <2> QED
    BY <2>2, <2>3, <2>4, <2>7, <2>8 DEF TrackInv
<1>8. ASSUME NEW t \in Thread, AppStep(t) PROVE TrackInv'
  BY <1>8, TrackFrame DEF AppStep, PreSendLoadAck, PreSendCheck, PreSendLimit, PreSendCount, FastSend
<1>9. ASSUME NEW t \in Thread, NEW s \in Sess, NEW n \in 1..MAX_PAYLOAD_SIZE,
             PreSendLoadFastPath(t, s, n)
      PROVE  TrackInv'
  BY <1>9, TrackFrame DEF PreSendLoadFastPath
<1>14. ASSUME NEW s \in Sess, NEW n \in 1..MAX_PAYLOAD_SIZE, HwFire(s, n) PROVE TrackInv'
  BY <1>14, TrackFrame DEF HwFire
<1>10. ASSUME NEW s \in Sess, Lose(s) \/ PeerReset(s) \/ Shutdown(s) \/ LwipNext(s)
       PROVE  TrackInv'
  BY <1>10, TrackFrame DEF Lose, PeerReset, Shutdown, LwipNext, LwipOutput, LwipSendFin, LwipRetransmit
<1>11. ASSUME ServNext \/ Stop PROVE TrackInv'
  BY <1>11, TrackFrame DEF ServNext, ServTake, ServWrite, ServWritten, ServWriteError, ServExit, Stop
<1>15. ASSUME RxDelay PROVE TrackInv'
  BY <1>15, <1>0, DelayStays DEF TrackInv
<1>12. CASE UNCHANGED vars
  BY <1>12, TrackFrame
<1>13. ASSUME NEW s \in Sess, PeerNext(s) PROVE TrackInv'
  BY <1>13, <1>4, <1>10 DEF PeerNext, StaleAck
<1> QED
  BY <1>1, <1>2, <1>3, <1>5, <1>6, <1>7, <1>8, <1>9, <1>10, <1>11, <1>12, <1>13, <1>14, <1>15
     DEF Next, RxNext, ConnectStep

----------------------------------------------------------------------------
(* The window of the exchange.                                              *)

\* The SYN of the session was answered.
Answered(s) == conn[s] \notin {"closed", "synSent"}

\* updateRx() stores the window before the ACK number: the two never add up to more
\* than an edge that the exchange has announced.
EdgeInv ==
    /\ \A i \in 1..Len(lwipRx) : lwipRx[i].ack + lwipRx[i].wnd <= peerEdge[lwipRx[i].s]
    /\ rx.pc = "storeAck" => tcpSndWnd[Head(lwipRx).s] = Head(lwipRx).wnd
    /\ \A s \in Sess : Answered(s) => realTcpRemoteAckNum[s] + tcpSndWnd[s] <= peerEdge[s]
    /\ \A s \in Sess : ~Answered(s) => tcpSndWnd[s] = 0

\* Nothing happens on a session before its SYN is answered, and what was put on the wire
\* and is about to be sent is no more than what was counted and what the HW fired.
Quiet(s) ==
    ~Answered(s) => /\ fired[s] = 0 /\ \A t \in Thread : app[t].pc # "idle" => app[t].s # s
                    /\ conn[s] = "synSent" => wire[s] = Base
Lagging(s) ==
    \E y \in Nat : SetTotal(Sending(s), Sizes, y) /\ wire[s] + y <= realFastPathBytes[s] + fired[s]
LagInv == \A s \in Sess : Quiet(s) /\ Lagging(s)

\* A payload for each of a set of threads but one.
Packets(Q) == MAX_PAYLOAD_SIZE * (Cardinality(Q) - 1)

\* With a bytes sent, each thread of Q can still send z[t] bytes, and the limit e is
\* exceeded by no more than a packet for each thread but one.
Bounded(Q, z, a, e) ==
    IF Q = {} THEN a <= e + Packets(Thread)
    ELSE \E u \in Q : a + z[u] + Packets(Q) <= e + Packets(Thread)

\* The threads of session s whose packet ends within e, counted from f[t], which is
\* what the thread has loaded from realFastPathBytes.
Within(f, s, e) == {t \in Thread : app[t].pc # "idle" /\ app[t].s = s /\ f[t] + app[t].n <= e}

LoadedAt(f, t) ==
    /\ app[t].pc = "loadAck" => f[t] = app[t].fast
    /\ app[t].pc = "check" => f[t] <= app[t].unAcked + realTcpRemoteAckNum[app[t].s]
    /\ app[t].pc \in {"limit", "count", "send"} => f[t] + app[t].n <= peerEdge[app[t].s] - WndMargin

WindowedBy(f) ==
    /\ \A t \in Thread : LoadedAt(f, t)
    /\ \A s \in Sess : Answered(s) =>
         \A e \in Int : peerEdge[s] - WndMargin <= e
           => Bounded(Within(f, s, e), Sizes, wire[s] - fired[s], e)

WindowInv == \E f \in [Thread -> Nat] : WindowedBy(f)

\* A window is never below the margin, and there are threads.
Roomy == IsFiniteSet(Thread) /\ Thread # {} /\ \A w \in PeerWnds : w >= WndMargin

\* A product of a number and one less.
LEMMA MulPred ==
    ASSUME NEW m \in Nat, NEW k \in Nat
    PROVE  m * (k - 1) \in Int /\ m * ((k + 1) - 1) = m * (k - 1) + m
OBVIOUS

\* A product grows with the number.
LEMMA MulPredMono ==
    ASSUME NEW m \in Nat, NEW k \in Nat, NEW l \in Nat, k <= l
    PROVE  m * (k - 1) <= m * (l - 1)
<1>1. PICK d \in Nat : l = k + d
  BY l - k \in Nat
<1>2. m * (l - 1) = m * (k - 1) + m * d /\ m * d \in Nat /\ m * (k - 1) \in Int
  BY <1>1
<1> QED
  BY <1>2

\* The packets of some threads are no more than those of all.
LEMMA PacketsOf ==
    ASSUME IsFiniteSet(Thread), NEW Q \in SUBSET Thread
    PROVE  /\ IsFiniteSet(Q) /\ Packets(Q) \in Int /\ Packets(Thread) \in Int
           /\ Packets(Q) <= Packets(Thread)
<1>1. IsFiniteSet(Q) /\ Cardinality(Q) \in Nat /\ Cardinality(Thread) \in Nat
      /\ Cardinality(Q) <= Cardinality(Thread)
  BY FS_Subset, FS_CardinalityType
<1>2. PICK k \in Nat, l \in Nat : k = Cardinality(Q) /\ l = Cardinality(Thread) /\ k <= l
  BY <1>1
<1>3. Packets(Q) = MAX_PAYLOAD_SIZE * (k - 1) /\ Packets(Thread) = MAX_PAYLOAD_SIZE * (l - 1)
  BY <1>2 DEF Packets
<1>4. MAX_PAYLOAD_SIZE \in Nat
  OBVIOUS
<1>5. MAX_PAYLOAD_SIZE * (k - 1) <= MAX_PAYLOAD_SIZE * (l - 1)
  BY <1>2, <1>4, MulPredMono
<1>6. MAX_PAYLOAD_SIZE * (k - 1) \in Int /\ MAX_PAYLOAD_SIZE * (l - 1) \in Int
  BY <1>2, <1>4, MulPred
<1> QED
  BY <1>1, <1>3, <1>5, <1>6

\* One thread less, one packet less.
LEMMA PacketsLess ==
    ASSUME IsFiniteSet(Thread), NEW Q \in SUBSET Thread, NEW v \in Q
    PROVE  Packets(Q) = Packets(Q \ {v}) + MAX_PAYLOAD_SIZE
<1>1. IsFiniteSet(Q) /\ IsFiniteSet(Q \ {v})
  BY FS_Subset
<1>2. Cardinality(Q \ {v}) = Cardinality(Q) - 1 /\ Cardinality(Q) \in Nat /\ Cardinality(Q \ {v}) \in Nat
  BY <1>1, FS_RemoveElement, FS_CardinalityType
<1>3. PICK k \in Nat : k = Cardinality(Q \ {v}) /\ k + 1 = Cardinality(Q)
  BY <1>2
<1>4. Packets(Q) = MAX_PAYLOAD_SIZE * ((k + 1) - 1) /\ Packets(Q \ {v}) = MAX_PAYLOAD_SIZE * (k - 1)
  BY <1>3 DEF Packets
<1>5. MAX_PAYLOAD_SIZE \in Nat
  OBVIOUS
<1> QED
  BY <1>4, <1>5, <1>3, MulPred

\* There is a thread, so the packets of the others are a number.
LEMMA PacketsThread ==
    ASSUME IsFiniteSet(Thread), Thread # {} PROVE Packets(Thread) \in Nat
<1>1. PICK v : v \in Thread
  OBVIOUS
<1>2. {v} \in SUBSET Thread /\ Cardinality({v}) = 1
  BY <1>1, FS_Singleton
<1>3. Packets({v}) = 0
  BY <1>2 DEF Packets
<1> QED
  BY <1>2, <1>3, PacketsOf

\* Fewer bytes are within the bound, and the sizes of other threads do not matter.
LEMMA BoundedSame ==
    ASSUME IsFiniteSet(Thread), NEW Q \in SUBSET Thread, NEW z, NEW x, NEW a \in Int, NEW b \in Int,
           NEW e \in Int, Bounded(Q, z, a, e), b <= a,
           \A t \in Q : z[t] \in Nat /\ x[t] = z[t]
    PROVE  Bounded(Q, x, b, e)
<1>1. Packets(Q) \in Int /\ Packets(Thread) \in Int
  BY PacketsOf
<1>2. CASE Q = {}
  BY <1>1, <1>2 DEF Bounded
<1>3. CASE Q # {}
  <2>1. PICK u \in Q : a + z[u] + Packets(Q) <= e + Packets(Thread)
    BY <1>3 DEF Bounded
  <2>2. b + x[u] + Packets(Q) <= e + Packets(Thread)
    BY <2>1, <1>1
  <2> QED
    BY <2>2, <1>3 DEF Bounded
<1> QED
  BY <1>2, <1>3

\* A thread that has loaded what was counted joins, if its packet is within the limit.
LEMMA BoundedJoin ==
    ASSUME IsFiniteSet(Thread), NEW Q \in SUBSET Thread, NEW v \in Q, NEW z, NEW a \in Int,
           NEW e \in Int, z[v] \in Nat, a + z[v] <= e
    PROVE  Bounded(Q, z, a, e)
<1>1. Packets(Q) \in Int /\ Packets(Thread) \in Int /\ Packets(Q) <= Packets(Thread)
  BY PacketsOf
<1>2. a + z[v] + Packets(Q) <= e + Packets(Thread)
  BY <1>1
<1> QED
  BY <1>2 DEF Bounded

\* The arithmetic of a thread that leaves.
LEMMA LeaveArith ==
    ASSUME NEW a \in Int, NEW b \in Int, NEW n \in Nat, NEW k \in Nat, NEW l \in Nat,
           NEW p \in Int, NEW q \in Int, NEW c \in Int, NEW m \in Nat,
           a + n + q <= c, q = p + m, b <= a + k, k <= m, l <= m
    PROVE  /\ l = n => b + l + p <= c
           /\ k = n => b + l + p <= c
           /\ p + m = 0 /\ k = n => b <= c
OBVIOUS

\* A thread leaves, having sent no more than its packet.
LEMMA BoundedLeave ==
    ASSUME IsFiniteSet(Thread), NEW Q \in SUBSET Thread, NEW v \in Q, NEW z,
           NEW a \in Int, NEW b \in Int, NEW e \in Int,
           Bounded(Q, z, a, e), b <= a + z[v], \A t \in Q : z[t] \in 1..MAX_PAYLOAD_SIZE
    PROVE  Bounded(Q \ {v}, z, b, e)
<1>1. /\ Packets(Q) \in Int /\ Packets(Thread) \in Int /\ Packets(Q \ {v}) \in Int
      /\ Packets(Q) = Packets(Q \ {v}) + MAX_PAYLOAD_SIZE
  BY PacketsOf, PacketsLess
<1>2. PICK u \in Q : a + z[u] + Packets(Q) <= e + Packets(Thread)
  BY DEF Bounded
<1>3. PICK p \in Int, q \in Int, c \in Int :
        p = Packets(Q \ {v}) /\ q = Packets(Q) /\ c = e + Packets(Thread)
  BY <1>1
<1>4. PICK n \in Nat, k \in Nat : n = z[u] /\ k = z[v] /\ n <= MAX_PAYLOAD_SIZE /\ k <= MAX_PAYLOAD_SIZE
  OBVIOUS
<1>5. a + n + q <= c /\ q = p + MAX_PAYLOAD_SIZE /\ b <= a + k /\ MAX_PAYLOAD_SIZE \in Nat
  BY <1>1, <1>2, <1>3, <1>4
<1>6. CASE Q \ {v} = {}
  <2>1. Q = {v} /\ u = v
    BY <1>6
  <2>2. Cardinality(Q) = 1
    BY <2>1, FS_Singleton
  <2>3. q = 0 /\ k = n
    BY <2>1, <2>2, <1>3, <1>4 DEF Packets
  <2>4. b <= c
    BY <2>3, <1>4, <1>5, LeaveArith
  <2> QED
    BY <1>6, <1>3, <2>4 DEF Bounded
<1>7. CASE u # v
  <2>1. b + n + p <= c
    BY <1>4, <1>5, LeaveArith
  <2> QED
    BY <1>7, <1>3, <1>4, <2>1 DEF Bounded
<1>8. CASE u = v /\ Q \ {v} # {}
  <2>1. PICK r \in Q \ {v} : TRUE
    BY <1>8
  <2>2. PICK l \in Nat : l = z[r] /\ l <= MAX_PAYLOAD_SIZE
    BY <2>1
  <2>3. k = n
    BY <1>8, <1>4
  <2>4. b + l + p <= c
    BY <2>2, <2>3, <1>4, <1>5, LeaveArith
  <2> QED
    BY <2>1, <2>2, <2>4, <1>3 DEF Bounded
<1> QED
  BY <1>6, <1>7, <1>8

\* Nothing is announced in the beginning.
LEMMA EdgeInit == Init => EdgeInv
BY DEF Init, EdgeInv, Answered, Idle

\* A packet arrives; its edge is the announced one.
LEMMA EdgeAppend ==
    ASSUME TypeInv, EdgeInv, NEW x, lwipRx' = Append(lwipRx, x), x.s \in Sess,
           x.ack + x.wnd <= peerEdge'[x.s],
           \A i \in 1..Len(lwipRx) : peerEdge[lwipRx[i].s] <= peerEdge'[lwipRx[i].s],
           peerEdge' \in [Sess -> Nat],
           UNCHANGED <<rx, tcpSndWnd>>
    PROVE  /\ \A i \in 1..Len(lwipRx') : lwipRx'[i].ack + lwipRx'[i].wnd <= peerEdge'[lwipRx'[i].s]
           /\ rx'.pc = "storeAck" => tcpSndWnd'[Head(lwipRx').s] = Head(lwipRx').wnd
<1>0. TypeOK /\ lwipRx \in Seq(RxPkt) /\ peerEdge \in [Sess -> Nat]
  BY DEF TypeInv, TypeOK
<1>1. PICK L \in Nat : L = Len(lwipRx)
  BY <1>0
<1>2. Len(lwipRx') = L + 1 /\ lwipRx'[L + 1] = x /\ \A i \in 1..L : lwipRx'[i] = lwipRx[i]
  BY <1>0, <1>1
<1>3. ASSUME NEW i \in 1..L
      PROVE  lwipRx[i].ack + lwipRx[i].wnd <= peerEdge'[lwipRx[i].s]
  <2>1. lwipRx[i] \in RxPkt
    BY <1>0, <1>1
  <2>2. lwipRx[i].s \in Sess /\ lwipRx[i].ack \in Nat /\ lwipRx[i].wnd \in Nat
    BY <2>1 DEF RxPkt
  <2>3. lwipRx[i].ack + lwipRx[i].wnd <= peerEdge[lwipRx[i].s]
    BY <1>1 DEF EdgeInv
  <2> QED
    BY <2>2, <2>3, <1>0, <1>1
<1>4. \A i \in 1..(L + 1) : lwipRx'[i].ack + lwipRx'[i].wnd <= peerEdge'[lwipRx'[i].s]
  <2> SUFFICES ASSUME NEW i \in 1..(L + 1)
               PROVE  lwipRx'[i].ack + lwipRx'[i].wnd <= peerEdge'[lwipRx'[i].s]
    OBVIOUS
  <2>1. i \in 1..L \/ i = L + 1
    OBVIOUS
  <2> QED
    BY <2>1, <1>2, <1>3
<1>5. rx.pc = "storeAck" => Head(lwipRx') = Head(lwipRx)
  BY HeadStays
<1> QED
  BY <1>2, <1>4, <1>5 DEF EdgeInv

\* A step that moves no window, no ACK number and no packet.
LEMMA EdgeFrame ==
    ASSUME EdgeInv, UNCHANGED <<lwipRx, rx, tcpSndWnd, realTcpRemoteAckNum, peerEdge>>,
           \A s \in Sess : Answered(s)' = Answered(s)
    PROVE  EdgeInv'
BY DEF EdgeInv

\* A session that was answered stays so, and only the answer makes it so.
LEMMA AnsweredStep ==
    ASSUME "staleAck" \notin Env, TypeInv, AckInv, [Next]_vars
    PROVE  \A s \in Sess :
             \/ Answered(s)' = Answered(s)
             \/ /\ ~Answered(s) /\ conn[s] = "synSent" /\ Answered(s)'
                /\ \E w \in PeerWnds : PeerSynAck(s, w)
<1>0. /\ TypeOK /\ HeadHeld /\ Handshake
      /\ conn \in [Sess -> {"closed", "synSent", "synAcked", "firstAck", "up"}]
  BY DEF TypeInv, TypeOK, AckInv
<1> DEFINE P == \A s \in Sess :
             \/ Answered(s)' = Answered(s)
             \/ /\ ~Answered(s) /\ conn[s] = "synSent" /\ Answered(s)'
                /\ \E w \in PeerWnds : PeerSynAck(s, w)
<1>f. ASSUME UNCHANGED conn PROVE P
  BY <1>f DEF Answered
<1>1. ASSUME NEW s \in Sess, ConnectStep(s) PROVE P
  <2>1. CASE SendSyn(s)
    BY <2>1, <1>0 DEF SendSyn, Answered
  <2>2. ASSUME NEW w \in PeerWnds, PeerSynAck(s, w) PROVE P
    <3>1. conn[s] = "synSent" /\ conn' = [conn EXCEPT ![s] = "synAcked"]
      BY <2>2 DEF PeerSynAck
    <3>2. ~Answered(s) /\ Answered(s)' /\ \A r \in Sess : r # s => Answered(r)' = Answered(r)
      BY <3>1, <1>0 DEF Answered
    <3> QED
      BY <2>2, <3>1, <3>2
  <2>3. CASE ConnectReturn(s)
    BY <2>3, <1>0 DEF ConnectReturn, Answered
  <2> QED
    BY <1>1, <2>1, <2>2, <2>3 DEF ConnectStep
<1>2. ASSUME RxForward PROVE P
  <2>1. lwipRx # <<>> /\ 1 \in 1..Len(lwipRx) /\ Head(lwipRx) = lwipRx[1] /\ Head(lwipRx).s \in Sess
    BY <1>2, <1>0, HeadIsFirst, RxHead DEF RxForward, HeadHeld
  <2>2. PICK r \in Sess : r = Head(lwipRx).s
    BY <2>1
  <2>3. conn[r] \notin {"closed", "synSent"}
    BY <2>1, <2>2, <1>0 DEF Handshake
  <2>4. conn' = [conn EXCEPT ![r] = IF Head(lwipRx).syn /\ exc_active THEN "firstAck" ELSE @]
    BY <1>2, <2>2 DEF RxForward, RxForwardPkt
  <2> QED
    BY <2>3, <2>4, <1>0 DEF Answered
<1>3. ASSUME NEW t \in Thread, AppStep(t) PROVE P
  BY <1>3, <1>f DEF AppStep, PreSendLoadAck, PreSendCheck, PreSendLimit, PreSendCount, FastSend
<1>4. ASSUME NEW t \in Thread, NEW s \in Sess, NEW n \in 1..MAX_PAYLOAD_SIZE,
             PreSendLoadFastPath(t, s, n)
      PROVE  P
  BY <1>4, <1>f DEF PreSendLoadFastPath
<1>5. ASSUME NEW s \in Sess, NEW n \in 1..MAX_PAYLOAD_SIZE, HwFire(s, n) PROVE P
  BY <1>5, <1>f DEF HwFire
<1>6. ASSUME NEW s \in Sess, PeerNext(s) \/ Shutdown(s) \/ LwipNext(s) PROVE P
  BY <1>6, <1>f DEF PeerNext, PeerAckAny, PeerSendAck, StaleAck, Lose, PeerReset, Shutdown, LwipNext,
     LwipOutput, LwipSendFin, LwipRetransmit
<1>7. ASSUME ServNext \/ Stop \/ RxStoreWnd \/ RxStoreAck \/ RxDelay PROVE P
  BY <1>7, <1>f DEF ServNext, ServTake, ServWrite, ServWritten, ServWriteError, ServExit,
     Stop, RxStoreWnd, RxStoreAck, RxDelay, RxTestAhead, RxLoadTx, RxInsertEmptyAck
<1>8. CASE UNCHANGED vars
  BY <1>8, <1>f
<1> QED
  BY <1>1, <1>2, <1>3, <1>4, <1>5, <1>6, <1>7, <1>8 DEF Next, RxNext

\* The window of the packet at the head is stored before its ACK number.
LEMMA EdgeStoreWnd ==
    ASSUME TypeInv, AckInv, EdgeInv, RxStoreWnd PROVE EdgeInv'
<1>0. /\ TypeOK /\ tcpSndWnd \in [Sess -> Nat] /\ peerEdge \in [Sess -> Nat]
      /\ realTcpRemoteAckNum \in [Sess -> Nat]
  BY DEF TypeInv, TypeOK
<1>1. lwipRx # <<>> /\ 1 \in 1..Len(lwipRx) /\ Head(lwipRx) = lwipRx[1]
  BY <1>0, HeadIsFirst DEF RxStoreWnd
<1>2. PICK r \in Sess, a \in Nat, w \in Nat :
        r = Head(lwipRx).s /\ a = Head(lwipRx).ack /\ w = Head(lwipRx).wnd
  BY <1>0, <1>1, RxHead
<1>3. /\ tcpSndWnd' = [tcpSndWnd EXCEPT ![r] = w] /\ rx'.pc = "storeAck"
      /\ UNCHANGED <<conn, lwipRx, realTcpRemoteAckNum, peerEdge>>
  BY <1>2 DEF RxStoreWnd
<1>4. a + w <= peerEdge[r] /\ realTcpRemoteAckNum[r] <= a /\ conn[r] \notin {"closed", "synSent"}
  BY <1>1, <1>2 DEF EdgeInv, AckInv, AckChain, Handshake
<1>5. realTcpRemoteAckNum[r] + w <= peerEdge[r]
  BY <1>4, <1>0
<1>6. tcpSndWnd'[r] = w /\ \A s \in Sess : s # r => tcpSndWnd'[s] = tcpSndWnd[s]
  BY <1>3, <1>0
<1> QED
  BY <1>2, <1>3, <1>4, <1>5, <1>6 DEF EdgeInv, Answered

\* The ACK number that goes with the stored window is no larger than the packet's.
LEMMA EdgeStoreAck ==
    ASSUME TypeInv, AckInv, TrackInv, EdgeInv, RxStoreAck PROVE EdgeInv'
<1>0. /\ TypeOK /\ tcpSndWnd \in [Sess -> Nat] /\ peerEdge \in [Sess -> Nat]
      /\ realTcpRemoteAckNum \in [Sess -> Nat]
  BY DEF TypeInv, TypeOK
<1>1. PICK s \in Sess, r \in Nat, a \in Nat :
        /\ s = Head(lwipRx).s /\ a = Head(lwipRx).ack /\ lwipRx # <<>>
        /\ realTcpRemoteAckNum' = [realTcpRemoteAckNum EXCEPT ![s] = r] /\ r <= a
  BY RealGrows
<1>2. rx.pc = "storeAck" /\ rx'.pc = "delay" /\ UNCHANGED <<conn, lwipRx, tcpSndWnd, peerEdge>>
  BY DEF RxStoreAck
<1>3. PICK w \in Nat : w = Head(lwipRx).wnd
  BY <1>0, <1>1, RxHead
<1>4. a + w <= peerEdge[s] /\ tcpSndWnd[s] = w
  BY <1>0, <1>1, <1>2, <1>3, HeadIsFirst DEF EdgeInv
<1>5. r + tcpSndWnd[s] <= peerEdge[s]
  BY <1>0, <1>1, <1>4
<1>6. realTcpRemoteAckNum'[s] = r
      /\ \A q \in Sess : q # s => realTcpRemoteAckNum'[q] = realTcpRemoteAckNum[q]
  BY <1>0, <1>1
<1>7. \A q \in Sess : Answered(q)' = Answered(q)
  BY <1>2 DEF Answered
<1> QED
  BY <1>2, <1>5, <1>6, <1>7 DEF EdgeInv

\* Every step keeps EdgeInv.
LEMMA EdgeStep ==
    ASSUME "staleAck" \notin Env, TypeInv, TypeInv', AckInv, TrackInv, EdgeInv, [Next]_vars
    PROVE  EdgeInv'
<1>0. /\ TypeOK /\ HeadHeld /\ Handshake
      /\ tcpSndWnd \in [Sess -> Nat] /\ peerEdge \in [Sess -> Nat] /\ peerEdge' \in [Sess -> Nat]
      /\ realTcpRemoteAckNum \in [Sess -> Nat]
      /\ conn \in [Sess -> {"closed", "synSent", "synAcked", "firstAck", "up"}]
      /\ lwipRx \in Seq(RxPkt)
  BY DEF TypeInv, TypeOK, AckInv
<1>a. \A i \in 1..Len(lwipRx) : lwipRx[i].s \in Sess
  BY <1>0, RxEntry
<1>b. \A s \in Sess : Answered(s)' = Answered(s) \/ \E w \in PeerWnds : PeerSynAck(s, w)
  BY AnsweredStep
<1>f. ASSUME UNCHANGED <<conn, lwipRx, rx, tcpSndWnd, realTcpRemoteAckNum, peerEdge>> PROVE EdgeInv'
  <2>1. \A s \in Sess : Answered(s)' = Answered(s)
    BY <1>f DEF Answered
  <2> QED
    BY <2>1, <1>f, EdgeFrame
<1>1. ASSUME NEW s \in Sess, SendSyn(s) PROVE EdgeInv'
  <2>1. /\ conn[s] = "closed" /\ conn' = [conn EXCEPT ![s] = "synSent"]
        /\ realTcpRemoteAckNum' = [realTcpRemoteAckNum EXCEPT ![s] = Base]
        /\ UNCHANGED <<lwipRx, rx, tcpSndWnd, peerEdge>>
    BY <1>1 DEF SendSyn
  <2>2. \A r \in Sess : Answered(r)' = Answered(r)
    BY <2>1, <1>0 DEF Answered
  <2>3. \A r \in Sess : Answered(r) => realTcpRemoteAckNum'[r] = realTcpRemoteAckNum[r]
    BY <2>1, <1>0 DEF Answered
  <2> QED
    BY <2>1, <2>2, <2>3 DEF EdgeInv
<1>2. ASSUME NEW s \in Sess, NEW w \in PeerWnds, PeerSynAck(s, w) PROVE EdgeInv'
  <2>1. /\ conn[s] = "synSent" /\ conn' = [conn EXCEPT ![s] = "synAcked"]
        /\ lwipRx' = Append(lwipRx, [s |-> s, ack |-> Base, wnd |-> w, syn |-> TRUE])
        /\ peerEdge' = [peerEdge EXCEPT ![s] = Base + w]
        /\ UNCHANGED <<rx, tcpSndWnd, realTcpRemoteAckNum>>
    BY <1>2 DEF PeerSynAck
  <2>2. PICK x : x = [s |-> s, ack |-> Base, wnd |-> w, syn |-> TRUE]
    OBVIOUS
  <2>3. x.s = s /\ x.ack = Base /\ x.wnd = w /\ lwipRx' = Append(lwipRx, x)
    BY <2>1, <2>2
  <2>4. Base \in Nat /\ w \in Nat
    BY BaseNat
  <2>5. peerEdge'[s] = Base + w /\ \A r \in Sess : r # s => peerEdge'[r] = peerEdge[r]
    BY <2>1, <1>0
  <2>6. \A i \in 1..Len(lwipRx) : lwipRx[i].s # s
    BY <2>1, <1>0 DEF Handshake
  <2>7. \A i \in 1..Len(lwipRx) : peerEdge[lwipRx[i].s] <= peerEdge'[lwipRx[i].s]
    BY <2>5, <2>6, <1>a, <1>0
  <2>8. x.ack + x.wnd <= peerEdge'[x.s]
    BY <2>3, <2>4, <2>5
  <2>9. /\ \A i \in 1..Len(lwipRx') : lwipRx'[i].ack + lwipRx'[i].wnd <= peerEdge'[lwipRx'[i].s]
        /\ rx'.pc = "storeAck" => tcpSndWnd'[Head(lwipRx').s] = Head(lwipRx').wnd
    BY <2>1, <2>3, <2>7, <2>8, <1>0, EdgeAppend
  <2>10. realTcpRemoteAckNum[s] = Base /\ tcpSndWnd[s] = 0
    BY <2>1, <1>0 DEF Handshake, EdgeInv, Answered
  <2>11. realTcpRemoteAckNum'[s] + tcpSndWnd'[s] <= peerEdge'[s]
    BY <2>1, <2>4, <2>5, <2>10
  <2>12. Answered(s)' /\ \A r \in Sess : r # s => Answered(r)' = Answered(r)
    BY <2>1, <1>0 DEF Answered
  <2> QED
    BY <2>1, <2>5, <2>9, <2>11, <2>12 DEF EdgeInv
<1>3. ASSUME NEW s \in Sess, ConnectReturn(s) PROVE EdgeInv'
  <2>1. \A r \in Sess : Answered(r)' = Answered(r)
    BY <1>3, <1>0 DEF ConnectReturn, Answered
  <2> QED
    BY <2>1, <1>3, EdgeFrame DEF ConnectReturn
<1>4. ASSUME NEW s \in Sess, PeerAckAny(s) PROVE EdgeInv'
  <2>1. PICK a \in peerAck[s]..PeerGot(s), w \in PeerWnds : PeerSendAck(s, a, w)
    BY <1>4 DEF PeerAckAny
  <2>2. /\ lwipRx' = Append(lwipRx, [s |-> s, ack |-> a, wnd |-> w, syn |-> FALSE])
        /\ peerEdge' = [peerEdge EXCEPT ![s] = a + w] /\ a + w >= peerEdge[s]
        /\ UNCHANGED <<conn, rx, tcpSndWnd, realTcpRemoteAckNum>>
    BY <2>1 DEF PeerSendAck, PeerSend
  <2>3. PICK x : x = [s |-> s, ack |-> a, wnd |-> w, syn |-> FALSE]
    OBVIOUS
  <2>4. x.s = s /\ x.ack = a /\ x.wnd = w /\ lwipRx' = Append(lwipRx, x)
    BY <2>2, <2>3
  <2>5. peerEdge'[s] = a + w /\ \A r \in Sess : r # s => peerEdge'[r] = peerEdge[r]
    BY <2>2, <1>0
  <2>6. \A r \in Sess : peerEdge[r] <= peerEdge'[r] /\ peerEdge'[r] \in Nat
    BY <2>2, <2>5, <1>0
  <2>7. \A i \in 1..Len(lwipRx) : peerEdge[lwipRx[i].s] <= peerEdge'[lwipRx[i].s]
    BY <2>6, <1>a
  <2>8. x.ack + x.wnd <= peerEdge'[x.s]
    BY <2>4, <2>5, <2>6
  <2>9. /\ \A i \in 1..Len(lwipRx') : lwipRx'[i].ack + lwipRx'[i].wnd <= peerEdge'[lwipRx'[i].s]
        /\ rx'.pc = "storeAck" => tcpSndWnd'[Head(lwipRx').s] = Head(lwipRx').wnd
    BY <2>2, <2>4, <2>7, <2>8, <1>0, EdgeAppend
  <2>10. \A r \in Sess : Answered(r)' = Answered(r)
    BY <2>2 DEF Answered
  <2>11. ASSUME NEW r \in Sess, Answered(r)
         PROVE  realTcpRemoteAckNum'[r] + tcpSndWnd'[r] <= peerEdge'[r]
    <3>1. realTcpRemoteAckNum[r] + tcpSndWnd[r] <= peerEdge[r]
      BY <2>11 DEF EdgeInv
    <3>2. PICK k \in Nat, l \in Nat, m \in Nat, q \in Nat :
            k = realTcpRemoteAckNum[r] /\ l = tcpSndWnd[r] /\ m = peerEdge[r] /\ q = peerEdge'[r]
      BY <1>0
    <3>3. k + l <= m /\ m <= q
      BY <3>1, <3>2, <2>6
    <3> QED
      BY <3>2, <3>3, <2>2
  <2> QED
    BY <2>2, <2>9, <2>10, <2>11 DEF EdgeInv
<1>5. ASSUME RxForward PROVE EdgeInv'
  <2>1. lwipRx # <<>> /\ lwipRx' = Tail(lwipRx) /\ rx'.pc = "idle"
        /\ UNCHANGED <<tcpSndWnd, realTcpRemoteAckNum, peerEdge>>
    BY <1>5, <1>0 DEF RxForward, RxForwardPkt, HeadHeld, Idle
  <2>2. \A i \in 1..Len(lwipRx') : i + 1 \in 1..Len(lwipRx) /\ lwipRx'[i] = lwipRx[i + 1]
    BY <2>1, <1>0
  <2>3. \A s \in Sess : Answered(s)' = Answered(s)
    <3>1. rx.pc = "delay" /\ rx' # rx
      BY <1>5, <2>1 DEF RxForward
    <3> QED
      BY <1>b, <3>1 DEF PeerSynAck
  <2> QED
    BY <2>1, <2>2, <2>3 DEF EdgeInv
<1>6. ASSUME NEW t \in Thread, AppStep(t) PROVE EdgeInv'
  BY <1>6, <1>f DEF AppStep, PreSendLoadAck, PreSendCheck, PreSendLimit, PreSendCount, FastSend
<1>7. ASSUME NEW t \in Thread, NEW s \in Sess, NEW n \in 1..MAX_PAYLOAD_SIZE,
             PreSendLoadFastPath(t, s, n)
      PROVE  EdgeInv'
  BY <1>7, <1>f DEF PreSendLoadFastPath
<1>8. ASSUME NEW s \in Sess, NEW n \in 1..MAX_PAYLOAD_SIZE, HwFire(s, n) PROVE EdgeInv'
  BY <1>8, <1>f DEF HwFire
<1>9. ASSUME NEW s \in Sess, Lose(s) \/ PeerReset(s) \/ Shutdown(s) \/ LwipNext(s)
      PROVE  EdgeInv'
  BY <1>9, <1>f DEF Lose, PeerReset, Shutdown, LwipNext, LwipOutput, LwipSendFin, LwipRetransmit
<1>10. ASSUME ServNext \/ Stop PROVE EdgeInv'
  BY <1>10, <1>f DEF ServNext, ServTake, ServWrite, ServWritten, ServWriteError, ServExit, Stop
<1>13. ASSUME RxDelay PROVE EdgeInv'
  BY <1>13, <1>0, DelayStays DEF EdgeInv, Answered
<1>11. CASE UNCHANGED vars
  BY <1>11, <1>f
<1>12. ASSUME NEW s \in Sess, PeerNext(s) PROVE EdgeInv'
  BY <1>12, <1>4, <1>9 DEF PeerNext, StaleAck
<1> QED
  BY <1>1, <1>2, <1>3, <1>5, <1>6, <1>7, <1>8, <1>9, <1>10, <1>11, <1>12, <1>13, EdgeStoreWnd, EdgeStoreAck
     DEF Next, RxNext, ConnectStep

\* In the beginning nothing was sent.
LEMMA LagInit == Init => LagInv
<1> SUFFICES ASSUME Init, NEW s \in Sess PROVE Quiet(s) /\ Lagging(s)
  BY DEF LagInv
<1>1. Quiet(s)
  BY DEF Init, Quiet, Idle
<1>2. Sending(s) = {}
  BY DEF Init, Sending, Idle
<1>3. SetTotal(Sending(s), Sizes, 0)
  BY <1>2, SetTotalEmpty
<1>4. wire[s] + 0 <= realFastPathBytes[s] + fired[s]
  BY DEF Init
<1> QED
  BY <1>1, <1>3, <1>4 DEF Lagging

\* A step that neither counts, sends nor moves a thread that sends.
LEMMA LagFrame ==
    ASSUME TypeOK, NEW s \in Sess, Lagging(s), Sending(s)' = Sending(s),
           \A t \in Sending(s) : Sizes'[t] = Sizes[t],
           wire'[s] - fired'[s] <= wire[s] - fired[s],
           realFastPathBytes[s] <= realFastPathBytes'[s],
           wire'[s] \in Nat, fired'[s] \in Nat, realFastPathBytes'[s] \in Nat
    PROVE  Lagging(s)'
<1>1. PICK y \in Nat : SetTotal(Sending(s), Sizes, y)
                       /\ wire[s] + y <= realFastPathBytes[s] + fired[s]
  BY DEF Lagging
<1>2. SetTotal(Sending(s)', Sizes', y)
  BY <1>1, SetTotalSame
<1>3. wire[s] \in Nat /\ fired[s] \in Nat /\ realFastPathBytes[s] \in Nat
  BY DEF TypeOK
<1>4. wire'[s] + y <= realFastPathBytes'[s] + fired'[s]
  BY <1>1, <1>3
<1> QED
  BY <1>2, <1>4 DEF Lagging

\* What a step of preSendCheck() does to the thread that takes it.
LEMMA AppMoves ==
    ASSUME TypeOK, NEW t \in Thread, AppStep(t)
    PROVE  LET s == app[t].s
               n == app[t].n IN
           /\ app[t].pc # "idle" /\ s \in Sess /\ n \in 1..MAX_PAYLOAD_SIZE
           /\ \A u \in Thread : u # t => app'[u] = app[u]
           /\ UNCHANGED <<conn, fired>>
           /\ \/ /\ app'[t].pc # "idle" /\ app'[t].s = s /\ app'[t].n = n
                 /\ wire' = wire
              \/ /\ app'[t].pc = "idle" /\ app[t].pc \in {"check", "limit"} /\ wire' = wire
              \/ /\ app'[t].pc = "idle" /\ app[t].pc = "send"
                 /\ wire' = [wire EXCEPT ![s] = @ + n]
<1>1. app \in [Thread -> AppState] /\ app[t] \in AppState
  BY DEF TypeOK
<1>2. app[t].pc # "idle" /\ UNCHANGED <<conn, fired>>
  BY DEF AppStep, PreSendLoadAck, PreSendCheck, PreSendLimit, PreSendCount, FastSend
<1>3. app[t].s \in Sess /\ app[t].n \in 1..MAX_PAYLOAD_SIZE
  BY <1>2, AppFields
<1>4. \A u \in Thread : u # t => app'[u] = app[u]
  BY <1>1 DEF AppStep, PreSendLoadAck, PreSendCheck, PreSendLimit, PreSendCount, FastSend
<1>5. CASE PreSendLoadAck(t)
  <2>1. app'[t] = [pc |-> "check", s |-> app[t].s, n |-> app[t].n,
                   unAcked |-> Positive(app[t].fast - realTcpRemoteAckNum[app[t].s])]
        /\ wire' = wire
    BY <1>1, <1>5 DEF PreSendLoadAck
  <2> QED
    BY <2>1, <1>2, <1>3, <1>4
<1>6. CASE PreSendCheck(t)
  <2>1. CASE Throttled(app[t].s, app[t].n, app[t].unAcked)
    <3>1. app'[t] = Idle /\ wire' = wire /\ app[t].pc = "check"
      BY <2>1, <1>1, <1>6 DEF PreSendCheck
    <3> QED
      BY <3>1, <1>2, <1>3, <1>4 DEF Idle
  <2>2. CASE ~Throttled(app[t].s, app[t].n, app[t].unAcked)
    <3>1. app'[t] = [pc |-> "limit", s |-> app[t].s, n |-> app[t].n,
                     fast |-> globalFastPathBytes] /\ wire' = wire
      BY <2>2, <1>1, <1>6 DEF PreSendCheck
    <3> QED
      BY <3>1, <1>2, <1>3, <1>4
  <2> QED
    BY <2>1, <2>2
<1>9. CASE PreSendLimit(t)
  <2>1. CASE FpgaBusy(app[t].fast)
    <3>1. app'[t] = Idle /\ wire' = wire /\ app[t].pc = "limit"
      BY <2>1, <1>1, <1>9 DEF PreSendLimit
    <3> QED
      BY <3>1, <1>2, <1>3, <1>4 DEF Idle
  <2>2. CASE ~FpgaBusy(app[t].fast)
    <3>1. app'[t] = [pc |-> "count", s |-> app[t].s, n |-> app[t].n] /\ wire' = wire
      BY <2>2, <1>1, <1>9 DEF PreSendLimit
    <3> QED
      BY <3>1, <1>2, <1>3, <1>4
  <2> QED
    BY <2>1, <2>2
<1>7. CASE PreSendCount(t)
  <2>1. app'[t] = [app[t] EXCEPT !.pc = "send"] /\ wire' = wire
    BY <1>1, <1>7 DEF PreSendCount
  <2>2. app'[t].pc = "send" /\ app'[t].s = app[t].s /\ app'[t].n = app[t].n
    BY <2>1, <1>1, <1>2 DEF AppState, Idle
  <2> QED
    BY <2>1, <2>2, <1>2, <1>3, <1>4
<1>8. CASE FastSend(t)
  <2>1. app'[t] = Idle /\ app[t].pc = "send" /\ wire' = [wire EXCEPT ![app[t].s] = @ + app[t].n]
    BY <1>1, <1>8 DEF FastSend, FpgaSend
  <2> QED
    BY <2>1, <1>2, <1>3, <1>4 DEF Idle
<1> QED
  BY <1>5, <1>6, <1>7, <1>8, <1>9 DEF AppStep

\* And the first load.
LEMMA AppLoads ==
    ASSUME TypeOK, NEW t \in Thread, NEW s \in Sess, NEW n \in 1..MAX_PAYLOAD_SIZE,
           PreSendLoadFastPath(t, s, n)
    PROVE  /\ app[t].pc = "idle" /\ conn[s] = "up"
           /\ app'[t].pc = "loadAck" /\ app'[t].s = s /\ app'[t].n = n
           /\ app'[t].fast = realFastPathBytes[s]
           /\ \A u \in Thread : u # t => app'[u] = app[u]
           /\ UNCHANGED <<conn, fired, wire, realFastPathBytes, realTcpRemoteAckNum, peerEdge>>
<1>1. app \in [Thread -> AppState]
  BY DEF TypeOK
<1>2. app'[t] = [pc |-> "loadAck", s |-> s, n |-> n, fast |-> realFastPathBytes[s]]
  BY <1>1 DEF PreSendLoadFastPath
<1>3. \A u \in Thread : u # t => app'[u] = app[u]
  BY <1>1 DEF PreSendLoadFastPath
<1> QED
  BY <1>2, <1>3 DEF PreSendLoadFastPath

\* A session that is not answered yet stays quiet.
LEMMA QuietFrame ==
    ASSUME \A s \in Sess : Quiet(s),
           \A s \in Sess : ~Answered(s)' => ~Answered(s) /\ fired'[s] = fired[s],
           \A s \in Sess : conn'[s] = "synSent" => wire'[s] = Base,
           \A t \in Thread : app'[t].pc # "idle" =>
             \/ Answered(app[t].s)'
             \/ app[t].pc # "idle" /\ app'[t].s = app[t].s
    PROVE  \A s \in Sess : Quiet(s)'
BY DEF Quiet, Answered

\* Every step keeps the sessions that are not answered quiet.
LEMMA QuietStep ==
    ASSUME "staleAck" \notin Env, TypeInv, AckInv, \A s \in Sess : Quiet(s), [Next]_vars
    PROVE  \A s \in Sess : Quiet(s)'
<1>0. /\ TypeOK /\ wire \in [Sess -> Nat] /\ fired \in [Sess -> Nat]
      /\ conn \in [Sess -> {"closed", "synSent", "synAcked", "firstAck", "up"}]
  BY DEF TypeInv, TypeOK
<1>a. \A s \in Sess : Answered(s)' = Answered(s) \/ ~Answered(s)
  BY AnsweredStep
<1>b. \A s \in Sess : ~Answered(s)' => ~Answered(s)
  BY <1>a
<1>c. \A s \in Sess : conn[s] = "synSent" => wire[s] = Base
  BY DEF Quiet, Answered
<1>d. \A t \in Thread : app[t].pc # "idle" => app[t].s \in Sess
  BY <1>0, AppFields
<1>f. ASSUME UNCHANGED <<app, wire, fired>>, \A s \in Sess : conn'[s] = "synSent" => conn[s] = "synSent"
      PROVE  \A s \in Sess : Quiet(s)'
  BY <1>b, <1>c, <1>d, <1>f, QuietFrame
<1>1. ASSUME NEW s \in Sess, SendSyn(s) PROVE \A r \in Sess : Quiet(r)'
  <2>1. /\ conn' = [conn EXCEPT ![s] = "synSent"] /\ wire' = [wire EXCEPT ![s] = Base]
        /\ UNCHANGED <<app, fired>>
    BY <1>1 DEF SendSyn
  <2>2. \A r \in Sess : conn'[r] = "synSent" => wire'[r] = Base
    BY <2>1, <1>0, <1>c
  <2> QED
    BY <2>1, <2>2, <1>b, QuietFrame
<1>2. ASSUME NEW t \in Thread, AppStep(t) PROVE \A r \in Sess : Quiet(r)'
  <2>1. PICK s \in Sess, n \in 1..MAX_PAYLOAD_SIZE :
          /\ app[t].pc # "idle" /\ s = app[t].s /\ UNCHANGED <<conn, fired>>
          /\ \A u \in Thread : u # t => app'[u] = app[u]
          /\ app'[t].pc # "idle" => app'[t].s = s
          /\ wire' = wire \/ wire' = [wire EXCEPT ![s] = @ + n]
    BY <1>0, <1>2, AppMoves
  <2>2. Answered(s)
    BY <2>1 DEF Quiet
  <2>3. \A r \in Sess : conn'[r] = "synSent" => wire'[r] = Base
    BY <2>1, <2>2, <1>0, <1>c DEF Answered
  <2>4. \A r \in Sess : ~Answered(r)' => ~Answered(r) /\ fired'[r] = fired[r]
    BY <2>1, <1>b
  <2>5. \A u \in Thread : app'[u].pc # "idle" => app[u].pc # "idle" /\ app'[u].s = app[u].s
    BY <2>1
  <2> QED
    BY <2>3, <2>4, <2>5, QuietFrame
<1>3. ASSUME NEW t \in Thread, NEW s \in Sess, NEW n \in 1..MAX_PAYLOAD_SIZE,
             PreSendLoadFastPath(t, s, n)
      PROVE  \A r \in Sess : Quiet(r)'
  <2>1. /\ conn[s] = "up" /\ app'[t].s = s /\ UNCHANGED <<conn, fired, wire>>
        /\ \A u \in Thread : u # t => app'[u] = app[u]
    BY <1>0, <1>3, AppLoads
  <2>2. Answered(app[t].s)'
    BY <2>1 DEF Answered
  <2>3. \A u \in Thread : app'[u].pc # "idle" =>
             \/ Answered(app[u].s)'
             \/ app[u].pc # "idle" /\ app'[u].s = app[u].s
    BY <2>1, <2>2
  <2>4. \A r \in Sess : ~Answered(r)' => ~Answered(r) /\ fired'[r] = fired[r]
    BY <2>1, <1>b
  <2>5. \A r \in Sess : conn'[r] = "synSent" => wire'[r] = Base
    BY <2>1, <1>c
  <2> QED
    BY <2>3, <2>4, <2>5, QuietFrame
<1>4. ASSUME NEW s \in Sess, NEW n \in 1..MAX_PAYLOAD_SIZE, HwFire(s, n)
      PROVE  \A r \in Sess : Quiet(r)'
  <2>1. conn[s] = "up" /\ UNCHANGED <<app, conn>>
    BY <1>4 DEF HwFire
  <2>2. \A r \in Sess : r # s => wire'[r] = wire[r] /\ fired'[r] = fired[r]
    BY <1>4, <1>0 DEF HwFire, FpgaSend
  <2>3. \A r \in Sess : ~Answered(r)' => ~Answered(r) /\ fired'[r] = fired[r]
    BY <2>1, <2>2 DEF Answered
  <2>4. \A r \in Sess : conn'[r] = "synSent" => wire'[r] = Base
    BY <2>1, <2>2, <1>c
  <2> QED
    BY <2>1, <2>3, <2>4, QuietFrame
<1>5. ASSUME RxForward PROVE \A r \in Sess : Quiet(r)'
  BY <1>5, <1>f, <1>0 DEF RxForward, RxForwardPkt
<1>6. ASSUME NEW s \in Sess, NEW w \in PeerWnds, PeerSynAck(s, w) PROVE \A r \in Sess : Quiet(r)'
  BY <1>6, <1>f, <1>0 DEF PeerSynAck
<1>7. ASSUME NEW s \in Sess, ConnectReturn(s) PROVE \A r \in Sess : Quiet(r)'
  BY <1>7, <1>f, <1>0 DEF ConnectReturn
<1>8. ASSUME NEW s \in Sess, PeerNext(s) \/ Shutdown(s) \/ LwipNext(s) PROVE \A r \in Sess : Quiet(r)'
  BY <1>8, <1>f DEF PeerNext, PeerAckAny, PeerSendAck, StaleAck, Lose, PeerReset, Shutdown, LwipNext,
     LwipOutput, LwipSendFin, LwipRetransmit
<1>9. ASSUME ServNext \/ Stop \/ RxStoreWnd \/ RxStoreAck \/ RxDelay
      PROVE  \A r \in Sess : Quiet(r)'
  BY <1>9, <1>f DEF ServNext, ServTake, ServWrite, ServWritten, ServWriteError, ServExit,
     Stop, RxStoreWnd, RxStoreAck, RxDelay, RxTestAhead, RxLoadTx, RxInsertEmptyAck
<1>10. CASE UNCHANGED vars
  BY <1>10, <1>f
<1> QED
  BY <1>1, <1>2, <1>3, <1>4, <1>5, <1>6, <1>7, <1>8, <1>9, <1>10 DEF Next, RxNext, ConnectStep

\* preSendCheck() counts what the thread is about to send.
LEMMA LagCount ==
    ASSUME TypeOK, \A r \in Sess : Lagging(r), NEW t \in Thread, PreSendCount(t)
    PROVE  \A r \in Sess : Lagging(r)'
<1> SUFFICES ASSUME NEW r \in Sess PROVE Lagging(r)'
  OBVIOUS
<1>1. PICK s \in Sess, n \in 1..MAX_PAYLOAD_SIZE : s = app[t].s /\ n = app[t].n
  BY AppFields DEF PreSendCount
<1>2. AppStep(t) /\ app[t].pc = "count"
  BY DEF AppStep, PreSendCount
<1>3. /\ \A u \in Thread : u # t => app'[u] = app[u]
      /\ app'[t].s = s /\ app'[t].n = n /\ wire' = wire /\ fired' = fired
  BY <1>1, <1>2, AppMoves DEF PreSendCount
<1>4. app'[t].pc = "send"
  BY <1>1 DEF PreSendCount, TypeOK
<1>5. realFastPathBytes' = [realFastPathBytes EXCEPT ![s] = @ + n]
  BY <1>1 DEF PreSendCount
<1>6. realFastPathBytes \in [Sess -> Nat] /\ wire \in [Sess -> Nat] /\ fired \in [Sess -> Nat]
  BY DEF TypeOK
<1>7. CASE r # s
  <2>1. Sending(r)' = Sending(r) /\ \A u \in Sending(r) : Sizes'[u] = Sizes[u]
    BY <1>7, <1>1, <1>2, <1>3, <1>4 DEF Sending, Sizes
  <2>2. realFastPathBytes'[r] = realFastPathBytes[r]
    BY <1>5, <1>6, <1>7
  <2> QED
    BY <2>1, <2>2, <1>3, <1>6, LagFrame
<1>8. CASE r = s
  <2>1. PICK y \in Nat : SetTotal(Sending(r), Sizes, y)
                         /\ wire[r] + y <= realFastPathBytes[r] + fired[r]
    BY DEF Lagging
  <2>2. Sending(r)' = Sending(r) \cup {t} /\ t \notin Sending(r)
    BY <1>8, <1>1, <1>2, <1>3, <1>4 DEF Sending
  <2>3. ASSUME NEW u \in Sending(r) PROVE Sizes'[u] = Sizes[u] /\ Sizes'[u] \in Nat
    <3>1. u \in Thread /\ app[u].pc # "idle" /\ u # t
      BY <1>2 DEF Sending
    <3> QED
      BY <3>1, <1>3, AppFields DEF Sizes
  <2>4. Sizes'[t] = n /\ Sizes'[t] \in Nat
    BY <1>3 DEF Sizes
  <2>a. \A u \in Sending(r) : Sizes'[u] = Sizes[u] /\ Sizes'[u] \in Nat
    BY <2>3
  <2>b. SetTotal(Sending(r) \cup {t}, Sizes', y + Sizes'[t])
    BY <2>1, <2>2, <2>a, <2>4, SetTotalAdd
  <2>5. SetTotal(Sending(r) \cup {t}, Sizes', y + n)
    BY <2>b, <2>4
  <2>6. realFastPathBytes'[r] = realFastPathBytes[r] + n
    BY <1>5, <1>6, <1>8
  <2>7. PICK a \in Nat, b \in Nat, c \in Nat : a = wire[r] /\ b = realFastPathBytes[r] /\ c = fired[r]
    BY <1>6
  <2>8. a + (y + n) <= (b + n) + c /\ y + n \in Nat
    BY <2>1, <2>7
  <2>9. wire'[r] + (y + n) <= realFastPathBytes'[r] + fired'[r]
    BY <2>6, <2>7, <2>8, <1>3
  <2> QED
    BY <2>2, <2>5, <2>8, <2>9 DEF Lagging
<1> QED
  BY <1>7, <1>8

\* fastSend(): the bytes of the thread are on the wire.
LEMMA LagSend ==
    ASSUME TypeOK, \A r \in Sess : Lagging(r), NEW t \in Thread, FastSend(t)
    PROVE  \A r \in Sess : Lagging(r)'
<1> SUFFICES ASSUME NEW r \in Sess PROVE Lagging(r)'
  OBVIOUS
<1>1. PICK s \in Sess, n \in 1..MAX_PAYLOAD_SIZE : s = app[t].s /\ n = app[t].n
  BY AppFields DEF FastSend
<1>2. AppStep(t) /\ app[t].pc = "send"
  BY DEF AppStep, FastSend
<1>3. /\ \A u \in Thread : u # t => app'[u] = app[u]
      /\ fired' = fired
  BY <1>1, <1>2, AppMoves
<1>4. app'[t].pc = "idle"
  BY DEF FastSend, TypeOK, Idle
<1>5. wire' = [wire EXCEPT ![s] = @ + n] /\ realFastPathBytes' = realFastPathBytes
  BY <1>1 DEF FastSend, FpgaSend
<1>6. realFastPathBytes \in [Sess -> Nat] /\ wire \in [Sess -> Nat] /\ fired \in [Sess -> Nat]
  BY DEF TypeOK
<1>7. CASE r # s
  <2>1. Sending(r)' = Sending(r) /\ \A u \in Sending(r) : Sizes'[u] = Sizes[u]
    BY <1>7, <1>1, <1>2, <1>3, <1>4 DEF Sending, Sizes
  <2>2. wire'[r] = wire[r]
    BY <1>5, <1>6, <1>7
  <2> QED
    BY <2>1, <2>2, <1>3, <1>5, <1>6, LagFrame
<1>8. CASE r = s
  <2>1. PICK y \in Nat : SetTotal(Sending(r), Sizes, y)
                         /\ wire[r] + y <= realFastPathBytes[r] + fired[r]
    BY DEF Lagging
  <2>2. Sending(r)' = Sending(r) \ {t} /\ t \in Sending(r)
    BY <1>8, <1>1, <1>2, <1>3, <1>4 DEF Sending
  <2>3. \A u \in Sending(r) : u # t => Sizes'[u] = Sizes[u]
    BY <1>3 DEF Sizes, Sending
  <2>4. Sizes[t] = n /\ Sizes[t] \in Nat
    BY <1>1 DEF Sizes
  <2>a. y - Sizes[t] \in Nat /\ SetTotal(Sending(r) \ {t}, Sizes', y - Sizes[t])
    BY <2>1, <2>2, <2>3, <2>4, SetTotalRemove
  <2>5. y - n \in Nat /\ SetTotal(Sending(r) \ {t}, Sizes', y - n)
    BY <2>a, <2>4
  <2>6. wire'[r] = wire[r] + n
    BY <1>5, <1>6, <1>8
  <2>7. PICK a \in Nat, b \in Nat, c \in Nat : a = wire[r] /\ b = realFastPathBytes[r] /\ c = fired[r]
    BY <1>6
  <2>8. (a + n) + (y - n) <= b + c
    BY <2>1, <2>7
  <2>9. wire'[r] + (y - n) <= realFastPathBytes'[r] + fired'[r]
    BY <2>6, <2>7, <2>8, <1>3, <1>5
  <2> QED
    BY <2>2, <2>5, <2>9 DEF Lagging
<1> QED
  BY <1>7, <1>8

\* Every step keeps LagInv.
LEMMA LagStep ==
    ASSUME "staleAck" \notin Env, TypeInv, TypeInv', AckInv, LagInv, [Next]_vars
    PROVE  LagInv'
<1>0. /\ TypeOK /\ wire \in [Sess -> Nat] /\ fired \in [Sess -> Nat] /\ realFastPathBytes \in [Sess -> Nat]
      /\ wire' \in [Sess -> Nat] /\ fired' \in [Sess -> Nat] /\ realFastPathBytes' \in [Sess -> Nat]
  BY DEF TypeInv, TypeOK
<1>a. \A r \in Sess : Quiet(r)'
  BY QuietStep DEF LagInv
<1>b. \A r \in Sess : Lagging(r)
  BY DEF LagInv
<1>f. ASSUME UNCHANGED app,
             \A r \in Sess : wire'[r] - fired'[r] <= wire[r] - fired[r]
                             /\ realFastPathBytes[r] <= realFastPathBytes'[r]
      PROVE  LagInv'
  <2>1. \A r : Sending(r)' = Sending(r) /\ Sizes' = Sizes
    BY <1>f DEF Sending, Sizes
  <2>2. \A r \in Sess : Lagging(r)'
    BY <2>1, <1>0, <1>b, <1>f, LagFrame
  <2> QED
    BY <2>2, <1>a DEF LagInv
<1>g. ASSUME UNCHANGED <<app, wire, fired, realFastPathBytes>> PROVE LagInv'
  <2>1. \A r \in Sess : wire'[r] - fired'[r] <= wire[r] - fired[r]
                        /\ realFastPathBytes[r] <= realFastPathBytes'[r]
    BY <1>0, <1>g
  <2> QED
    BY <2>1, <1>f, <1>g
<1>1. ASSUME NEW s \in Sess, SendSyn(s) PROVE LagInv'
  <2>1. /\ wire' = [wire EXCEPT ![s] = Base] /\ conn[s] = "closed"
        /\ realFastPathBytes' = [realFastPathBytes EXCEPT ![s] = Base] /\ UNCHANGED <<app, fired>>
    BY <1>1 DEF SendSyn
  <2>2. Sending(s)' = {}
    BY <2>1 DEF LagInv, Quiet, Answered, Sending
  <2>3. SetTotal(Sending(s)', Sizes', 0)
    BY <2>2, SetTotalEmpty
  <2>4. wire'[s] = Base /\ realFastPathBytes'[s] = Base /\ Base \in Nat /\ fired'[s] \in Nat
    BY <2>1, <1>0, BaseNat
  <2>5. wire'[s] + 0 <= realFastPathBytes'[s] + fired'[s]
    BY <2>4
  <2>6. Lagging(s)'
    BY <2>3, <2>5 DEF Lagging
  <2>7. ASSUME NEW r \in Sess, r # s PROVE Lagging(r)'
    <3>1. wire'[r] = wire[r] /\ realFastPathBytes'[r] = realFastPathBytes[r] /\ fired'[r] = fired[r]
      BY <2>1, <2>7, <1>0
    <3>2. Sending(r)' = Sending(r) /\ Sizes' = Sizes
      BY <2>1 DEF Sending, Sizes
    <3> QED
      BY <3>1, <3>2, <1>0, <1>b, LagFrame
  <2> QED
    BY <2>6, <2>7, <1>a DEF LagInv
<1>2. ASSUME NEW t \in Thread, AppStep(t) PROVE LagInv'
  <2>1. CASE PreSendCount(t)
    BY <2>1, <1>0, <1>a, <1>b, LagCount DEF LagInv
  <2>2. CASE FastSend(t)
    BY <2>2, <1>0, <1>a, <1>b, LagSend DEF LagInv
  <2>3. CASE PreSendLoadAck(t) \/ PreSendCheck(t) \/ PreSendLimit(t)
    <3>1. /\ \A u \in Thread : u # t => app'[u] = app[u]
          /\ app[t].pc # "send" /\ UNCHANGED <<wire, fired, realFastPathBytes>>
      BY <2>3, <1>0, <1>2, AppMoves DEF PreSendLoadAck, PreSendCheck, PreSendLimit
    <3>a. app \in [Thread -> AppState]
      BY <1>0 DEF TypeOK
    <3>2. app'[t].pc # "send"
      <4>1. CASE PreSendLoadAck(t)
        BY <4>1, <3>a DEF PreSendLoadAck
      <4>2. CASE PreSendCheck(t)
        <5>1. app'[t] = IF Throttled(app[t].s, app[t].n, app[t].unAcked)
                        THEN Idle ELSE [pc |-> "limit", s |-> app[t].s, n |-> app[t].n,
                                        fast |-> globalFastPathBytes]
          BY <4>2, <3>a DEF PreSendCheck
        <5> QED
          BY <5>1 DEF Idle
      <4>3. CASE PreSendLimit(t)
        <5>1. app'[t] = IF FpgaBusy(app[t].fast)
                        THEN Idle ELSE [pc |-> "count", s |-> app[t].s, n |-> app[t].n]
          BY <4>3, <3>a DEF PreSendLimit
        <5> QED
          BY <5>1 DEF Idle
      <4> QED
        BY <2>3, <4>1, <4>2, <4>3
    <3>3. ASSUME NEW r \in Sess PROVE Lagging(r)'
      <4>1. Sending(r)' = Sending(r) /\ \A u \in Sending(r) : Sizes'[u] = Sizes[u]
        BY <3>1, <3>2 DEF Sending, Sizes
      <4> QED
        BY <4>1, <3>1, <1>0, <1>b, LagFrame
    <3> QED
      BY <3>3, <1>a DEF LagInv
  <2> QED
    BY <1>2, <2>1, <2>2, <2>3 DEF AppStep
<1>3. ASSUME NEW t \in Thread, NEW s \in Sess, NEW n \in 1..MAX_PAYLOAD_SIZE,
             PreSendLoadFastPath(t, s, n)
      PROVE  LagInv'
  <2>1. /\ \A u \in Thread : u # t => app'[u] = app[u]
        /\ app[t].pc = "idle" /\ app'[t].pc = "loadAck" /\ UNCHANGED <<wire, fired, realFastPathBytes>>
    BY <1>0, <1>3, AppLoads
  <2>2. ASSUME NEW r \in Sess PROVE Lagging(r)'
    <3>1. Sending(r)' = Sending(r) /\ \A u \in Sending(r) : Sizes'[u] = Sizes[u]
      BY <2>1 DEF Sending, Sizes
    <3> QED
      BY <3>1, <2>1, <1>0, <1>b, LagFrame
  <2> QED
    BY <2>2, <1>a DEF LagInv
<1>4. ASSUME NEW s \in Sess, NEW n \in 1..MAX_PAYLOAD_SIZE, HwFire(s, n) PROVE LagInv'
  <2>1. /\ fired' = [fired EXCEPT ![s] = @ + n] /\ UNCHANGED <<app, realFastPathBytes>>
        /\ wire' = [wire EXCEPT ![s] = IF ReportOnly THEN @ ELSE @ + n]
    BY <1>4 DEF HwFire, FpgaSend
  <2>2. \A r \in Sess : wire'[r] - fired'[r] <= wire[r] - fired[r]
                        /\ realFastPathBytes[r] <= realFastPathBytes'[r]
    BY <2>1, <1>0
  <2> QED
    BY <2>1, <2>2, <1>f
<1>5. ASSUME ServTake PROVE LagInv'
  <2>1. UNCHANGED <<app, wire, fired>>
        /\ \/ UNCHANGED realFastPathBytes
           \/ epmFeedback # <<>> /\ realFastPathBytes' =
                [realFastPathBytes EXCEPT ![Head(epmFeedback).s] = @ + HwBytes(Head(epmFeedback))]
    BY <1>5 DEF ServTake
  <2>2. epmFeedback # <<>> => Head(epmFeedback).s \in Sess /\ HwBytes(Head(epmFeedback)) \in Nat
    BY <1>0, FeedbackHead DEF HwBytes
  <2>3. ASSUME NEW r \in Sess PROVE realFastPathBytes[r] <= realFastPathBytes'[r]
    <3>1. realFastPathBytes[r] \in Nat
      BY <1>0
    <3>2. CASE UNCHANGED realFastPathBytes
      BY <3>1, <3>2
    <3>3. CASE ~(UNCHANGED realFastPathBytes)
      <4>1. PICK q \in Sess, h \in Nat : realFastPathBytes' = [realFastPathBytes EXCEPT ![q] = @ + h]
        BY <3>3, <2>1, <2>2
      <4> QED
        BY <3>1, <4>1, <1>0
    <3> QED
      BY <3>2, <3>3
  <2>4. \A r \in Sess : wire'[r] - fired'[r] <= wire[r] - fired[r]
    BY <2>1, <1>0
  <2> QED
    BY <2>1, <2>3, <2>4, <1>f
<1>6. ASSUME NEW s \in Sess, NEW w \in PeerWnds, PeerSynAck(s, w) PROVE LagInv'
  BY <1>6, <1>g DEF PeerSynAck
<1>7. ASSUME NEW s \in Sess, ConnectReturn(s) PROVE LagInv'
  BY <1>7, <1>g DEF ConnectReturn
<1>8. ASSUME NEW s \in Sess, PeerNext(s) \/ Shutdown(s) \/ LwipNext(s) PROVE LagInv'
  BY <1>8, <1>g DEF PeerNext, PeerAckAny, PeerSendAck, StaleAck, Lose, PeerReset, Shutdown, LwipNext,
     LwipOutput, LwipSendFin, LwipRetransmit
<1>9. ASSUME ServWrite \/ ServWritten \/ ServWriteError \/ ServExit \/ Stop \/ RxNext PROVE LagInv'
  BY <1>9, <1>g DEF ServWrite, ServWritten, ServWriteError, ServExit, RxForward, RxForwardPkt,
     Stop, RxNext, RxStoreWnd, RxStoreAck, RxDelay, RxTestAhead, RxLoadTx, RxInsertEmptyAck
<1>10. CASE UNCHANGED vars
  BY <1>10, <1>g
<1> QED
  BY <1>1, <1>2, <1>3, <1>4, <1>5, <1>6, <1>7, <1>8, <1>9, <1>10 DEF Next, ServNext, ConnectStep

\* Where each thread is, and how much it sends.
LEMMA WithinSizes ==
    ASSUME TypeOK, NEW f, NEW s, NEW e
    PROVE  /\ Within(f, s, e) \in SUBSET Thread
           /\ \A t \in Within(f, s, e) : Sizes[t] \in Nat /\ Sizes[t] \in 1..MAX_PAYLOAD_SIZE
<1>1. Within(f, s, e) \in SUBSET Thread /\ \A t \in Within(f, s, e) : app[t].pc # "idle"
  BY DEF Within
<1>2. ASSUME NEW t \in Within(f, s, e) PROVE Sizes[t] \in 1..MAX_PAYLOAD_SIZE
  <2>1. t \in Thread /\ app[t].pc # "idle"
    BY <1>1
  <2>2. app[t].n \in 1..MAX_PAYLOAD_SIZE
    BY <2>1, AppFields
  <2> QED
    BY <2>1, <2>2 DEF Sizes
<1>3. \A t \in Within(f, s, e) : Sizes[t] \in 1..MAX_PAYLOAD_SIZE
  BY <1>2
<1>4. MAX_PAYLOAD_SIZE \in Nat
  OBVIOUS
<1> QED
  BY <1>1, <1>3, <1>4

\* A step that moves no thread, sends nothing unfired, and takes no window back; or one
\* of a session without threads.
LEMMA WindowFrame ==
    ASSUME IsFiniteSet(Thread), TypeOK, TypeOK', NEW f \in [Thread -> Nat], WindowedBy(f), app' = app,
           \A s \in Sess :
             \/ /\ Answered(s)' => Answered(s)
                /\ realTcpRemoteAckNum[s] <= realTcpRemoteAckNum'[s] /\ peerEdge[s] <= peerEdge'[s]
                /\ wire'[s] - fired'[s] <= wire[s] - fired[s]
             \/ /\ \A t \in Thread : app[t].pc # "idle" => app[t].s # s
                /\ Answered(s)' => wire'[s] - fired'[s] <= (peerEdge'[s] - WndMargin) + Packets(Thread)
    PROVE  WindowedBy(f)'
<1>0. /\ peerEdge \in [Sess -> Nat] /\ peerEdge' \in [Sess -> Nat] /\ wire \in [Sess -> Nat]
      /\ wire' \in [Sess -> Nat] /\ fired \in [Sess -> Nat] /\ fired' \in [Sess -> Nat]
      /\ realTcpRemoteAckNum \in [Sess -> Nat] /\ realTcpRemoteAckNum' \in [Sess -> Nat]
      /\ WndMargin \in Nat /\ app \in [Thread -> AppState]
  BY DEF TypeOK
<1>1. ASSUME NEW t \in Thread PROVE LoadedAt(f, t)'
  <2>1. CASE app[t].pc = "idle"
    BY <2>1 DEF LoadedAt
  <2>2. CASE app[t].pc # "idle"
    <3>1. PICK s \in Sess, n \in Nat, x \in Nat : s = app[t].s /\ n = app[t].n /\ x = f[t]
      BY <2>2, AppFields
    <3>2. LoadedAt(f, t)
      BY DEF WindowedBy
    <3>3. PICK k \in Nat, l \in Nat, c \in Nat, d \in Nat :
            /\ k = realTcpRemoteAckNum[s] /\ l = realTcpRemoteAckNum'[s]
            /\ c = peerEdge[s] /\ d = peerEdge'[s]
      BY <1>0
    <3>4. k <= l /\ c <= d
      BY <2>2, <3>1, <3>3
    <3>5. app[t].pc = "check" => app[t].unAcked \in Nat
      BY <1>0 DEF AppState, Idle
    <3>6. app[t].pc = "check" => x <= app[t].unAcked + l
      BY <3>1, <3>2, <3>3, <3>4, <3>5 DEF LoadedAt
    <3>7. app[t].pc \in {"limit", "count", "send"} => x + n <= d - WndMargin
      <4>1. app[t].pc \in {"limit", "count", "send"} => x + n <= c - WndMargin
        BY <3>1, <3>2, <3>3 DEF LoadedAt
      <4>2. WndMargin \in Nat
        BY <1>0
      <4> QED
        BY <3>4, <4>1, <4>2
    <3>8. app[t].pc = "loadAck" => x = app[t].fast
      BY <3>1, <3>2 DEF LoadedAt
    <3> QED
      BY <3>1, <3>3, <3>6, <3>7, <3>8 DEF LoadedAt
  <2> QED
    BY <2>1, <2>2
<1>2. ASSUME NEW s \in Sess, Answered(s)', NEW e \in Int, peerEdge'[s] - WndMargin <= e
      PROVE  Bounded(Within(f, s, e)', Sizes', wire'[s] - fired'[s], e)
  <2>1. Within(f, s, e)' = Within(f, s, e) /\ Sizes' = Sizes
    BY DEF Within, Sizes
  <2>2. PICK Q \in SUBSET Thread : Q = Within(f, s, e)
    BY WithinSizes
  <2>3. PICK a \in Int, b \in Int : a = wire[s] - fired[s] /\ b = wire'[s] - fired'[s]
    BY <1>0
  <2>4. PICK z : z = Sizes
    OBVIOUS
  <2>5. \A t \in Q : z[t] \in Nat
    BY <2>2, <2>4, WithinSizes
  <2>6. Bounded(Q, z, b, e)
    <3>1. CASE \A t \in Thread : app[t].pc # "idle" => app[t].s # s
      <4>1. Q = {}
        BY <2>2, <3>1 DEF Within
      <4>2. CASE b <= (peerEdge'[s] - WndMargin) + Packets(Thread)
        <5>1. Packets(Thread) \in Int
          BY PacketsOf
        <5>2. b <= e + Packets(Thread)
          BY <4>2, <5>1, <1>0, <1>2
        <5> QED
          BY <4>1, <5>2 DEF Bounded
      <4>3. CASE ~(b <= (peerEdge'[s] - WndMargin) + Packets(Thread))
        <5>1. /\ Answered(s) /\ peerEdge[s] <= peerEdge'[s] /\ b <= a
          BY <4>3, <1>2, <2>3
        <5>2. peerEdge[s] - WndMargin <= e
          BY <5>1, <1>0, <1>2
        <5>3. Bounded(Q, z, a, e)
          BY <5>1, <5>2, <2>2, <2>3, <2>4 DEF WindowedBy
        <5> QED
          BY <5>1, <5>3, <2>5, BoundedSame
      <4> QED
        BY <4>2, <4>3
    <3>2. CASE ~\A t \in Thread : app[t].pc # "idle" => app[t].s # s
      <4>1. /\ Answered(s) /\ peerEdge[s] <= peerEdge'[s] /\ b <= a
        BY <3>2, <1>2, <2>3
      <4>2. peerEdge[s] - WndMargin <= e
        BY <4>1, <1>0, <1>2
      <4>3. Bounded(Q, z, a, e)
        BY <4>1, <4>2, <2>2, <2>3, <2>4 DEF WindowedBy
      <4> QED
        BY <4>1, <4>3, <2>5, BoundedSame
    <3> QED
      BY <3>1, <3>2
  <2> QED
    BY <2>1, <2>2, <2>3, <2>4, <2>6
<1> QED
  BY <1>1, <1>2 DEF WindowedBy

\* A step of preSendCheck() leaves the thread with what it knows of the window.
LEMMA LoadedMove ==
    ASSUME TypeOK, EdgeInv, LagInv, NEW f \in [Thread -> Nat], NEW t \in Thread,
           LoadedAt(f, t), AppStep(t)
    PROVE  LoadedAt(f, t)'
<1>0. app \in [Thread -> AppState] /\ app[t] \in AppState /\ WndMargin \in Nat
      /\ realTcpRemoteAckNum \in [Sess -> Nat] /\ tcpSndWnd \in [Sess -> Nat] /\ peerEdge \in [Sess -> Nat]
  BY DEF TypeOK
<1>1. app[t].pc # "idle" /\ UNCHANGED <<realTcpRemoteAckNum, peerEdge>>
  BY DEF AppStep, PreSendLoadAck, PreSendCheck, PreSendLimit, PreSendCount, FastSend
<1>a. app[t].s \in Sess /\ app[t].n \in 1..MAX_PAYLOAD_SIZE
  BY <1>1, AppFields
<1>b. app[t].n \in Nat /\ app[t].n >= 1
  BY <1>a
<1>c. f[t] \in Nat /\ realTcpRemoteAckNum[app[t].s] \in Nat /\ peerEdge[app[t].s] \in Nat
  BY <1>0, <1>a
<1>2. PICK s \in Sess, n \in Nat, x \in Nat, k \in Nat, c \in Nat :
        /\ s = app[t].s /\ n = app[t].n /\ x = f[t] /\ n >= 1
        /\ k = realTcpRemoteAckNum[s] /\ c = peerEdge[s]
  BY <1>a, <1>b, <1>c
<1>3. CASE PreSendLoadAck(t)
  <2>1. app'[t] = [pc |-> "check", s |-> app[t].s, n |-> app[t].n,
                   unAcked |-> Positive(app[t].fast - realTcpRemoteAckNum[app[t].s])]
    BY <1>0, <1>3 DEF PreSendLoadAck
  <2>2. app[t].pc = "loadAck" /\ x = app[t].fast
    BY <1>2, <1>3 DEF PreSendLoadAck, LoadedAt
  <2>3. app'[t].pc = "check" /\ app'[t].s = s /\ app'[t].unAcked = Positive(x - k)
    BY <2>1, <2>2, <1>2
  <2>4. x <= Positive(x - k) + k
    BY DEF Positive
  <2> QED
    BY <2>3, <2>4, <1>1, <1>2 DEF LoadedAt
<1>4. CASE PreSendCheck(t)
  <2>1. /\ app'[t] = IF Throttled(app[t].s, app[t].n, app[t].unAcked)
                     THEN Idle ELSE [pc |-> "limit", s |-> app[t].s, n |-> app[t].n,
                                     fast |-> globalFastPathBytes]
        /\ app[t].pc = "check"
    BY <1>0, <1>4 DEF PreSendCheck
  <2>2. CASE Throttled(app[t].s, app[t].n, app[t].unAcked)
    BY <2>1, <2>2 DEF LoadedAt, Idle
  <2>3. CASE ~Throttled(app[t].s, app[t].n, app[t].unAcked)
    <3>1. PICK u \in Nat, w \in Nat : u = app[t].unAcked /\ w = tcpSndWnd[s]
      BY <1>0, <2>1 DEF AppState, Idle
    <3>2. ~(u + n > Positive(w - WndMargin))
      BY <2>3, <3>1, <1>2 DEF Throttled
    <3>3. x <= u + k
      BY <2>1, <3>1, <1>2 DEF LoadedAt
    <3>4. Answered(s)
      BY <1>1, <1>2 DEF LagInv, Quiet
    <3>5. k + w <= c
      BY <3>1, <3>4, <1>2 DEF EdgeInv
    <3>6. WndMargin \in Nat /\ n >= 1
      BY <1>0, <1>2
    <3>7. x + n <= c - WndMargin
      BY <3>2, <3>3, <3>5, <3>6 DEF Positive
    <3>8. app'[t].pc = "limit" /\ app'[t].s = s /\ app'[t].n = n
      BY <2>1, <2>3, <1>2
    <3> QED
      BY <3>7, <3>8, <1>1, <1>2 DEF LoadedAt
  <2> QED
    BY <2>2, <2>3
<1>5. CASE PreSendCount(t)
  <2>1. app'[t] = [app[t] EXCEPT !.pc = "send"] /\ app[t].pc = "count"
    BY <1>0, <1>5 DEF PreSendCount
  <2>2. app'[t].pc = "send" /\ app'[t].s = s /\ app'[t].n = n
    BY <2>1, <1>0, <1>2 DEF AppState, Idle
  <2>3. x + n <= c - WndMargin
    BY <2>1, <1>2 DEF LoadedAt
  <2> QED
    BY <2>2, <2>3, <1>1, <1>2 DEF LoadedAt
<1>6. CASE FastSend(t)
  <2>1. app'[t].pc = "idle"
    BY <1>0, <1>6 DEF FastSend, Idle
  <2> QED
    BY <2>1 DEF LoadedAt
<1>7. CASE PreSendLimit(t)
  <2>1. /\ app'[t] = IF FpgaBusy(app[t].fast)
                     THEN Idle ELSE [pc |-> "count", s |-> app[t].s, n |-> app[t].n]
        /\ app[t].pc = "limit"
    BY <1>0, <1>7 DEF PreSendLimit
  <2>2. CASE FpgaBusy(app[t].fast)
    BY <2>1, <2>2 DEF LoadedAt, Idle
  <2>3. CASE ~FpgaBusy(app[t].fast)
    <3>1. app'[t].pc = "count" /\ app'[t].s = s /\ app'[t].n = n
      BY <2>1, <2>3, <1>2
    <3>2. x + n <= c - WndMargin
      BY <2>1, <1>2 DEF LoadedAt
    <3> QED
      BY <3>1, <3>2, <1>1, <1>2 DEF LoadedAt
  <2> QED
    BY <2>2, <2>3
<1> QED
  BY <1>3, <1>4, <1>5, <1>6, <1>7 DEF AppStep

\* A thread goes on with its packet, gives it up, or puts it on the wire.
LEMMA WindowMove ==
    ASSUME IsFiniteSet(Thread), TypeOK, EdgeInv, LagInv, NEW f \in [Thread -> Nat], WindowedBy(f),
           NEW t \in Thread, AppStep(t)
    PROVE  WindowedBy(f)'
<1>0. wire \in [Sess -> Nat] /\ fired \in [Sess -> Nat] /\ peerEdge \in [Sess -> Nat] /\ WndMargin \in Nat
  BY DEF TypeOK
<1>1. UNCHANGED <<realTcpRemoteAckNum, peerEdge>>
  BY DEF AppStep, PreSendLoadAck, PreSendCheck, PreSendLimit, PreSendCount, FastSend
<1>2. PICK r \in Sess, n \in 1..MAX_PAYLOAD_SIZE :
        /\ app[t].pc # "idle" /\ r = app[t].s /\ n = app[t].n
        /\ \A u \in Thread : u # t => app'[u] = app[u]
        /\ UNCHANGED <<conn, fired>>
        /\ \/ /\ app'[t].pc # "idle" /\ app'[t].s = r /\ app'[t].n = n
              /\ wire' = wire
           \/ /\ app'[t].pc = "idle" /\ app[t].pc \in {"check", "limit"} /\ wire' = wire
           \/ /\ app'[t].pc = "idle" /\ app[t].pc = "send"
              /\ wire' = [wire EXCEPT ![r] = @ + n]
  BY AppMoves
<1>3. ASSUME NEW u \in Thread PROVE LoadedAt(f, u)'
  <2>1. CASE u = t
    BY <2>1, LoadedMove DEF WindowedBy
  <2>2. CASE u # t
    BY <2>2, <1>1, <1>2 DEF WindowedBy, LoadedAt
  <2> QED
    BY <2>1, <2>2
<1>4. \A s : Answered(s)' = Answered(s)
  BY <1>2 DEF Answered
<1>5. ASSUME NEW s \in Sess, Answered(s), NEW e \in Int, peerEdge[s] - WndMargin <= e
      PROVE  Bounded(Within(f, s, e)', Sizes', wire'[s] - fired'[s], e)
  <2>2. PICK Q \in SUBSET Thread : Q = Within(f, s, e)
    BY WithinSizes
  <2>3. PICK a \in Int : a = wire[s] - fired[s]
    BY <1>0
  <2>4. PICK z, x : z = Sizes /\ x = Sizes'
    OBVIOUS
  <2>5. \A u \in Q : z[u] \in Nat /\ z[u] \in 1..MAX_PAYLOAD_SIZE
    BY <2>2, <2>4, WithinSizes
  <2>6. Bounded(Q, z, a, e)
    BY <1>5, <2>2, <2>3, <2>4 DEF WindowedBy
  <2>7. \A u \in Q : u # t => x[u] = z[u]
    BY <2>2, <2>4, <1>2 DEF Sizes
  <2>8. CASE t \notin Q
    <3>1. \A u \in Thread : u \in Within(f, s, e)' <=> u \in Q
      <4>1. \A u \in Thread : u # t => (u \in Within(f, s, e)' <=> u \in Q)
        BY <2>2, <1>2 DEF Within
      <4>2. t \notin Within(f, s, e)'
        BY <2>2, <2>8, <1>2 DEF Within
      <4> QED
        BY <2>8, <4>1, <4>2
    <3>2. Within(f, s, e)' = Q
      BY <3>1 DEF Within
    <3>3. wire'[s] = wire[s]
      <4>1. CASE s = r /\ app[t].pc = "send"
        <5>1. f[t] + n <= peerEdge[r] - WndMargin /\ f[t] \in Nat /\ n \in Nat
          BY <4>1, <1>2 DEF WindowedBy, LoadedAt
        <5>2. f[t] + n <= e
          BY <5>1, <4>1, <1>0, <1>5
        <5> QED
          BY <5>2, <4>1, <2>2, <2>8, <1>2 DEF Within
      <4> QED
        BY <4>1, <1>2, <1>0
    <3>4. wire'[s] - fired'[s] = a
      BY <3>3, <2>3, <1>2
    <3>5. \A u \in Q : z[u] \in Nat /\ x[u] = z[u]
      BY <2>5, <2>7, <2>8
    <3>6. Bounded(Q, x, a, e)
      BY <2>6, <3>5, BoundedSame
    <3> QED
      BY <3>2, <3>4, <3>6, <2>4
  <2>9. CASE t \in Q /\ app'[t].pc # "idle"
    <3>1. s = r /\ app'[t].s = r /\ app'[t].n = n /\ wire' = wire
      BY <2>2, <2>9, <1>2 DEF Within
    <3>2. \A u \in Thread : u # t => (u \in Within(f, s, e)' <=> u \in Q)
      BY <2>2, <1>2 DEF Within
    <3>3. t \in Within(f, s, e)'
      BY <2>2, <2>9, <3>1, <1>2 DEF Within
    <3>4. Within(f, s, e)' = Q
      BY <2>9, <3>2, <3>3 DEF Within
    <3>5. x[t] = z[t]
      BY <2>4, <3>1, <1>2 DEF Sizes
    <3>6. \A u \in Q : z[u] \in Nat /\ x[u] = z[u]
      BY <2>5, <2>7, <3>5
    <3>7. Bounded(Q, x, a, e)
      BY <2>6, <3>6, BoundedSame
    <3> QED
      BY <3>1, <3>4, <3>7, <2>3, <2>4, <1>2
  <2>10. CASE t \in Q /\ app'[t].pc = "idle"
    <3>1. s = r /\ z[t] = n
      BY <2>2, <2>4, <2>10, <1>2 DEF Within, Sizes
    <3>2. \A u \in Thread : u # t => (u \in Within(f, s, e)' <=> u \in Q)
      BY <2>2, <1>2 DEF Within
    <3>3. t \notin Within(f, s, e)'
      BY <2>10 DEF Within
    <3>4. Within(f, s, e)' = Q \ {t}
      BY <3>2, <3>3 DEF Within
    <3>5. PICK b \in Int : b = wire'[s] - fired'[s] /\ b <= a + n
      <4>1. wire'[s] = wire[s] \/ wire'[s] = wire[s] + n
        BY <3>1, <1>2, <1>0
      <4> QED
        BY <4>1, <2>3, <1>0, <1>2
    <3>6. Bounded(Q \ {t}, z, b, e)
      <4>1. b <= a + z[t]
        BY <3>1, <3>5
      <4>2. \A u \in Q : z[u] \in 1..MAX_PAYLOAD_SIZE
        BY <2>5
      <4>3. t \in Q
        BY <2>10
      <4> QED
        BY <4>1, <4>2, <4>3, <2>6, BoundedLeave
    <3>7. \A u \in Q \ {t} : z[u] \in Nat /\ x[u] = z[u]
      BY <2>5, <2>7
    <3>8. PICK R \in SUBSET Thread : R = Q \ {t}
      OBVIOUS
    <3>9. Bounded(R, x, b, e)
      <4>1. Bounded(R, z, b, e) /\ \A u \in R : z[u] \in Nat /\ x[u] = z[u]
        BY <3>6, <3>7, <3>8
      <4>2. b <= b
        OBVIOUS
      <4> QED
        BY <4>1, <4>2, BoundedSame
    <3> QED
      BY <3>4, <3>5, <3>8, <3>9, <2>4
  <2> QED
    BY <2>8, <2>9, <2>10
<1> QED
  BY <1>1, <1>3, <1>4, <1>5 DEF WindowedBy

\* A thread starts from what is counted, which is no less than what was sent unfired.
LEMMA WindowLoad ==
    ASSUME IsFiniteSet(Thread), TypeOK, LagInv, NEW f \in [Thread -> Nat], WindowedBy(f),
           NEW t \in Thread, NEW r \in Sess, NEW n \in 1..MAX_PAYLOAD_SIZE,
           PreSendLoadFastPath(t, r, n)
    PROVE  WindowInv'
<1>a. WndMargin \in Nat /\ n \in Nat
  OBVIOUS
<1>b. /\ wire \in [Sess -> Nat] /\ fired \in [Sess -> Nat] /\ peerEdge \in [Sess -> Nat]
      /\ realFastPathBytes \in [Sess -> Nat]
  BY DEF TypeOK
<1>0. /\ wire \in [Sess -> Nat] /\ fired \in [Sess -> Nat] /\ peerEdge \in [Sess -> Nat]
      /\ realFastPathBytes \in [Sess -> Nat] /\ WndMargin \in Nat /\ n \in Nat
  BY <1>a, <1>b
<1>1. /\ app[t].pc = "idle" /\ app'[t].pc = "loadAck" /\ app'[t].s = r /\ app'[t].n = n
      /\ app'[t].fast = realFastPathBytes[r]
      /\ \A u \in Thread : u # t => app'[u] = app[u]
      /\ UNCHANGED <<conn, fired, wire, realTcpRemoteAckNum, peerEdge>>
  BY AppLoads
<1>2. PICK F \in Nat : F = realFastPathBytes[r]
  BY <1>0
<1>3. PICK g \in [Thread -> Nat] : g[t] = F /\ \A u \in Thread : u # t => g[u] = f[u]
  <2>1. [f EXCEPT ![t] = F] \in [Thread -> Nat] /\ [f EXCEPT ![t] = F][t] = F
        /\ \A u \in Thread : u # t => [f EXCEPT ![t] = F][u] = f[u]
    OBVIOUS
  <2> QED
    BY <2>1
<1>4. wire[r] - fired[r] <= F
  <2>1. PICK y \in Nat : wire[r] + y <= realFastPathBytes[r] + fired[r]
    BY DEF LagInv, Lagging
  <2>2. wire[r] \in Nat /\ fired[r] \in Nat
    BY <1>0
  <2> QED
    BY <2>1, <2>2, <1>2
<1>5. ASSUME NEW u \in Thread PROVE LoadedAt(g, u)'
  <2>1. CASE u = t
    BY <2>1, <1>1, <1>2, <1>3 DEF LoadedAt
  <2>2. CASE u # t
    BY <2>2, <1>1, <1>3 DEF WindowedBy, LoadedAt
  <2> QED
    BY <2>1, <2>2
<1>6. \A s : Answered(s)' = Answered(s)
  BY <1>1 DEF Answered
<1>7. ASSUME NEW s \in Sess, Answered(s), NEW e \in Int, peerEdge[s] - WndMargin <= e
      PROVE  Bounded(Within(g, s, e)', Sizes', wire'[s] - fired'[s], e)
  <2>2. PICK Q \in SUBSET Thread : Q = Within(f, s, e)
    BY WithinSizes
  <2>3. PICK a \in Int : a = wire[s] - fired[s]
    BY <1>0
  <2>4. PICK z, x : z = Sizes /\ x = Sizes'
    OBVIOUS
  <2>5. \A u \in Q : z[u] \in Nat
    BY <2>2, <2>4, WithinSizes
  <2>6. Bounded(Q, z, a, e)
    BY <1>7, <2>2, <2>3, <2>4 DEF WindowedBy
  <2>7. t \notin Q
    BY <2>2, <1>1 DEF Within
  <2>8. \A u \in Q : z[u] \in Nat /\ x[u] = z[u]
    BY <2>4, <2>5, <2>7, <1>1 DEF Sizes
  <2>9. \A u \in Thread : u # t => (u \in Within(g, s, e)' <=> u \in Q)
    BY <2>2, <1>1, <1>3 DEF Within
  <2>10. wire'[s] - fired'[s] = a
    BY <2>3, <1>1
  <2>11. CASE t \notin Within(g, s, e)'
    <3>1. Within(g, s, e)' = Q
      BY <2>7, <2>9, <2>11 DEF Within
    <3>2. Bounded(Q, x, a, e)
      BY <2>6, <2>8, BoundedSame
    <3> QED
      BY <3>1, <3>2, <2>4, <2>10
  <2>12. CASE t \in Within(g, s, e)'
    <3>1. s = r /\ F + n <= e
      BY <2>12, <1>1, <1>3 DEF Within
    <3>2. PICK R \in SUBSET Thread : R = Within(g, s, e)' /\ t \in R
      BY <2>12 DEF Within
    <3>3. x[t] = n
      BY <2>4, <1>1 DEF Sizes
    <3>4. a + n <= e
      BY <3>1, <2>3, <1>4, <1>0, <1>2
    <3>5. x[t] \in Nat /\ a + x[t] <= e /\ t \in R
      BY <3>2, <3>3, <3>4
    <3>6. Bounded(R, x, a, e)
      BY <3>5, BoundedJoin
    <3> QED
      BY <3>2, <3>6, <2>4, <2>10
  <2> QED
    BY <2>11, <2>12
<1>8. WindowedBy(g)'
  BY <1>1, <1>5, <1>6, <1>7 DEF WindowedBy
<1> QED
  BY <1>8 DEF WindowInv

\* No session is answered in the beginning.
LEMMA WindowInit == Init => WindowInv
<1> SUFFICES ASSUME Init PROVE WindowInv
  OBVIOUS
<1>1. PICK f \in [Thread -> Nat] : TRUE
  <2>1. [t \in Thread |-> 0] \in [Thread -> Nat]
    OBVIOUS
  <2> QED
    BY <2>1
<1>2. \A t \in Thread : app[t].pc = "idle"
  BY DEF Init, Idle
<1>3. \A s \in Sess : ~Answered(s)
  BY DEF Init, Answered
<1>4. WindowedBy(f)
  BY <1>2, <1>3 DEF WindowedBy, LoadedAt
<1> QED
  BY <1>4 DEF WindowInv

\* The ACK number of a session only grows once its SYN is sent.
LEMMA RealMonotone ==
    ASSUME TypeInv, AckInv, TrackInv, [Next]_vars
    PROVE  \A s \in Sess : conn[s] # "closed" => realTcpRemoteAckNum[s] <= realTcpRemoteAckNum'[s]
<1>0. TypeOK /\ realTcpRemoteAckNum \in [Sess -> Nat]
  BY DEF TypeInv, TypeOK
<1> DEFINE P == \A s \in Sess : conn[s] # "closed" => realTcpRemoteAckNum[s] <= realTcpRemoteAckNum'[s]
<1>f. ASSUME UNCHANGED realTcpRemoteAckNum PROVE P
  BY <1>0, <1>f
<1>1. ASSUME NEW s \in Sess, SendSyn(s) PROVE P
  BY <1>1, <1>0 DEF SendSyn
<1>2. ASSUME RxStoreAck PROVE P
  <2>1. PICK s \in Sess, r \in Nat :
          realTcpRemoteAckNum' = [realTcpRemoteAckNum EXCEPT ![s] = r] /\ realTcpRemoteAckNum[s] <= r
    BY <1>2, RealGrows
  <2> QED
    BY <2>1, <1>0
<1>3. ASSUME NEW t \in Thread, AppStep(t) PROVE P
  BY <1>3, <1>f DEF AppStep, PreSendLoadAck, PreSendCheck, PreSendLimit, PreSendCount, FastSend
<1>4. ASSUME NEW t \in Thread, NEW s \in Sess, NEW n \in 1..MAX_PAYLOAD_SIZE,
             PreSendLoadFastPath(t, s, n)
      PROVE  P
  BY <1>4, <1>f DEF PreSendLoadFastPath
<1>5. ASSUME NEW s \in Sess, NEW n \in 1..MAX_PAYLOAD_SIZE, HwFire(s, n) PROVE P
  BY <1>5, <1>f DEF HwFire
<1>6. ASSUME NEW s \in Sess, PeerNext(s) \/ Shutdown(s) \/ LwipNext(s) PROVE P
  BY <1>6, <1>f DEF PeerNext, PeerAckAny, PeerSendAck, StaleAck, Lose, PeerReset, Shutdown, LwipNext,
     LwipOutput, LwipSendFin, LwipRetransmit
<1>7. ASSUME ServNext \/ Stop \/ RxStoreWnd \/ RxDelay \/ RxForward PROVE P
  BY <1>7, <1>f DEF ServNext, ServTake, ServWrite, ServWritten, ServWriteError, ServExit,
     Stop, RxStoreWnd, RxDelay, RxTestAhead, RxLoadTx, RxInsertEmptyAck, RxForward, RxForwardPkt
<1>8. ASSUME NEW s \in Sess, ConnectReturn(s) \/ \E w \in PeerWnds : PeerSynAck(s, w) PROVE P
  BY <1>8, <1>f DEF ConnectReturn, PeerSynAck
<1>9. CASE UNCHANGED vars
  BY <1>9, <1>f
<1> QED
  BY <1>1, <1>2, <1>3, <1>4, <1>5, <1>6, <1>7, <1>8, <1>9 DEF Next, RxNext, ConnectStep

\* Every step keeps WindowInv.
LEMMA WindowStep ==
    ASSUME Roomy, "staleAck" \notin Env, TypeInv, TypeInv', AckInv, TrackInv, EdgeInv, LagInv, WindowInv,
           [Next]_vars
    PROVE  WindowInv'
<1>0. IsFiniteSet(Thread) /\ TypeOK /\ TypeOK' /\ Packets(Thread) \in Nat /\ WndMargin \in Nat
  BY PacketsThread DEF TypeInv, Roomy
<1>t. /\ wire \in [Sess -> Nat] /\ fired \in [Sess -> Nat] /\ peerEdge \in [Sess -> Nat]
      /\ realTcpRemoteAckNum \in [Sess -> Nat]
      /\ conn \in [Sess -> {"closed", "synSent", "synAcked", "firstAck", "up"}]
  BY <1>0 DEF TypeOK
<1>w. PICK f \in [Thread -> Nat] : WindowedBy(f)
  BY DEF WindowInv
<1>a. \A s \in Sess : Answered(s)' => Answered(s) \/ \E w \in PeerWnds : PeerSynAck(s, w)
  BY AnsweredStep
<1>b. \A s \in Sess : ~Answered(s) => \A t \in Thread : app[t].pc # "idle" => app[t].s # s
  BY DEF LagInv, Quiet
<1>c. \A s \in Sess : conn[s] # "closed" => realTcpRemoteAckNum[s] <= realTcpRemoteAckNum'[s]
  BY RealMonotone
<1>f. ASSUME app' = app,
             \A s \in Sess : Answered(s) => peerEdge[s] <= peerEdge'[s]
                                            /\ wire'[s] - fired'[s] <= wire[s] - fired[s],
             \A s \in Sess : Answered(s)' => Answered(s)
      PROVE  WindowInv'
  <2>1. \A s \in Sess : Answered(s) => realTcpRemoteAckNum[s] <= realTcpRemoteAckNum'[s]
    BY <1>c DEF Answered
  <2>2. \A s \in Sess :
             \/ /\ Answered(s)' => Answered(s)
                /\ realTcpRemoteAckNum[s] <= realTcpRemoteAckNum'[s] /\ peerEdge[s] <= peerEdge'[s]
                /\ wire'[s] - fired'[s] <= wire[s] - fired[s]
             \/ /\ \A t \in Thread : app[t].pc # "idle" => app[t].s # s
                /\ Answered(s)' => wire'[s] - fired'[s] <= (peerEdge'[s] - WndMargin) + Packets(Thread)
    BY <2>1, <1>b, <1>f
  <2>3. WindowedBy(f)'
    BY <2>2, <1>0, <1>f, <1>w, WindowFrame
  <2> QED
    BY <2>3 DEF WindowInv
<1>g. ASSUME UNCHANGED <<app, wire, fired>>, peerEdge' = peerEdge,
             \A s \in Sess : \A w \in PeerWnds : ~PeerSynAck(s, w)
      PROVE  WindowInv'
  <2>1. \A s \in Sess : peerEdge[s] <= peerEdge'[s] /\ wire'[s] - fired'[s] <= wire[s] - fired[s]
    BY <1>g, <1>t
  <2>2. \A s \in Sess : Answered(s)' => Answered(s)
    BY <1>a, <1>g
  <2> QED
    BY <2>1, <2>2, <1>f, <1>g
<1>h. ASSUME UNCHANGED <<app, wire, fired, peerEdge, conn>> PROVE WindowInv'
  <2>1. \A s \in Sess : peerEdge[s] <= peerEdge'[s] /\ wire'[s] - fired'[s] <= wire[s] - fired[s]
    BY <1>h, <1>t
  <2>2. \A s \in Sess : Answered(s)' => Answered(s)
    BY <1>h DEF Answered
  <2> QED
    BY <2>1, <2>2, <1>f, <1>h
<1>1. ASSUME NEW s \in Sess, SendSyn(s) PROVE WindowInv'
  <2>1. /\ conn[s] = "closed" /\ conn' = [conn EXCEPT ![s] = "synSent"]
        /\ wire' = [wire EXCEPT ![s] = Base] /\ UNCHANGED <<app, fired, peerEdge>>
    BY <1>1 DEF SendSyn
  <2>2. \A r \in Sess : Answered(r)' => Answered(r)
    BY <2>1, <1>t DEF Answered
  <2>3. \A r \in Sess : Answered(r) => r # s
    BY <2>1 DEF Answered
  <2>4. \A r \in Sess : Answered(r) => peerEdge[r] <= peerEdge'[r]
                                       /\ wire'[r] - fired'[r] <= wire[r] - fired[r]
    BY <2>1, <2>3, <1>t
  <2> QED
    BY <2>1, <2>2, <2>4, <1>f
<1>2. ASSUME NEW s \in Sess, NEW w \in PeerWnds, PeerSynAck(s, w) PROVE WindowInv'
  <2>1. /\ conn[s] = "synSent" /\ conn' = [conn EXCEPT ![s] = "synAcked"]
        /\ peerEdge' = [peerEdge EXCEPT ![s] = Base + w]
        /\ UNCHANGED <<app, wire, fired, realTcpRemoteAckNum>>
    BY <1>2 DEF PeerSynAck
  <2>2. wire[s] = Base /\ fired[s] = 0 /\ \A t \in Thread : app[t].pc # "idle" => app[t].s # s
    BY <2>1 DEF LagInv, Quiet, Answered
  <2>3. PICK P \in Nat : P = Packets(Thread)
    BY <1>0
  <2>4. Base \in Nat /\ w \in Nat /\ w >= WndMargin /\ WndMargin \in Nat
    BY BaseNat DEF Roomy
  <2>5. wire'[s] - fired'[s] <= (peerEdge'[s] - WndMargin) + P
    <3>1. peerEdge'[s] = Base + w /\ wire'[s] = Base /\ fired'[s] = 0
      BY <2>1, <2>2, <1>t
    <3>2. Base - 0 <= ((Base + w) - WndMargin) + P
      BY <2>4
    <3> QED
      BY <3>1, <3>2
  <2>6. ASSUME NEW r \in Sess, r # s
        PROVE  /\ Answered(r)' => Answered(r)
               /\ realTcpRemoteAckNum[r] <= realTcpRemoteAckNum'[r] /\ peerEdge[r] <= peerEdge'[r]
               /\ wire'[r] - fired'[r] <= wire[r] - fired[r]
    <3>1. conn'[r] = conn[r] /\ peerEdge'[r] = peerEdge[r]
      BY <2>1, <2>6, <1>t
    <3>2. Answered(r)' => Answered(r)
      BY <3>1 DEF Answered
    <3> QED
      BY <2>1, <3>1, <3>2, <1>t
  <2>7. \A r \in Sess :
             \/ /\ Answered(r)' => Answered(r)
                /\ realTcpRemoteAckNum[r] <= realTcpRemoteAckNum'[r] /\ peerEdge[r] <= peerEdge'[r]
                /\ wire'[r] - fired'[r] <= wire[r] - fired[r]
             \/ /\ \A t \in Thread : app[t].pc # "idle" => app[t].s # r
                /\ Answered(r)' => wire'[r] - fired'[r] <= (peerEdge'[r] - WndMargin) + Packets(Thread)
    BY <2>2, <2>3, <2>5, <2>6
  <2>8. WindowedBy(f)'
    BY <2>1, <2>7, <1>0, <1>w, WindowFrame
  <2> QED
    BY <2>8 DEF WindowInv
<1>3. ASSUME NEW s \in Sess, ConnectReturn(s) PROVE WindowInv'
  <2>1. \A r \in Sess : Answered(r)' => Answered(r)
    BY <1>3, <1>t DEF ConnectReturn, Answered
  <2>2. \A r \in Sess : peerEdge[r] <= peerEdge'[r] /\ wire'[r] - fired'[r] <= wire[r] - fired[r]
    BY <1>3, <1>t DEF ConnectReturn
  <2>3. app' = app
    BY <1>3 DEF ConnectReturn
  <2> QED
    BY <2>1, <2>2, <2>3, <1>f
<1>4. ASSUME NEW s \in Sess, PeerAckAny(s) PROVE WindowInv'
  <2>1. PICK a \in peerAck[s]..PeerGot(s), w \in PeerWnds : PeerSendAck(s, a, w)
    BY <1>4 DEF PeerAckAny
  <2>2. /\ peerEdge' = [peerEdge EXCEPT ![s] = a + w] /\ a + w >= peerEdge[s]
        /\ UNCHANGED <<conn, app, wire, fired>>
    BY <2>1 DEF PeerSendAck
  <2>3. \A r \in Sess : peerEdge[r] <= peerEdge'[r]
    BY <2>2, <1>t
  <2>4. \A r \in Sess : wire'[r] - fired'[r] <= wire[r] - fired[r]
    BY <2>2, <1>t
  <2>5. \A r \in Sess : Answered(r)' => Answered(r)
    BY <2>2 DEF Answered
  <2> QED
    BY <2>2, <2>3, <2>4, <2>5, <1>f
<1>5. ASSUME RxForward PROVE WindowInv'
  <2>1. rx.pc = "delay" /\ rx'.pc = "idle" /\ UNCHANGED <<app, wire, fired, peerEdge>>
    BY <1>5 DEF RxForward, RxForwardPkt, Idle
  <2>2. \A s \in Sess : \A w \in PeerWnds : ~PeerSynAck(s, w)
    BY <2>1 DEF PeerSynAck
  <2> QED
    BY <2>1, <2>2, <1>g
<1>6. ASSUME NEW t \in Thread, AppStep(t) PROVE WindowInv'
  <2>1. WindowedBy(f)'
    BY <1>6, <1>0, <1>w, WindowMove
  <2> QED
    BY <2>1 DEF WindowInv
<1>7. ASSUME NEW t \in Thread, NEW s \in Sess, NEW n \in 1..MAX_PAYLOAD_SIZE,
             PreSendLoadFastPath(t, s, n)
      PROVE  WindowInv'
  BY <1>7, <1>0, <1>w, WindowLoad
<1>8. ASSUME NEW s \in Sess, NEW n \in 1..MAX_PAYLOAD_SIZE, HwFire(s, n) PROVE WindowInv'
  <2>1. /\ fired' = [fired EXCEPT ![s] = @ + n] /\ UNCHANGED <<app, conn, peerEdge>>
        /\ wire' = [wire EXCEPT ![s] = IF ReportOnly THEN @ ELSE @ + n]
    BY <1>8 DEF HwFire, FpgaSend
  <2>2. \A r \in Sess : wire'[r] - fired'[r] <= wire[r] - fired[r]
    BY <2>1, <1>t
  <2>3. \A r \in Sess : peerEdge[r] <= peerEdge'[r]
    BY <2>1, <1>t
  <2>4. \A r \in Sess : Answered(r)' => Answered(r)
    BY <2>1 DEF Answered
  <2> QED
    BY <2>1, <2>2, <2>3, <2>4, <1>f
<1>9. ASSUME NEW s \in Sess, Lose(s) \/ PeerReset(s) \/ Shutdown(s) \/ LwipNext(s)
      PROVE  WindowInv'
  BY <1>9, <1>h DEF Lose, PeerReset, Shutdown, LwipNext, LwipOutput, LwipSendFin, LwipRetransmit
<1>10. ASSUME ServNext \/ Stop \/ RxDelay \/ RxStoreWnd \/ RxStoreAck PROVE WindowInv'
  BY <1>10, <1>h DEF ServNext, ServTake, ServWrite, ServWritten, ServWriteError, ServExit,
     Stop, RxDelay, RxTestAhead, RxLoadTx, RxInsertEmptyAck, RxStoreWnd, RxStoreAck
<1>11. CASE UNCHANGED vars
  BY <1>11, <1>h
<1>12. ASSUME NEW s \in Sess, PeerNext(s) PROVE WindowInv'
  BY <1>12, <1>4, <1>9 DEF PeerNext, StaleAck
<1> QED
  BY <1>1, <1>2, <1>3, <1>5, <1>6, <1>7, <1>8, <1>9, <1>10, <1>11, <1>12
     DEF Next, RxNext, ConnectStep

\* What the threads have put on the wire and the window allow of each other.
LEMMA WindowBound ==
    ASSUME Roomy, TypeOK, WindowInv, NEW s \in Sess, Answered(s)
    PROVE  wire[s] - fired[s] <= (peerEdge[s] - WndMargin) + Packets(Thread)
<1>1. PICK f \in [Thread -> Nat] : WindowedBy(f)
  BY DEF WindowInv
<1>2. IsFiniteSet(Thread) /\ WndMargin \in Nat /\ Packets(Thread) \in Nat
  BY PacketsThread DEF Roomy
<1>3. wire[s] \in Nat /\ fired[s] \in Nat /\ peerEdge[s] \in Nat
  BY DEF TypeOK
<1>4. PICK a \in Int, e \in Int, P \in Nat :
        a = wire[s] - fired[s] /\ e = peerEdge[s] - WndMargin /\ P = Packets(Thread)
  BY <1>2, <1>3
<1>5. PICK Q \in SUBSET Thread : Q = Within(f, s, e)
  BY WithinSizes
<1>6. PICK z : z = Sizes
  OBVIOUS
<1>7. Bounded(Q, z, a, e)
  <2>1. peerEdge[s] - WndMargin <= e
    BY <1>3, <1>4
  <2> QED
    BY <2>1, <1>1, <1>4, <1>5, <1>6 DEF WindowedBy
<1>8. CASE Q = {}
  BY <1>8, <1>7, <1>4 DEF Bounded
<1>9. CASE Q # {}
  <2>1. PICK u \in Q : a + z[u] + Packets(Q) <= e + Packets(Thread)
    BY <1>7, <1>9 DEF Bounded
  <2>2. PICK n \in Nat, p \in Int : n = z[u] /\ p = Packets(Q)
    BY <1>2, <1>5, <1>6, WithinSizes, PacketsOf
  <2>3. {u} \in SUBSET Q /\ IsFiniteSet(Q)
    BY <1>2, PacketsOf
  <2>5. p >= 0
    <3>1. Cardinality({u}) = 1 /\ Cardinality(Q) \in Nat /\ Cardinality({u}) <= Cardinality(Q)
      BY <2>3, FS_Singleton, FS_Subset, FS_CardinalityType
    <3>2. PICK k \in Nat : k = Cardinality(Q) /\ 1 <= k
      BY <3>1
    <3>3. MAX_PAYLOAD_SIZE \in Nat /\ 1 \in Nat
      OBVIOUS
    <3>4. MAX_PAYLOAD_SIZE * (1 - 1) <= MAX_PAYLOAD_SIZE * (k - 1)
      BY <3>2, <3>3, MulPredMono
    <3>5. p = MAX_PAYLOAD_SIZE * (k - 1)
      BY <2>2, <3>2 DEF Packets
    <3>6. MAX_PAYLOAD_SIZE * (1 - 1) = 0
      OBVIOUS
    <3> QED
      BY <3>4, <3>5, <3>6
  <2>6. a <= e + P
    BY <2>1, <2>2, <2>5, <1>4
  <2> QED
    BY <2>6, <1>4
<1> QED
  BY <1>8, <1>9

\* preSendCheck(): whatever the number of threads, payloads, windows, margins and HW
\* fires, the wire passes the exchange's window by no more than a packet for each other
\* thread and what the HW fired, less the margin.
THEOREM TcpWindowRespected ==
    "staleAck" \notin Env /\ IsFiniteSet(Thread) /\ Thread # {} => (Spec => []WindowRespected)
<1> SUFFICES ASSUME "staleAck" \notin Env, IsFiniteSet(Thread), Thread # {}
             PROVE  Spec => []WindowRespected
  OBVIOUS
<1> DEFINE I == /\ TypeInv /\ AckInv /\ SynAlone /\ TrackInv /\ EdgeInv /\ LagInv /\ WindowInv
<1>1. CASE Roomy
  <2>1. Init => I
    BY TypeInit, AckInit, TrackInit, EdgeInit, LagInit, WindowInit
  <2>2. I /\ [Next]_vars => I'
    <3> SUFFICES ASSUME I, [Next]_vars PROVE I'
      OBVIOUS
    <3>1. TypeInv' /\ AckInv'
      BY TypeStep, AckStep
    <3>2. SynAlone' /\ TrackInv' /\ EdgeInv'
      BY <3>1, SynStep, TrackStep, EdgeStep
    <3>3. LagInv' /\ WindowInv'
      BY <3>1, <1>1, LagStep, WindowStep
    <3> QED
      BY <3>1, <3>2, <3>3
  <2>3. I => WindowRespected
    <3> SUFFICES ASSUME I, NEW s \in Sess, conn[s] = "up"
                 PROVE  wire[s] <= peerEdge[s] + Positive(MAX_PAYLOAD_SIZE * (Cardinality(Thread) - 1)
                                                          + fired[s] - WndMargin)
      BY DEF WindowRespected
    <3>1. TypeOK /\ Answered(s)
      BY DEF TypeInv, Answered
    <3>2. PICK a \in Nat, b \in Nat, c \in Nat : a = wire[s] /\ b = fired[s] /\ c = peerEdge[s]
      BY <3>1 DEF TypeOK
    <3>3. PICK P \in Nat : P = Packets(Thread)
      BY PacketsThread
    <3>4. a - b <= (c - WndMargin) + P /\ WndMargin \in Nat
      BY <3>1, <3>2, <3>3, <1>1, WindowBound
    <3>5. a <= c + Positive(P + b - WndMargin)
      BY <3>4 DEF Positive
    <3> QED
      BY <3>2, <3>3, <3>5 DEF Packets
  <2> QED
    BY <2>1, <2>2, <2>3, PTL DEF Spec
<1>2. CASE ~Roomy
  <2>1. WindowRespected
    BY <1>2 DEF WindowRespected, Roomy
  <2> QED
    BY <2>1, PTL
<1> QED
  BY <1>1, <1>2

----------------------------------------------------------------------------
(* From one ACK to the next.                                                *)

\* A packet follows the stored number, or an earlier packet, by less than the sequence
\* space.
Follow(i) ==
    \/ lwipRx[i].ack - realTcpRemoteAckNum[lwipRx[i].s] < SeqMod
    \/ \E j \in 1..(i - 1) : /\ lwipRx[j].s = lwipRx[i].s
                             /\ lwipRx[i].ack - lwipRx[j].ack < SeqMod

\* What the exchange acknowledged last is stored or on its way.
Latest(s) ==
    \/ realTcpRemoteAckNum[s] = peerAck[s]
    \/ \E j \in 1..Len(lwipRx) : lwipRx[j].s = s /\ lwipRx[j].ack = peerAck[s]

GapInv ==
    /\ \A i \in 1..Len(lwipRx) : Follow(i)
    /\ \A s \in Sess : Answered(s) => Latest(s) /\ \E w \in PeerWnds : peerEdge[s] = peerAck[s] + w
    /\ \A s \in Sess : fired[s] <= MaxFired
    /\ AckReconstructed

\* A full window, a packet of each other thread, the HW fires and a FIN fit the sequence
\* space.
Spacious ==
    /\ Roomy
    /\ \A w \in PeerWnds : w + Packets(Thread) + MaxFired + 1 < SeqMod + WndMargin

\* No ACK is on its way in the beginning.
LEMMA GapInit == Init => GapInv
BY DEF Init, GapInv, AckReconstructed, Answered, Idle

\* Bytes between two ACKs.
LEMMA GapArith ==
    ASSUME NEW a \in Int, NEW x \in Nat, NEW y \in Nat, NEW c \in Nat, NEW k \in Nat, NEW w \in Nat,
           NEW P \in Nat, NEW M \in Nat, NEW S \in Nat, NEW g \in Nat,
           x - y <= (c - g) + P, c = k + w, y <= M, a <= x + 1, w + P + M + 1 < S + g
    PROVE  a - k < S
OBVIOUS

\* The next ACK is not far from the last one.
LEMMA GapNext ==
    ASSUME Spacious, TypeOK, WindowInv, GapInv, NEW s \in Sess, Answered(s), NEW a \in Nat,
           a <= PeerGot(s)
    PROVE  a - peerAck[s] < SeqMod
<1>1. PICK x \in Nat, y \in Nat, c \in Nat, k \in Nat :
        x = wire[s] /\ y = fired[s] /\ c = peerEdge[s] /\ k = peerAck[s]
  BY DEF TypeOK
<1>2. Roomy /\ WndMargin \in Nat /\ SeqMod \in Nat /\ MaxFired \in Nat
  BY DEF Spacious
<1>3. PICK P \in Nat : P = Packets(Thread)
  BY <1>2, PacketsThread DEF Roomy
<1>4. x - y <= (c - WndMargin) + P
  BY <1>1, <1>2, <1>3, WindowBound
<1>5. PICK w \in PeerWnds : c = k + w
  BY <1>1 DEF GapInv
<1>6. w \in Nat /\ w + P + MaxFired + 1 < SeqMod + WndMargin
  BY <1>3, <1>5 DEF Spacious
<1>7. y <= MaxFired
  BY <1>1 DEF GapInv
<1>8. a <= x + 1
  BY <1>1 DEF PeerGot
<1>9. a - k < SeqMod
  BY <1>2, <1>4, <1>5, <1>6, <1>7, <1>8, GapArith
<1> QED
  BY <1>1, <1>9

\* A packet arrives that follows another one.
LEMMA GapAppend ==
    ASSUME TypeInv, AckReconstructed, \A i \in 1..Len(lwipRx) : Follow(i),
           NEW x, lwipRx' = Append(lwipRx, x), x.s \in Sess, x.ack = peerAck'[x.s],
           \/ x.ack - realTcpRemoteAckNum[x.s] < SeqMod
           \/ \E j \in 1..Len(lwipRx) : lwipRx[j].s = x.s /\ x.ack - lwipRx[j].ack < SeqMod,
           \A s \in Sess : s # x.s => peerAck'[s] = peerAck[s],
           UNCHANGED <<rx, realTcpRemoteAckNum>>
    PROVE  /\ \A i \in 1..Len(lwipRx') : Follow(i)'
           /\ Latest(x.s)' /\ \A s \in Sess : s # x.s /\ Latest(s) => Latest(s)'
           /\ AckReconstructed'
<1>0. lwipRx \in Seq(RxPkt)
  BY DEF TypeInv, TypeOK
<1>1. PICK L \in Nat : L = Len(lwipRx)
  BY <1>0
<1>2. Len(lwipRx') = L + 1 /\ lwipRx'[L + 1] = x /\ \A i \in 1..L : lwipRx'[i] = lwipRx[i]
  BY <1>0, <1>1
<1>3. ASSUME NEW i \in 1..(L + 1) PROVE Follow(i)'
  <2>1. CASE i \in 1..L
    <3>1. \A j \in 1..(i - 1) : j \in 1..L
      BY <2>1
    <3>2. Follow(i)
      BY <2>1, <1>1
    <3> QED
      BY <2>1, <3>1, <3>2, <1>2 DEF Follow
  <2>2. CASE i = L + 1
    <3>1. i - 1 = L
      BY <2>2
    <3>2. lwipRx'[i] = x
      BY <2>2, <1>2
    <3> QED
      BY <3>1, <3>2, <1>1, <1>2 DEF Follow
  <2> QED
    BY <2>1, <2>2
<1>4. Latest(x.s)'
  <2>1. L + 1 \in 1..(L + 1)
    OBVIOUS
  <2> QED
    BY <2>1, <1>2 DEF Latest
<1>5. ASSUME NEW s \in Sess, s # x.s, Latest(s) PROVE Latest(s)'
  <2>1. \A j \in 1..L : j \in 1..(L + 1)
    OBVIOUS
  <2> QED
    BY <2>1, <1>1, <1>2, <1>5 DEF Latest
<1>6. AckReconstructed'
  <2>1. rx.pc = "delay" => Head(lwipRx') = Head(lwipRx)
    BY HeadStays
  <2> QED
    BY <2>1 DEF AckReconstructed
<1> QED
  BY <1>2, <1>3, <1>4, <1>5, <1>6

\* A step that moves no ACK.
LEMMA GapFrame ==
    ASSUME GapInv, UNCHANGED <<rx, lwipRx, realTcpRemoteAckNum, peerAck, peerEdge>>,
           \A s \in Sess : Answered(s)' => Answered(s), \A s \in Sess : fired'[s] <= MaxFired
    PROVE  GapInv'
BY DEF GapInv, Follow, Latest, AckReconstructed

\* updateRx() stores the number of the packet at the head.
LEMMA GapStoreAck ==
    ASSUME TypeInv, AckInv, TrackInv, GapInv, RxStoreAck PROVE GapInv'
<1>0. TypeOK /\ realTcpRemoteAckNum \in [Sess -> Nat] /\ peerAck \in [Sess -> Nat]
  BY DEF TypeInv, TypeOK
<1>1. PICK s \in Sess, r \in Nat, a \in Nat :
        /\ s = Head(lwipRx).s /\ a = Head(lwipRx).ack /\ lwipRx # <<>>
        /\ realTcpRemoteAckNum' = [realTcpRemoteAckNum EXCEPT ![s] = r]
        /\ realTcpRemoteAckNum[s] <= r /\ r <= a /\ a <= peerAck[s]
        /\ a - realTcpRemoteAckNum[s] < SeqMod => r = a
  BY RealGrows
<1>2. rx'.pc = "delay" /\ UNCHANGED <<conn, lwipRx, fired, peerAck, peerEdge>>
  BY DEF RxStoreAck
<1>3. 1 \in 1..Len(lwipRx) /\ Head(lwipRx) = lwipRx[1]
  BY <1>0, <1>1, HeadIsFirst
<1>4. r = a
  <2>1. Follow(1)
    BY <1>3 DEF GapInv
  <2>2. ~\E j \in 1..(1 - 1) : TRUE
    OBVIOUS
  <2> QED
    BY <2>1, <2>2, <1>1, <1>3 DEF Follow
<1>5. /\ realTcpRemoteAckNum'[s] = r
      /\ \A q \in Sess : realTcpRemoteAckNum[q] <= realTcpRemoteAckNum'[q]
      /\ \A q \in Sess : q # s => realTcpRemoteAckNum'[q] = realTcpRemoteAckNum[q]
  BY <1>0, <1>1
<1>6. AckReconstructed'
  BY <1>1, <1>2, <1>4, <1>5 DEF AckReconstructed
<1>7. ASSUME NEW i \in 1..Len(lwipRx) PROVE Follow(i)'
  <2>1. PICK q \in Sess, b \in Nat : q = lwipRx[i].s /\ b = lwipRx[i].ack
    BY <1>0, RxEntry
  <2>2. PICK k \in Nat, l \in Nat : k = realTcpRemoteAckNum[q] /\ l = realTcpRemoteAckNum'[q] /\ k <= l
    BY <1>0, <1>1, <1>5
  <2>3. Follow(i)
    BY DEF GapInv
  <2>4. CASE b - k < SeqMod
    <3>1. b - l < SeqMod
      BY <2>2, <2>4
    <3> QED
      BY <3>1, <2>1, <2>2, <1>2 DEF Follow
  <2>5. CASE ~(b - k < SeqMod)
    BY <2>1, <2>2, <2>3, <2>5, <1>2 DEF Follow
  <2> QED
    BY <2>4, <2>5
<1>8. ASSUME NEW q \in Sess, Latest(q) PROVE Latest(q)'
  <2>1. CASE realTcpRemoteAckNum[q] = peerAck[q] /\ q = s
    <3>1. PICK k \in Nat, l \in Nat : k = realTcpRemoteAckNum[s] /\ l = peerAck[s]
      BY <1>0
    <3>2. r = l
      BY <2>1, <3>1, <1>1
    <3> QED
      BY <2>1, <3>1, <3>2, <1>2, <1>5 DEF Latest
  <2>2. CASE realTcpRemoteAckNum[q] = peerAck[q] /\ q # s
    BY <2>2, <1>2, <1>5 DEF Latest
  <2>3. CASE realTcpRemoteAckNum[q] # peerAck[q]
    BY <2>3, <1>2, <1>8 DEF Latest
  <2> QED
    BY <2>1, <2>2, <2>3
<1>9. \A q \in Sess : Answered(q)' = Answered(q)
  BY <1>2 DEF Answered
<1> QED
  BY <1>2, <1>6, <1>7, <1>8, <1>9 DEF GapInv

\* The packet at the head leaves; its number is the stored one.
LEMMA GapForward ==
    ASSUME TypeInv, AckInv, GapInv, RxForward, \A s \in Sess : Answered(s)' => Answered(s) PROVE GapInv'
<1>0. TypeOK /\ HeadHeld /\ lwipRx \in Seq(RxPkt)
  BY DEF TypeInv, TypeOK
<1>1. /\ rx.pc = "delay" /\ rx'.pc = "idle" /\ lwipRx # <<>> /\ lwipRx' = Tail(lwipRx)
      /\ UNCHANGED <<realTcpRemoteAckNum, peerAck, peerEdge, fired>>
  BY <1>0 DEF RxForward, RxForwardPkt, HeadHeld, Idle
<1>2. Head(lwipRx) = lwipRx[1]
  BY <1>0, <1>1
<1>3. PICK L \in Nat : Len(lwipRx) = L + 1 /\ Len(lwipRx') = L
                       /\ \A i \in 1..L : lwipRx'[i] = lwipRx[i + 1] /\ i + 1 \in 1..(L + 1)
  <2>1. PICK K \in Nat : K = Len(lwipRx) /\ K >= 1
    BY <1>0, <1>1
  <2>2. K - 1 \in Nat /\ (K - 1) + 1 = K
    BY <2>1
  <2>3. Len(lwipRx') = K - 1 /\ \A i \in 1..(K - 1) : lwipRx'[i] = lwipRx[i + 1] /\ i + 1 \in 1..K
    BY <1>0, <1>1, <2>1
  <2> QED
    BY <2>1, <2>2, <2>3
<1>4. realTcpRemoteAckNum[lwipRx[1].s] = lwipRx[1].ack
  BY <1>1, <1>2 DEF GapInv, AckReconstructed
<1>5. ASSUME NEW i \in 1..L PROVE Follow(i)'
  <2>1. Follow(i + 1) /\ lwipRx'[i] = lwipRx[i + 1]
    BY <1>3 DEF GapInv
  <2>2. CASE lwipRx[i + 1].ack - realTcpRemoteAckNum[lwipRx[i + 1].s] < SeqMod
    BY <2>1, <2>2, <1>1 DEF Follow
  <2>3. ASSUME NEW j \in 1..((i + 1) - 1), lwipRx[j].s = lwipRx[i + 1].s,
               lwipRx[i + 1].ack - lwipRx[j].ack < SeqMod
        PROVE  Follow(i)'
    <3>1. CASE j = 1
      BY <2>1, <2>3, <3>1, <1>1, <1>4 DEF Follow
    <3>2. CASE j # 1
      <4>1. PICK k \in 1..(i - 1) : j = k + 1 /\ k \in 1..L
        <5>1. j - 1 \in 1..(i - 1) /\ j = (j - 1) + 1 /\ j - 1 \in 1..L
          BY <3>2
        <5> QED
          BY <5>1
      <4>2. lwipRx'[k] = lwipRx[j]
        BY <4>1, <1>3
      <4> QED
        BY <4>1, <4>2, <2>1, <2>3 DEF Follow
    <3> QED
      BY <3>1, <3>2
  <2> QED
    BY <2>1, <2>2, <2>3 DEF Follow
<1>6. ASSUME NEW s \in Sess, Latest(s) PROVE Latest(s)'
  <2>1. CASE realTcpRemoteAckNum[s] = peerAck[s]
    BY <2>1, <1>1 DEF Latest
  <2>2. ASSUME NEW j \in 1..Len(lwipRx), lwipRx[j].s = s, lwipRx[j].ack = peerAck[s] PROVE Latest(s)'
    <3>1. CASE j = 1
      BY <2>2, <3>1, <1>1, <1>4 DEF Latest
    <3>2. CASE j # 1
      <4>1. PICK k \in 1..L : j = k + 1
        <5>1. j - 1 \in 1..L /\ j = (j - 1) + 1
          BY <3>2, <1>3
        <5> QED
          BY <5>1
      <4>2. lwipRx'[k] = lwipRx[j]
        BY <4>1, <1>3
      <4> QED
        BY <4>1, <4>2, <2>2, <1>1, <1>3 DEF Latest
    <3> QED
      BY <3>1, <3>2
  <2> QED
    BY <2>1, <2>2, <1>6 DEF Latest
<1> QED
  BY <1>1, <1>3, <1>5, <1>6 DEF GapInv, AckReconstructed

\* Every step keeps GapInv.
LEMMA GapStep ==
    ASSUME Spacious, "staleAck" \notin Env, TypeInv, TypeInv', AckInv, TrackInv, WindowInv, GapInv,
           [Next]_vars
    PROVE  GapInv'
<1>0. /\ TypeOK /\ Handshake /\ peerAck \in [Sess -> Nat] /\ peerEdge \in [Sess -> Nat]
      /\ realTcpRemoteAckNum \in [Sess -> Nat] /\ fired \in [Sess -> Nat]
      /\ conn \in [Sess -> {"closed", "synSent", "synAcked", "firstAck", "up"}]
  BY DEF TypeInv, TypeOK, AckInv
<1>a. \A s \in Sess : Answered(s)' => Answered(s) \/ \E w \in PeerWnds : PeerSynAck(s, w)
  BY AnsweredStep
<1>b. /\ \A i \in 1..Len(lwipRx) : Follow(i)
      /\ \A s \in Sess : Answered(s) => Latest(s)
      /\ \A s \in Sess : Answered(s) => \E w \in PeerWnds : peerEdge[s] = peerAck[s] + w
      /\ \A s \in Sess : fired[s] <= MaxFired
      /\ AckReconstructed
  BY DEF GapInv
<1>f. ASSUME UNCHANGED <<conn, rx, lwipRx, realTcpRemoteAckNum, peerAck, peerEdge, fired>> PROVE GapInv'
  <2>1. \A s \in Sess : Answered(s)' => Answered(s)
    BY <1>f DEF Answered
  <2> QED
    BY <2>1, <1>b, <1>f, GapFrame
<1>1. ASSUME NEW s \in Sess, SendSyn(s) PROVE GapInv'
  <2>1. /\ conn[s] = "closed" /\ conn' = [conn EXCEPT ![s] = "synSent"]
        /\ realTcpRemoteAckNum' = [realTcpRemoteAckNum EXCEPT ![s] = Base]
        /\ peerAck' = [peerAck EXCEPT ![s] = Base]
        /\ UNCHANGED <<lwipRx, rx, fired, peerEdge>>
    BY <1>1 DEF SendSyn
  <2>2. \A r \in Sess : Answered(r)' => Answered(r) /\ r # s
    BY <2>1, <1>0 DEF Answered
  <2>3. \A r \in Sess : r # s => realTcpRemoteAckNum'[r] = realTcpRemoteAckNum[r]
                                 /\ peerAck'[r] = peerAck[r]
    BY <2>1, <1>0
  <2>4. \A i \in 1..Len(lwipRx) : lwipRx[i].s \in Sess /\ lwipRx[i].s # s
    BY <2>1, <1>0, RxEntry DEF Handshake
  <2>5. ASSUME NEW i \in 1..Len(lwipRx) PROVE Follow(i)'
    <3>1. realTcpRemoteAckNum'[lwipRx[i].s] = realTcpRemoteAckNum[lwipRx[i].s]
      BY <2>3, <2>4
    <3> QED
      BY <3>1, <2>1, <1>b DEF Follow
  <2>6. ASSUME NEW r \in Sess, Answered(r)' PROVE Latest(r)'
    <3>1. r # s /\ Latest(r)
      BY <2>2, <2>6, <1>b
    <3> QED
      BY <3>1, <2>1, <2>3 DEF Latest
  <2>7. \A r \in Sess : Answered(r)' => \E w \in PeerWnds : peerEdge'[r] = peerAck'[r] + w
    BY <2>1, <2>2, <2>3, <1>b
  <2>8. rx.pc = "delay" => Head(lwipRx).s \in Sess /\ Head(lwipRx).s # s
    <3>1. rx.pc = "delay" => lwipRx # <<>>
      BY DEF TypeInv, HeadHeld
    <3> QED
      BY <3>1, <2>4, <1>0, HeadIsFirst
  <2>9. AckReconstructed'
    BY <2>1, <2>3, <2>8, <1>b DEF AckReconstructed
  <2> QED
    BY <2>1, <2>5, <2>6, <2>7, <2>9, <1>b DEF GapInv
<1>2. ASSUME NEW s \in Sess, NEW w \in PeerWnds, PeerSynAck(s, w) PROVE GapInv'
  <2>1. /\ conn[s] = "synSent" /\ conn' = [conn EXCEPT ![s] = "synAcked"]
        /\ lwipRx' = Append(lwipRx, [s |-> s, ack |-> Base, wnd |-> w, syn |-> TRUE])
        /\ peerEdge' = [peerEdge EXCEPT ![s] = Base + w]
        /\ UNCHANGED <<rx, realTcpRemoteAckNum, peerAck, fired>>
    BY <1>2 DEF PeerSynAck
  <2>2. PICK x : x = [s |-> s, ack |-> Base, wnd |-> w, syn |-> TRUE]
    OBVIOUS
  <2>3. x.s = s /\ x.ack = Base /\ lwipRx' = Append(lwipRx, x)
    BY <2>1, <2>2
  <2>4. realTcpRemoteAckNum[s] = Base /\ peerAck[s] = Base
    BY <2>1, <1>0 DEF Handshake
  <2>5. x.ack - realTcpRemoteAckNum[x.s] < SeqMod
    <3>1. Base \in Nat /\ SeqMod \in Nat \ {0}
      BY BaseNat
    <3> QED
      BY <3>1, <2>3, <2>4
  <2>6. /\ \A i \in 1..Len(lwipRx') : Follow(i)'
        /\ Latest(x.s)' /\ \A r \in Sess : r # x.s /\ Latest(r) => Latest(r)'
        /\ AckReconstructed'
    BY <2>1, <2>3, <2>4, <2>5, <1>b, GapAppend
  <2>7. \A r \in Sess : r # s /\ Answered(r)' => Answered(r)
    BY <2>1, <1>0 DEF Answered
  <2>8. ASSUME NEW r \in Sess, Answered(r)'
        PROVE  Latest(r)' /\ \E v \in PeerWnds : peerEdge'[r] = peerAck'[r] + v
    <3>1. CASE r = s
      BY <3>1, <2>1, <2>3, <2>4, <2>6, <1>0
    <3>2. CASE r # s
      <4>1. Answered(r) /\ peerEdge'[r] = peerEdge[r] /\ peerAck'[r] = peerAck[r]
        BY <3>2, <2>1, <2>7, <2>8, <1>0
      <4> QED
        BY <3>2, <4>1, <2>3, <2>6, <1>b
    <3> QED
      BY <3>1, <3>2
  <2> QED
    BY <2>1, <2>6, <2>8, <1>b DEF GapInv
<1>3. ASSUME NEW s \in Sess, ConnectReturn(s) PROVE GapInv'
  <2>1. \A r \in Sess : Answered(r)' => Answered(r)
    BY <1>3, <1>0 DEF ConnectReturn, Answered
  <2> QED
    BY <2>1, <1>3, <1>b, GapFrame DEF ConnectReturn
<1>4. ASSUME NEW s \in Sess, PeerAckAny(s) PROVE GapInv'
  <2>1. PICK a \in peerAck[s]..PeerGot(s), w \in PeerWnds : PeerSendAck(s, a, w)
    BY <1>4 DEF PeerAckAny
  <2>2. /\ conn[s] = "up"
        /\ lwipRx' = Append(lwipRx, [s |-> s, ack |-> a, wnd |-> w, syn |-> FALSE])
        /\ peerEdge' = [peerEdge EXCEPT ![s] = a + w] /\ peerAck' = [peerAck EXCEPT ![s] = a]
        /\ UNCHANGED <<conn, rx, realTcpRemoteAckNum, fired>>
    BY <2>1 DEF PeerSendAck, PeerSend
  <2>3. PICK x : x = [s |-> s, ack |-> a, wnd |-> w, syn |-> FALSE]
    OBVIOUS
  <2>4. x.s = s /\ x.ack = a /\ lwipRx' = Append(lwipRx, x)
    BY <2>2, <2>3
  <2>5. Answered(s)
    BY <2>2 DEF Answered
  <2>6. a \in Nat /\ a <= PeerGot(s)
    <3>1. peerAck[s] \in Nat /\ wire[s] \in Nat
      BY <1>0 DEF TypeOK
    <3>2. PeerGot(s) \in Nat
      BY <3>1 DEF PeerGot
    <3> QED
      BY <3>1, <3>2
  <2>7. a - peerAck[s] < SeqMod
    BY <2>5, <2>6, <1>0, GapNext
  <2>8. /\ x.ack = peerAck'[x.s] /\ \A r \in Sess : r # x.s => peerAck'[r] = peerAck[r]
    BY <2>2, <2>4, <1>0
  <2>9. \/ x.ack - realTcpRemoteAckNum[x.s] < SeqMod
        \/ \E j \in 1..Len(lwipRx) : lwipRx[j].s = x.s /\ x.ack - lwipRx[j].ack < SeqMod
    BY <2>4, <2>5, <2>7, <1>b DEF Latest
  <2>10. /\ \A i \in 1..Len(lwipRx') : Follow(i)'
         /\ Latest(x.s)' /\ \A r \in Sess : r # x.s /\ Latest(r) => Latest(r)'
         /\ AckReconstructed'
    BY <2>2, <2>4, <2>8, <2>9, <1>b, GapAppend
  <2>11. ASSUME NEW r \in Sess, Answered(r)'
         PROVE  Latest(r)' /\ \E v \in PeerWnds : peerEdge'[r] = peerAck'[r] + v
    <3>1. CASE r = s
      BY <3>1, <2>2, <2>4, <2>10, <1>0
    <3>2. CASE r # s
      <4>1. Answered(r)
        BY <2>2, <2>11 DEF Answered
      <4>2. peerEdge'[r] = peerEdge[r] /\ peerAck'[r] = peerAck[r]
        BY <3>2, <2>2, <1>0
      <4> QED
        BY <3>2, <4>1, <4>2, <2>4, <2>10, <1>b
    <3> QED
      BY <3>1, <3>2
  <2> QED
    BY <2>2, <2>10, <2>11, <1>b DEF GapInv
<1>5. ASSUME RxForward PROVE GapInv'
  <2>1. rx.pc = "delay" /\ rx'.pc = "idle"
    BY <1>5 DEF RxForward, RxForwardPkt, Idle
  <2>2. \A s \in Sess : \A w \in PeerWnds : ~PeerSynAck(s, w)
    BY <2>1 DEF PeerSynAck
  <2> QED
    BY <2>2, <1>a, <1>5, GapForward
<1>6. ASSUME NEW t \in Thread, AppStep(t) PROVE GapInv'
  BY <1>6, <1>f DEF AppStep, PreSendLoadAck, PreSendCheck, PreSendLimit, PreSendCount, FastSend
<1>7. ASSUME NEW t \in Thread, NEW s \in Sess, NEW n \in 1..MAX_PAYLOAD_SIZE,
             PreSendLoadFastPath(t, s, n)
      PROVE  GapInv'
  BY <1>7, <1>f DEF PreSendLoadFastPath
<1>8. ASSUME NEW s \in Sess, NEW n \in 1..MAX_PAYLOAD_SIZE, HwFire(s, n) PROVE GapInv'
  <2>1. /\ fired' = [fired EXCEPT ![s] = @ + n] /\ fired[s] + n <= MaxFired
        /\ UNCHANGED <<conn, rx, lwipRx, realTcpRemoteAckNum, peerAck, peerEdge>>
    BY <1>8 DEF HwFire
  <2>2. \A r \in Sess : fired'[r] <= MaxFired
    BY <2>1, <1>0, <1>b
  <2>3. \A r \in Sess : Answered(r)' => Answered(r)
    BY <2>1 DEF Answered
  <2> QED
    BY <2>1, <2>2, <2>3, GapFrame
<1>9. ASSUME NEW s \in Sess, Lose(s) \/ PeerReset(s) \/ Shutdown(s) \/ LwipNext(s)
      PROVE  GapInv'
  BY <1>9, <1>f DEF Lose, PeerReset, Shutdown, LwipNext, LwipOutput, LwipSendFin, LwipRetransmit
<1>10. ASSUME ServNext \/ Stop PROVE GapInv'
  BY <1>10, <1>f DEF ServNext, ServTake, ServWrite, ServWritten, ServWriteError, ServExit, Stop
<1>14. ASSUME RxDelay PROVE GapInv'
  <2>1. /\ rx.pc = "delay" /\ UNCHANGED <<conn, lwipRx, realTcpRemoteAckNum, peerAck, peerEdge>>
    BY <1>14, <1>0, DelayStays
  <2>2. UNCHANGED fired
    BY <1>14 DEF RxDelay, RxTestAhead, RxLoadTx, RxInsertEmptyAck
  <2>3. \A s : Answered(s)' = Answered(s) /\ Latest(s)' = Latest(s)
    BY <2>1 DEF Answered, Latest
  <2>4. \A i : Follow(i)' = Follow(i)
    BY <2>1 DEF Follow
  <2> QED
    BY <2>1, <2>2, <2>3, <2>4, <1>b DEF GapInv, AckReconstructed
<1>11. ASSUME RxStoreWnd PROVE GapInv'
  <2>1. rx'.pc = "storeAck" /\ UNCHANGED <<conn, lwipRx, realTcpRemoteAckNum, peerAck, peerEdge, fired>>
    BY <1>11 DEF RxStoreWnd
  <2>2. \A s : Answered(s)' = Answered(s) /\ Latest(s)' = Latest(s)
    BY <2>1 DEF Answered, Latest
  <2>3. \A i : Follow(i)' = Follow(i)
    BY <2>1 DEF Follow
  <2> QED
    BY <2>1, <2>2, <2>3, <1>b DEF GapInv, AckReconstructed
<1>12. CASE UNCHANGED vars
  BY <1>12, <1>f
<1>13. ASSUME NEW s \in Sess, PeerNext(s) PROVE GapInv'
  BY <1>13, <1>4, <1>9 DEF PeerNext, StaleAck
<1> QED
  BY <1>1, <1>2, <1>3, <1>5, <1>6, <1>7, <1>8, <1>9, <1>10, <1>11, <1>12, <1>13, <1>14, GapStoreAck
     DEF Next, RxNext, ConnectStep

\* The invariant of the ACK path.
StreamInv ==
    /\ TypeInv /\ AckInv /\ SynAlone /\ TrackInv /\ EdgeInv /\ LagInv /\ WindowInv /\ GapInv

\* It holds in the beginning.
LEMMA StreamInit == Init => StreamInv
BY TypeInit, AckInit, TrackInit, EdgeInit, LagInit, WindowInit, GapInit DEF StreamInv

\* Every step keeps it.
LEMMA StreamStep ==
    ASSUME Spacious, "staleAck" \notin Env, StreamInv, [Next]_vars
    PROVE  StreamInv'
<1>0. TypeInv /\ AckInv /\ SynAlone /\ TrackInv /\ EdgeInv /\ LagInv /\ WindowInv /\ GapInv /\ Roomy
  BY DEF StreamInv, Spacious
<1>1. TypeInv'
  BY <1>0, TypeStep
<1>2. AckInv' /\ SynAlone'
  BY <1>0, <1>1, AckStep, SynStep
<1>3. TrackInv' /\ EdgeInv'
  BY <1>0, <1>1, TrackStep, EdgeStep
<1>4. LagInv' /\ WindowInv'
  BY <1>0, <1>1, LagStep, WindowStep
<1>5. GapInv'
  BY <1>0, <1>1, GapStep
<1> QED
  BY <1>1, <1>2, <1>3, <1>4, <1>5 DEF StreamInv

\* seq32to64(): as long as a full window, a packet of each other thread, the HW fires and
\* a FIN take less than the sequence space, the 64-bit ACK number that updateRx() keeps is
\* the exchange's, however often the 32-bit number wraps.
THEOREM TcpAckReconstructed ==
    "staleAck" \notin Env /\ Spacious => (Spec => []AckReconstructed)
<1> SUFFICES ASSUME "staleAck" \notin Env, Spacious PROVE Spec => []AckReconstructed
  OBVIOUS
<1>1. Init => StreamInv
  BY StreamInit
<1>2. StreamInv /\ [Next]_vars => StreamInv'
  BY StreamStep
<1>3. StreamInv => AckReconstructed
  BY DEF StreamInv, GapInv
<1> QED
  BY <1>1, <1>2, <1>3, PTL DEF Spec

----------------------------------------------------------------------------
(* What lwIP is told of the ACKs.                                           *)

\* lwIP knows of no ACK of bytes that the driver has not counted as transmitted; the
\* driver's 32-bit number follows its count, also after the FIN.
Sent(s) ==
    /\ lwipLastAck[s] <= realTxDriverBytes[s]
    /\ realTxDriverBytes[s] <= lwipSndNxt[s]
    /\ lwipSndNxt[s] <= lwipLastAck[s] + (Cwnd + 1)
    /\ tcpLocalSeqNum[s] = realTxDriverBytes[s] % SeqMod

SentInv == exc_active => \A s \in Sess : Sent(s)

\* The empty ACKs acknowledge what the driver has counted, or nothing before the SYN.
Inserted(s) ==
    /\ lastInsertedEmptyAck[s] <= realTxDriverBytes[s]
    /\ conn[s] = "closed" => lastInsertedEmptyAck[s] = 0

InsertedInv == \A s \in Sess : Inserted(s)

\* Before the FIN this is TxInv.
LEMMA SentBeforeFin ==
    ASSUME TypeOK', TxInv', NEW s \in Sess, s \notin finSent'
    PROVE  Sent(s)'
<1>1. PICK a \in Nat, b \in Nat : a = lwipLastAck'[s] /\ b = lwipSndNxt'[s]
  BY DEF TypeOK
<1>2. /\ a <= b /\ b <= a + Cwnd /\ tcpLocalSeqNum'[s] = b % SeqMod /\ realTxDriverBytes'[s] = b
  BY <1>1 DEF TxInv
<1>3. b <= a + (Cwnd + 1) /\ b <= b
  BY <1>2
<1> QED
  BY <1>1, <1>2, <1>3 DEF Sent

\* lwIP gets an ACK for bytes that the driver has counted: it takes it, or knew more.
LEMMA SentInput ==
    ASSUME TypeOK, \A r \in Sess : Sent(r), NEW s \in Sess, NEW k \in Nat, NEW wnd, LwipInput(s, k, wnd),
           k <= realTxDriverBytes[s],
           UNCHANGED <<realTxDriverBytes, lwipSndNxt, tcpLocalSeqNum>>
    PROVE  lwipLastAck'[s] >= k /\ \A r \in Sess : Sent(r)'
<1>0. /\ lwipLastAck \in [Sess -> Nat] /\ lwipSndNxt \in [Sess -> Nat]
      /\ realTxDriverBytes \in [Sess -> Nat]
  BY DEF TypeOK
<1>1. PICK a \in Nat, b \in Nat, c \in Nat :
        a = lwipLastAck[s] /\ b = lwipSndNxt[s] /\ c = realTxDriverBytes[s]
  BY <1>0
<1>2. a <= c /\ c <= b /\ b <= a + (Cwnd + 1) /\ k <= c
  BY <1>1 DEF Sent
<1>3. PICK x \in Nat : x = IF a <= k /\ k <= b THEN k ELSE a
  OBVIOUS
<1>4. lwipLastAck' = [lwipLastAck EXCEPT ![s] = x]
  BY <1>0, <1>1, <1>3 DEF LwipInput
<1>5. lwipLastAck'[s] = x /\ \A r \in Sess : r # s => lwipLastAck'[r] = lwipLastAck[r]
  BY <1>0, <1>4
<1>6. x >= k /\ x <= c /\ b <= x + (Cwnd + 1)
  BY <1>2, <1>3
<1>7. Sent(s)'
  BY <1>1, <1>2, <1>5, <1>6 DEF Sent
<1>8. \A r \in Sess : r # s => Sent(r)'
  BY <1>5 DEF Sent
<1> QED
  BY <1>5, <1>6, <1>7, <1>8

\* The FIN, and what rides on it.
LEMMA SentFin ==
    ASSUME TypeOK, TxInv, \A r \in Sess : Sent(r), NEW s \in Sess, LwipSendFin(s)
    PROVE  \A r \in Sess : Sent(r)'
<1>0. /\ lwipLastAck[s] \in Nat /\ lwipSndNxt[s] \in Nat /\ lwipWritten[s] \in Nat
      /\ lwipSndWnd[s] \in Nat /\ lwipSndNxt \in [Sess -> Nat] /\ realTxDriverBytes[s] \in Nat
  BY DEF TypeOK
<1>1. lwipLastAck[s] <= lwipSndNxt[s] /\ lwipSndNxt[s] <= lwipWritten[s]
      /\ lwipSndNxt[s] <= lwipLastAck[s] + Cwnd
  BY DEF TxInv, LwipSendFin
<1>2. PICK n \in Nat : n = LwipMaySend(s) /\ n <= Cwnd - (lwipSndNxt[s] - lwipLastAck[s])
  BY <1>0, <1>1 DEF LwipMaySend, Lesser, Positive
<1>3. /\ lwipSndNxt' = [lwipSndNxt EXCEPT ![s] = @ + n + 1]
      /\ UNCHANGED <<lwipLastAck, tcpLocalSeqNum, realTxDriverBytes>>
  BY <1>2 DEF LwipSendFin
<1>4. /\ lwipSndNxt'[s] = lwipSndNxt[s] + n + 1
      /\ \A r \in Sess : r # s => lwipSndNxt'[r] = lwipSndNxt[r]
  BY <1>0, <1>3
<1>5. realTxDriverBytes[s] <= lwipSndNxt[s]
  BY DEF Sent
<1>6. /\ realTxDriverBytes[s] <= lwipSndNxt[s] + n + 1
      /\ lwipSndNxt[s] + n + 1 <= lwipLastAck[s] + (Cwnd + 1)
  BY <1>0, <1>2, <1>5
<1>7. Sent(s)'
  BY <1>3, <1>4, <1>6 DEF Sent
<1>8. \A r \in Sess : r # s => Sent(r)'
  BY <1>3, <1>4 DEF Sent
<1> QED
  BY <1>7, <1>8

\* A retransmission after the FIN: the driver takes what it has counted for old, and the
\* rest for a new dummy.
LEMMA SentRetransmit ==
    ASSUME 2 * (Cwnd + 1) <= SeqMod, TypeOK, \A r \in Sess : Sent(r), NEW s \in Sess, LwipRetransmit(s)
    PROVE  \A r \in Sess : Sent(r)'
<1>0. /\ lwipLastAck[s] \in Nat /\ lwipSndNxt[s] \in Nat /\ realTxDriverBytes[s] \in Nat
      /\ tcpLocalSeqNum \in [Sess -> 0..(SeqMod - 1)] /\ realTxDriverBytes \in [Sess -> Nat]
  BY DEF TypeOK
<1>1. PICK a \in Nat, b \in Nat, c \in Nat :
        a = lwipLastAck[s] /\ b = lwipSndNxt[s] /\ c = realTxDriverBytes[s]
  BY <1>0
<1>2. a <= c /\ c <= b /\ b <= a + (Cwnd + 1) /\ tcpLocalSeqNum[s] = c % SeqMod
  BY <1>1 DEF Sent
<1>3. /\ a < b /\ UNCHANGED <<lwipSndNxt, lwipLastAck>>
  BY <1>1 DEF LwipRetransmit
<1>4. PICK n \in Nat : n <= b - a /\ sendStackEthFrame(s, a, n)
  <2>1. Lesser(MAX_PAYLOAD_SIZE, b - a) \in Nat /\ Lesser(MAX_PAYLOAD_SIZE, b - a) <= b - a
    BY <1>3 DEF Lesser
  <2>2. sendStackEthFrame(s, a, Lesser(MAX_PAYLOAD_SIZE, b - a))
    BY <1>1 DEF LwipRetransmit
  <2> QED
    BY <2>1, <2>2
<1>5. CASE a < c
  <2>1. 2 * (c - a) <= SeqMod
    BY <1>2
  <2>2. TCP_SEQ_LT(a % SeqMod, tcpLocalSeqNum[s])
    BY <1>2, <1>5, <2>1, OldIsLess
  <2>3. UNCHANGED <<tcpLocalSeqNum, realTxDriverBytes>>
    BY <1>4, <2>2 DEF sendStackEthFrame
  <2> QED
    BY <1>3, <2>3 DEF Sent
<1>6. CASE a = c
  <2>1. ~TCP_SEQ_LT(a % SeqMod, tcpLocalSeqNum[s])
    BY <1>2, <1>6, SameIsNotLess
  <2>2. /\ tcpLocalSeqNum' = [tcpLocalSeqNum EXCEPT ![s] = (a + n) % SeqMod]
        /\ realTxDriverBytes' = [realTxDriverBytes EXCEPT ![s] = @ + n]
    BY <1>4, <2>1 DEF sendStackEthFrame, CountTx
  <2>3. /\ tcpLocalSeqNum'[s] = (a + n) % SeqMod /\ realTxDriverBytes'[s] = a + n
        /\ \A r \in Sess : r # s => tcpLocalSeqNum'[r] = tcpLocalSeqNum[r]
                                    /\ realTxDriverBytes'[r] = realTxDriverBytes[r]
    BY <1>0, <1>1, <1>6, <2>2
  <2>4. a <= a + n /\ a + n <= b
    BY <1>4
  <2>6. Sent(s)'
    BY <1>1, <1>2, <1>3, <2>3, <2>4 DEF Sent
  <2>7. \A r \in Sess : r # s => Sent(r)'
    BY <1>3, <2>3 DEF Sent
  <2> QED
    BY <2>6, <2>7
<1> QED
  BY <1>2, <1>5, <1>6

\* TcpRxThread hands the packet at the head to lwIP, which takes its ACK or knew more.
LEMMA SentForward ==
    ASSUME TypeInv, AckReconstructed, SentInv, exc_active, RxForward
    PROVE  /\ lwipLastAck'[Head(lwipRx).s] >= Head(lwipRx).ack
           /\ \A r \in Sess : Sent(r)'
<1>0. TypeOK /\ HeadHeld /\ \A r \in Sess : Sent(r)
  BY DEF TypeInv, SentInv
<1>1. PICK s \in Sess, k \in Nat : s = Head(lwipRx).s /\ k = Head(lwipRx).ack
  BY <1>0, RxHead DEF RxForward, HeadHeld
<1>2. PICK wnd : LwipInput(s, k, wnd)
  BY <1>1 DEF RxForward, RxForwardPkt
<1>3. UNCHANGED <<realTxDriverBytes, lwipSndNxt, tcpLocalSeqNum>>
  BY DEF RxForward, RxForwardPkt
<1>4. realTcpRemoteAckNum[s] = k
  BY <1>1 DEF AckReconstructed, RxForward
<1>5. realTxDriverBytes[s] \in Nat /\ ~(k > realTxDriverBytes[s])
  BY <1>0, <1>1, <1>4 DEF TypeOK, RxForward, AckAhead
<1>6. k <= realTxDriverBytes[s]
  BY <1>5
<1> QED
  BY <1>0, <1>1, <1>2, <1>3, <1>6, SentInput

\* insertEmptyRemoteAck() tells lwIP what the driver had counted.
LEMMA SentDelay ==
    ASSUME TypeInv, SentInv, InsertedInv, exc_active, RxDelay
    PROVE  \A r \in Sess : Sent(r)'
<1>0. TypeOK /\ HeadHeld /\ \A r \in Sess : Sent(r)
  BY DEF TypeInv, SentInv
<1>1. UNCHANGED <<realTxDriverBytes, lwipSndNxt, tcpLocalSeqNum>>
  BY DEF RxDelay, RxTestAhead, RxLoadTx, RxInsertEmptyAck
<1>2. CASE RxTestAhead \/ RxLoadTx
  <2>1. UNCHANGED lwipLastAck
    BY <1>2 DEF RxTestAhead, RxLoadTx
  <2> QED
    BY <2>1, <1>0, <1>1 DEF Sent
<1>3. CASE RxInsertEmptyAck
  <2>1. PICK s \in Sess : s = Head(lwipRx).s
    BY <1>0, <1>3, RxHead DEF RxInsertEmptyAck, HeadHeld
  <2>2. PICK k \in Nat : k = lastInsertedEmptyAck[s]
    BY <1>0 DEF TypeOK
  <2>3. PICK wnd : LwipInput(s, k, wnd)
    BY <2>1, <2>2, <1>3 DEF RxInsertEmptyAck
  <2>4. k <= realTxDriverBytes[s]
    BY <2>2 DEF InsertedInv, Inserted
  <2> QED
    BY <1>0, <1>1, <2>3, <2>4, SentInput
<1> QED
  BY <1>2, <1>3 DEF RxDelay

\* Nothing is sent in the beginning.
LEMMA SentInit == Init => SentInv
<1> SUFFICES ASSUME Init, NEW s \in Sess PROVE Sent(s)
  BY DEF SentInv
<1>1. 0 % SeqMod = 0
  BY TxInit DEF TxInv, Init
<1>2. 0 <= 0 + (Cwnd + 1)
  OBVIOUS
<1> QED
  BY <1>1, <1>2 DEF Init, Sent

\* No empty ACK was inserted in the beginning.
LEMMA InsertedInit == Init => InsertedInv
BY DEF Init, InsertedInv, Inserted

\* Only the load of updateRx() moves the number of the empty ACK, to the driver's count,
\* which never falls but for the SYN.
LEMMA InsertedStep ==
    ASSUME TypeInv, AckInv, InsertedInv, [Next]_vars
    PROVE  InsertedInv'
<1>0. /\ TypeOK /\ HeadHeld /\ Handshake
      /\ lastInsertedEmptyAck \in [Sess -> Nat] /\ realTxDriverBytes \in [Sess -> Nat]
      /\ conn \in [Sess -> {"closed", "synSent", "synAcked", "firstAck", "up"}]
  BY DEF TypeInv, TypeOK, AckInv
<1>f. ASSUME UNCHANGED <<lastInsertedEmptyAck, realTxDriverBytes>>,
             \A s \in Sess : conn'[s] = "closed" => conn[s] = "closed"
      PROVE  InsertedInv'
  BY <1>f DEF InsertedInv, Inserted
<1>c. ASSUME NEW s \in Sess, NEW n \in Nat, UNCHANGED <<lastInsertedEmptyAck, conn>>,
             realTxDriverBytes' = [realTxDriverBytes EXCEPT ![s] = @ + n]
      PROVE  InsertedInv'
  <2>1. ASSUME NEW r \in Sess PROVE Inserted(r)'
    <3>1. lastInsertedEmptyAck[r] \in Nat /\ realTxDriverBytes[r] \in Nat
      BY <1>0
    <3>2. lastInsertedEmptyAck[r] <= realTxDriverBytes[r]
      BY DEF InsertedInv, Inserted
    <3>3. realTxDriverBytes'[r] = realTxDriverBytes[r] \/ realTxDriverBytes'[r] = realTxDriverBytes[r] + n
      BY <1>0, <1>c
    <3>4. lastInsertedEmptyAck[r] <= realTxDriverBytes'[r]
      BY <3>1, <3>2, <3>3
    <3> QED
      BY <3>4, <1>c DEF InsertedInv, Inserted
  <2> QED
    BY <2>1 DEF InsertedInv
<1>d. ASSUME NEW s \in Sess, NEW n \in Nat, NEW q, UNCHANGED <<lastInsertedEmptyAck, conn>>,
             sendStackEthFrame(s, q, n)
      PROVE  InsertedInv'
  <2>1. CASE TCP_SEQ_LT(q % SeqMod, tcpLocalSeqNum[s])
    BY <2>1, <1>d, <1>f DEF sendStackEthFrame
  <2>2. CASE ~TCP_SEQ_LT(q % SeqMod, tcpLocalSeqNum[s])
    BY <2>2, <1>d, <1>c DEF sendStackEthFrame, CountTx
  <2> QED
    BY <2>1, <2>2
<1>1. ASSUME NEW s \in Sess, SendSyn(s) PROVE InsertedInv'
  <2>1. /\ conn[s] = "closed" /\ conn' = [conn EXCEPT ![s] = "synSent"]
        /\ realTxDriverBytes' = [realTxDriverBytes EXCEPT ![s] = Base]
        /\ UNCHANGED lastInsertedEmptyAck
    BY <1>1 DEF SendSyn
  <2>2. lastInsertedEmptyAck'[s] = 0 /\ realTxDriverBytes'[s] = Base /\ Base \in Nat
    BY <2>1, <1>0, BaseNat DEF InsertedInv, Inserted
  <2>3. 0 <= Base
    BY <2>2
  <2>4. conn'[s] = "synSent"
    BY <2>1, <1>0
  <2>5. Inserted(s)'
    BY <2>2, <2>3, <2>4 DEF Inserted
  <2>6. \A r \in Sess : r # s => Inserted(r)'
    BY <2>1, <1>0 DEF InsertedInv, Inserted
  <2> QED
    BY <2>5, <2>6 DEF InsertedInv
<1>2. ASSUME NEW s \in Sess, LwipOutput(s) PROVE InsertedInv'
  <2>1. UNCHANGED <<lastInsertedEmptyAck, conn>>
        /\ sendStackEthFrame(s, lwipSndNxt[s], LwipMaySend(s)) /\ LwipMaySend(s) > 0
    BY <1>2 DEF LwipOutput
  <2>2. LwipMaySend(s) \in Nat
    <3>1. /\ lwipLastAck[s] \in Nat /\ lwipSndNxt[s] \in Nat /\ lwipWritten[s] \in Nat
          /\ lwipSndWnd[s] \in Nat
      BY <1>0 DEF TypeOK
    <3> QED
      BY <2>1, <3>1 DEF LwipMaySend, Lesser, Positive
  <2> QED
    BY <2>1, <2>2, <1>d
<1>3. ASSUME NEW s \in Sess, LwipRetransmit(s) PROVE InsertedInv'
  <2>1. PICK a \in Nat, b \in Nat : a = lwipLastAck[s] /\ b = lwipSndNxt[s] /\ a < b
    BY <1>3, <1>0 DEF TypeOK, LwipRetransmit
  <2>2. PICK n \in Nat : n = Lesser(MAX_PAYLOAD_SIZE, b - a)
    BY <2>1 DEF Lesser
  <2>3. sendStackEthFrame(s, a, n) /\ UNCHANGED <<lastInsertedEmptyAck, conn>>
    BY <1>3, <2>1, <2>2 DEF LwipRetransmit
  <2> QED
    BY <2>3, <1>d
<1>4. ASSUME RxDelay PROVE InsertedInv'
  <2>1. UNCHANGED <<realTxDriverBytes, conn>>
    BY <1>4 DEF RxDelay, RxTestAhead, RxLoadTx, RxInsertEmptyAck
  <2>2. CASE UNCHANGED lastInsertedEmptyAck
    BY <2>1, <2>2, <1>f
  <2>3. CASE ~(UNCHANGED lastInsertedEmptyAck)
    <3>1. RxLoadTx
      BY <1>4, <2>3 DEF RxDelay, RxTestAhead, RxInsertEmptyAck
    <3>2. lwipRx # <<>> /\ 1 \in 1..Len(lwipRx) /\ Head(lwipRx) = lwipRx[1]
      BY <3>1, <1>0, HeadIsFirst DEF RxLoadTx, HeadHeld
    <3>3. PICK s \in Sess : s = Head(lwipRx).s /\ conn[s] # "closed"
      BY <3>2, <1>0, RxHead DEF Handshake
    <3>4. lastInsertedEmptyAck' = [lastInsertedEmptyAck EXCEPT ![s] = realTxDriverBytes[s]]
      BY <3>1, <3>3, <2>3, <1>0 DEF RxLoadTx
    <3>5. \A r \in Sess : r # s => Inserted(r)'
      BY <3>4, <2>1, <1>0 DEF InsertedInv, Inserted
    <3>6. lastInsertedEmptyAck'[s] = realTxDriverBytes[s] /\ realTxDriverBytes[s] \in Nat
      BY <3>4, <1>0
    <3>7. realTxDriverBytes[s] <= realTxDriverBytes[s]
      BY <3>6
    <3>8. Inserted(s)'
      BY <3>3, <3>6, <3>7, <2>1 DEF Inserted
    <3> QED
      BY <3>5, <3>8 DEF InsertedInv
  <2> QED
    BY <2>2, <2>3
<1>5. ASSUME RxStoreWnd \/ RxStoreAck \/ ServNext \/ Stop PROVE InsertedInv'
  BY <1>5, <1>f DEF RxStoreWnd, RxStoreAck, ServNext, ServTake, ServWrite, ServWritten,
     ServWriteError, ServExit, Stop
<1>6. ASSUME RxForward PROVE InsertedInv'
  BY <1>6, <1>f, <1>0 DEF RxForward, RxForwardPkt
<1>7. ASSUME NEW s \in Sess, ConnectReturn(s) \/ \E w \in PeerWnds : PeerSynAck(s, w)
      PROVE  InsertedInv'
  BY <1>7, <1>f, <1>0 DEF ConnectReturn, PeerSynAck
<1>8. ASSUME NEW s \in Sess, PeerNext(s) \/ Shutdown(s) \/ LwipSendFin(s) PROVE InsertedInv'
  BY <1>8, <1>f DEF PeerNext, PeerAckAny, PeerSendAck, StaleAck, Lose, PeerReset, Shutdown,
     LwipSendFin
<1>9. ASSUME NEW t \in Thread, AppStep(t) PROVE InsertedInv'
  BY <1>9, <1>f DEF AppStep, PreSendLoadAck, PreSendCheck, PreSendLimit, PreSendCount, FastSend
<1>10. ASSUME NEW t \in Thread, NEW s \in Sess, NEW n \in 1..MAX_PAYLOAD_SIZE,
              PreSendLoadFastPath(t, s, n)
       PROVE  InsertedInv'
  BY <1>10, <1>f DEF PreSendLoadFastPath
<1>11. ASSUME NEW s \in Sess, NEW n \in 1..MAX_PAYLOAD_SIZE, HwFire(s, n) PROVE InsertedInv'
  BY <1>11, <1>f DEF HwFire
<1>12. CASE UNCHANGED vars
  BY <1>12, <1>f
<1> QED
  BY <1>1, <1>2, <1>3, <1>4, <1>5, <1>6, <1>7, <1>8, <1>9, <1>10, <1>11, <1>12
     DEF Next, RxNext, ConnectStep, LwipNext

\* Every step keeps SentInv.
LEMMA SentStep ==
    ASSUME 2 * (Cwnd + 1) <= SeqMod, TypeInv, TypeInv', AckInv, TrackInv, AckReconstructed,
           TxInv, TxInv', InsertedInv, SentInv, [Next]_vars
    PROVE  SentInv'
<1> SUFFICES ASSUME exc_active' PROVE \A s \in Sess : Sent(s)'
  BY DEF SentInv
<1>0. TypeOK /\ TypeOK' /\ HeadHeld
  BY DEF TypeInv
<1>a. exc_active => \A s \in Sess : Sent(s)
  BY DEF SentInv
<1>f. ASSUME UNCHANGED <<exc_active, lwipLastAck, realTxDriverBytes, lwipSndNxt, tcpLocalSeqNum>>
      PROVE  \A s \in Sess : Sent(s)'
  BY <1>a, <1>f DEF Sent
<1>1. ASSUME NEW s \in Sess, SendSyn(s) PROVE \A r \in Sess : Sent(r)'
  <2>1. /\ tcpLocalSeqNum' = [tcpLocalSeqNum EXCEPT ![s] = Base]
        /\ realTxDriverBytes' = [realTxDriverBytes EXCEPT ![s] = Base]
        /\ lwipSndNxt' = [lwipSndNxt EXCEPT ![s] = Base]
        /\ lwipLastAck' = [lwipLastAck EXCEPT ![s] = Base]
        /\ exc_active
    BY <1>1 DEF SendSyn
  <2>2. /\ lwipSndNxt \in [Sess -> Nat]
        /\ lwipLastAck \in [Sess -> Nat] /\ realTxDriverBytes \in [Sess -> Nat]
        /\ tcpLocalSeqNum \in [Sess -> 0..(SeqMod - 1)]
    BY <1>0 DEF TypeOK
  <2>3. \A r \in Sess : r # s => Sent(r)'
    BY <2>1, <2>2, <1>a DEF Sent
  <2>4. Base \in Nat /\ Base = Base % SeqMod
    <3>1. Base \in Nat /\ Base \in 0..(SeqMod - 1) /\ SeqMod \in Nat \ {0} /\ 0 \in Int
      BY BaseNat
    <3>2. (SeqMod * 0 + Base) % SeqMod = Base
      BY <3>1, ModUnique
    <3>3. SeqMod * 0 + Base = Base
      BY <3>1
    <3> QED
      BY <3>1, <3>2, <3>3
  <2>5. Base <= Base /\ Base <= Base + (Cwnd + 1)
    BY <2>4
  <2>6. Sent(s)'
    BY <2>1, <2>2, <2>4, <2>5 DEF Sent
  <2> QED
    BY <2>3, <2>6
<1>2. ASSUME NEW s \in Sess, LwipOutput(s) PROVE \A r \in Sess : Sent(r)'
  <2>1. /\ exc_active /\ s \notin finSent' /\ UNCHANGED lwipLastAck
        /\ lwipSndNxt' = [lwipSndNxt EXCEPT ![s] = @ + LwipMaySend(s)]
        /\ sendStackEthFrame(s, lwipSndNxt[s], LwipMaySend(s))
    BY <1>2 DEF LwipOutput
  <2>2. /\ lwipSndNxt \in [Sess -> Nat] /\ realTxDriverBytes \in [Sess -> Nat]
        /\ tcpLocalSeqNum \in [Sess -> 0..(SeqMod - 1)]
    BY <1>0 DEF TypeOK
  <2>3. \A r \in Sess : r # s => /\ lwipSndNxt'[r] = lwipSndNxt[r]
                                 /\ realTxDriverBytes'[r] = realTxDriverBytes[r]
                                 /\ tcpLocalSeqNum'[r] = tcpLocalSeqNum[r]
    BY <2>1, <2>2 DEF sendStackEthFrame, CountTx
  <2>4. \A r \in Sess : r # s => Sent(r)'
    BY <2>1, <2>3, <1>a DEF Sent
  <2>6. Sent(s)'
    BY <2>1, <1>0, SentBeforeFin
  <2> QED
    BY <2>4, <2>6
<1>3. ASSUME NEW s \in Sess, LwipSendFin(s) \/ LwipRetransmit(s) PROVE \A r \in Sess : Sent(r)'
  <2>1. exc_active
    BY <1>3 DEF LwipSendFin, LwipRetransmit
  <2> QED
    BY <2>1, <1>0, <1>3, <1>a, SentFin, SentRetransmit
<1>4. ASSUME RxDelay PROVE \A r \in Sess : Sent(r)'
  <2>1. exc_active
    BY <1>4 DEF RxDelay, RxTestAhead, RxLoadTx, RxInsertEmptyAck
  <2> QED
    BY <2>1, <1>4, SentDelay
<1>5. ASSUME RxForward PROVE \A r \in Sess : Sent(r)'
  <2>1. exc_active
    BY <1>5 DEF RxForward, RxForwardPkt
  <2> QED
    BY <2>1, <1>5, SentForward
<1>6. ASSUME RxStoreAck PROVE \A r \in Sess : Sent(r)'
  BY <1>6, <1>f DEF RxStoreAck
<1>7. ASSUME NEW t \in Thread, AppStep(t) PROVE \A r \in Sess : Sent(r)'
  BY <1>7, <1>f DEF AppStep, PreSendLoadAck, PreSendCheck, PreSendLimit, PreSendCount, FastSend
<1>8. ASSUME NEW t \in Thread, NEW s \in Sess, NEW n \in 1..MAX_PAYLOAD_SIZE,
             PreSendLoadFastPath(t, s, n)
      PROVE  \A r \in Sess : Sent(r)'
  BY <1>8, <1>f DEF PreSendLoadFastPath
<1>9. ASSUME NEW s \in Sess, NEW n \in 1..MAX_PAYLOAD_SIZE, HwFire(s, n) PROVE \A r \in Sess : Sent(r)'
  BY <1>9, <1>f DEF HwFire
<1>10. ASSUME NEW s \in Sess, PeerNext(s) \/ Shutdown(s) PROVE \A r \in Sess : Sent(r)'
  BY <1>10, <1>f DEF PeerNext, PeerAckAny, PeerSendAck, StaleAck, Lose, PeerReset, Shutdown
<1>11. ASSUME ServNext \/ RxStoreWnd PROVE \A r \in Sess : Sent(r)'
  BY <1>11, <1>f DEF ServNext, ServTake, ServWrite, ServWritten, ServWriteError, ServExit, RxStoreWnd
<1>12. ASSUME NEW s \in Sess, ConnectReturn(s) \/ \E w \in PeerWnds : PeerSynAck(s, w)
       PROVE  \A r \in Sess : Sent(r)'
  BY <1>12, <1>f DEF ConnectReturn, PeerSynAck
<1>13. ~Stop
  BY DEF Stop
<1>14. CASE UNCHANGED vars
  BY <1>14, <1>f
<1> QED
  BY <1>1, <1>2, <1>3, <1>4, <1>5, <1>6, <1>7, <1>8, <1>9, <1>10, <1>11, <1>12, <1>13, <1>14
     DEF Next, RxNext, ConnectStep, LwipNext

\* Only TcpRxThread takes a packet off the channel.
LEMMA OnlyForward ==
    ASSUME TypeOK, [Next]_vars, lwipRx # <<>>, lwipRx' = Tail(lwipRx) PROVE RxForward
<1>0. lwipRx \in Seq(RxPkt)
  BY DEF TypeOK
<1>1. PICK K \in Nat : K = Len(lwipRx) /\ K >= 1 /\ Len(lwipRx') = K - 1
  BY <1>0
<1>2. lwipRx' # lwipRx
  BY <1>1
<1>3. \A x : lwipRx' # Append(lwipRx, x)
  <2>1. \A x : Len(Append(lwipRx, x)) = K + 1
    BY <1>0, <1>1
  <2>2. K - 1 # K + 1
    OBVIOUS
  <2> QED
    BY <2>1, <2>2, <1>1
<1>4. ASSUME NEW s \in Sess PROVE ~(ConnectStep(s) \/ LwipNext(s) \/ PeerNext(s) \/ Shutdown(s))
  <2>1. ~ConnectStep(s)
    BY <1>2, <1>3 DEF ConnectStep, SendSyn, PeerSynAck, ConnectReturn
  <2>2. ~LwipNext(s) /\ ~Shutdown(s)
    BY <1>2 DEF LwipNext, LwipOutput, LwipSendFin, LwipRetransmit, Shutdown
  <2>3. ~PeerNext(s)
    BY <1>2, <1>3 DEF PeerNext, PeerAckAny, PeerSendAck, PeerSend, StaleAck, Lose, PeerReset
  <2> QED
    BY <2>1, <2>2, <2>3
<1>5. ASSUME NEW t \in Thread PROVE ~AppStep(t)
  BY <1>2 DEF AppStep, PreSendLoadAck, PreSendCheck, PreSendLimit, PreSendCount, FastSend
<1>6. ASSUME NEW t \in Thread, NEW s \in Sess, NEW n \in 1..MAX_PAYLOAD_SIZE
      PROVE  ~PreSendLoadFastPath(t, s, n)
  BY <1>2 DEF PreSendLoadFastPath
<1>7. ~ServNext /\ ~Stop /\ ~(RxStoreWnd \/ RxStoreAck \/ RxDelay)
  BY <1>2 DEF ServNext, ServTake, ServWrite, ServWritten, ServWriteError, ServExit, Stop, RxStoreWnd,
     RxStoreAck, RxDelay, RxTestAhead, RxLoadTx, RxInsertEmptyAck
<1>8. ASSUME NEW s \in Sess, NEW n \in 1..MAX_PAYLOAD_SIZE PROVE ~HwFire(s, n)
  BY <1>2 DEF HwFire
<1>9. vars' # vars
  BY <1>2
<1> QED
  BY <1>4, <1>5, <1>6, <1>7, <1>8, <1>9 DEF Next, RxNext

\* updateRx(): "delay RX Ack if corresponding Seq is not sent on LWIP TX yet".  As long as
\* what is in flight fits the sequence space and lwIP's congestion window half of it, no
\* packet that reaches lwIP while the stack is active carries an ACK that lwIP ignores as
\* ahead of its own numbers, with losses, retransmissions, empty ACKs of any of the
\* interleavings of the loop, resets and the FIN.
THEOREM TcpNoAckLost ==
    "staleAck" \notin Env /\ Spacious /\ 2 * (Cwnd + 1) <= SeqMod => (Spec => NoAckLost)
<1> SUFFICES ASSUME "staleAck" \notin Env, Spacious, 2 * (Cwnd + 1) <= SeqMod PROVE Spec => NoAckLost
  OBVIOUS
<1> DEFINE I == StreamInv /\ TxInv /\ SentInv /\ InsertedInv
           A == \A s \in Sess :
                  exc_active /\ lwipRx # <<>> /\ lwipRx' = Tail(lwipRx) /\ Head(lwipRx).s = s
                    => lwipLastAck'[s] >= Head(lwipRx).ack
<1>1. Init => I
  BY StreamInit, TxInit, SentInit, InsertedInit
<1>2. I /\ [Next]_vars => I'
  <2> SUFFICES ASSUME I, [Next]_vars PROVE I'
    OBVIOUS
  <2>1. StreamInv'
    BY StreamStep
  <2>2. TypeInv /\ TypeInv' /\ AckInv /\ TrackInv /\ AckReconstructed
    BY <2>1 DEF StreamInv, GapInv
  <2>3. TxInv'
    BY <2>2, TxStep
  <2>4. SentInv'
    BY <2>2, <2>3, SentStep
  <2>5. InsertedInv'
    BY <2>2, InsertedStep
  <2> QED
    BY <2>1, <2>3, <2>4, <2>5
<1>3. I /\ [Next]_vars => [A]_vars
  <2> SUFFICES ASSUME I, [Next]_vars, NEW s \in Sess, exc_active, lwipRx # <<>>, lwipRx' = Tail(lwipRx),
                      Head(lwipRx).s = s
               PROVE  lwipLastAck'[s] >= Head(lwipRx).ack
    OBVIOUS
  <2>1. TypeInv /\ AckReconstructed /\ SentInv /\ TypeOK
    BY DEF StreamInv, GapInv, TypeInv
  <2>2. RxForward
    BY <2>1, OnlyForward
  <2> QED
    BY <2>1, <2>2, SentForward
<1>4. Spec => [][A]_vars
  BY <1>1, <1>2, <1>3, PTL DEF Spec
<1> QED
  BY <1>4 DEF NoAckLost

============================================================================
