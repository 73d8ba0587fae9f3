------------------------- MODULE FireReportProofs -------------------------
(* What holds of EkaUserReportQ for every size of the ring, and that the    *)
(* user gets every packet of a fire once and in order.                      *)
EXTENDS FireReport, ModArith, SequenceTheorems, TLAPS

\* The part of the state PointersFollowCounters speaks of.
RingType ==
    /\ rdPtr \in 0..(Q_ELEMS - 1) /\ wrPtr \in 0..(Q_ELEMS - 1)
    /\ rdCnt \in Nat /\ wrCnt \in Nat
    /\ serv \in {"idle", "push", "full", "count", "unlock", "terminated"}

RingInv == RingType /\ PointersFollowCounters

ringVars == <<rdPtr, wrPtr, rdCnt, wrCnt>>

\* The remainder of the successor: next() on a pointer that follows a counter
\* gives the pointer of the next count.
LEMMA NextFollows ==
    ASSUME NEW n \in Nat, NEW p, p = n % Q_ELEMS
    PROVE  next(p) = (n + 1) % Q_ELEMS /\ next(p) \in 0..(Q_ELEMS - 1)
<1> DEFINE m == Q_ELEMS
           q == n \div m
<1>1. m \in Nat \ {0} /\ m > 1
  BY QAssumption
<1>2. q \in Int /\ p \in 0..(m - 1) /\ n = m * q + p
  BY <1>1, DivMod
<1> HIDE DEF q, m
<1>3. CASE p + 1 < m
  <2>1. p + 1 \in 0..(m - 1)
    BY <1>1, <1>2, <1>3
  <2>2. m * q \in Int /\ n + 1 = m * q + (p + 1)
    BY <1>1, <1>2
  <2>3. (n + 1) % m = p + 1
    BY <2>1, <2>2, <1>1, <1>2, ModUnique
  <2>4. m * 0 + (p + 1) = p + 1
    BY <1>1, <1>2
  <2>5. (p + 1) % m = p + 1
    BY <2>1, <2>4, <1>1, ModUnique
  <2> QED
    BY <2>1, <2>3, <2>5 DEF next, m
<1>4. CASE p + 1 = m
  <2>1. n + 1 = m * (q + 1) + 0 /\ q + 1 \in Int
    BY <1>1, <1>2, <1>4
  <2>2. (n + 1) % m = 0
    BY <2>1, <1>1, ModUnique
  <2>3. m * 1 + 0 = p + 1
    BY <1>1, <1>2, <1>4
  <2>4. (p + 1) % m = 0
    BY <2>3, <1>1, ModUnique
  <2> QED
    BY <2>2, <2>4, <1>1 DEF next, m
<1> QED
  BY <1>1, <1>2, <1>3, <1>4

\* Initially both pointers and both counters are zero.
LEMMA RingInit == Init => RingInv
<1>1. Q_ELEMS \in Nat \ {0} /\ Q_ELEMS * 0 + 0 = 0 /\ 0 \in 0..(Q_ELEMS - 1)
  BY QAssumption
<1>2. 0 % Q_ELEMS = 0
  BY <1>1, ModUnique
<1> QED
  BY <1>1, <1>2 DEF Init, RingInv, RingType, PointersFollowCounters

\* Every step keeps the pointers and the counters together; only push() and
\* pop() move them.
LEMMA RingStep == RingInv /\ [Next]_vars => RingInv'
<1> SUFFICES ASSUME RingInv, [Next]_vars PROVE RingInv'
  OBVIOUS
<1> USE DEF RingInv, RingType
<1> DEFINE pending == IF serv = "count" THEN 1 ELSE 0
<1>1. CASE PushCheck
  <2>1. serv = "full" /\ wrPtr = wrCnt % Q_ELEMS
    <3>1. serv = "full" /\ wrCnt + 0 = wrCnt
      BY <1>1 DEF PushCheck
    <3> QED
      BY <3>1 DEF PointersFollowCounters
  <2>2. next(wrPtr) = (wrCnt + 1) % Q_ELEMS /\ next(wrPtr) \in 0..(Q_ELEMS - 1)
    BY <2>1, NextFollows
  <2>3. UNCHANGED <<rdPtr, rdCnt, wrCnt>>
    BY <1>1 DEF PushCheck
  <2>4. CASE isFull
    <3>1. UNCHANGED <<wrPtr, serv>>
      BY <1>1, <2>4 DEF PushCheck
    <3> QED
      BY <2>3, <3>1 DEF PointersFollowCounters
  <2>5. CASE ~isFull
    <3>1. wrPtr' = next(wrPtr) /\ serv' = "count"
      BY <1>1, <2>5 DEF PushCheck
    <3> QED
      BY <2>2, <2>3, <3>1 DEF PointersFollowCounters
  <2> QED
    BY <2>4, <2>5
<1>2. CASE PushCount
  <2>1. serv = "count" /\ serv' = "unlock" /\ wrCnt' = wrCnt + 1
    BY <1>2 DEF PushCount
  <2>2. UNCHANGED <<rdPtr, rdCnt, wrPtr>>
    BY <1>2 DEF PushCount
  <2>3. wrCnt' + 0 = wrCnt + 1 /\ wrCnt' \in Nat /\ rdCnt <= wrCnt'
    BY <2>1 DEF PointersFollowCounters
  <2> QED
    BY <2>1, <2>2, <2>3 DEF PointersFollowCounters
<1>3. CASE Pop
  <2>1. UNCHANGED <<wrPtr, wrCnt, serv>>
    BY <1>3 DEF Pop
  <2>2. CASE wrCnt = rdCnt
    <3>1. UNCHANGED <<rdPtr, rdCnt>>
      BY <1>3, <2>2 DEF Pop
    <3> QED
      BY <2>1, <3>1 DEF PointersFollowCounters
  <2>3. CASE wrCnt # rdCnt
    <3>1. rdPtr' = next(rdPtr) /\ rdCnt' = rdCnt + 1
      BY <1>3, <2>3 DEF Pop
    <3>2. next(rdPtr) = (rdCnt + 1) % Q_ELEMS /\ next(rdPtr) \in 0..(Q_ELEMS - 1)
      BY NextFollows DEF PointersFollowCounters
    <3>3. rdCnt + 1 <= wrCnt
      BY <2>3 DEF PointersFollowCounters
    <3> QED
      BY <2>1, <3>1, <3>2, <3>3 DEF PointersFollowCounters
  <2> QED
    BY <2>2, <2>3
<1>4. CASE ServTake \/ ServWriteError \/ PushLock \/ PushUnlock \/ ServExit
  <2>1. UNCHANGED ringVars /\ serv # "count" /\ serv' # "count"
        /\ serv' \in {"idle", "push", "full", "count", "unlock", "terminated"}
    BY <1>4 DEF ServTake, ServWriteError, PushLock, PushUnlock, ServExit, ringVars, qVars
  <2> QED
    BY <2>1 DEF PointersFollowCounters, ringVars
<1>5. CASE \/ Fire \/ AppSend \/ Exception \/ Stop \/ UNCHANGED vars
           \/ RepTake \/ RepSpin \/ IsEmptyStore \/ IsEmptyLoad
           \/ RepMatch \/ RepCallback \/ RepExit
  <2>1. UNCHANGED ringVars /\ UNCHANGED serv
    BY <1>5 DEF Fire, AppSend, Exception, Stop, vars, RepTake, RepSpin, IsEmptyStore,
                IsEmptyLoad, RepMatch, RepCallback, RepExit, ringVars, qVars
  <2> QED
    BY <2>1 DEF PointersFollowCounters, ringVars
<1> QED
  BY <1>1, <1>2, <1>3, <1>4, <1>5 DEF Next, ServNext, RepNext

\* EkaUserReportQ keeps its ring pointers and its counters apart; for every size
\* of the ring they agree, and no more is popped than was pushed.
THEOREM Ring == Spec => []PointersFollowCounters
<1>1. RingInv => PointersFollowCounters
  BY DEF RingInv
<1> QED
  BY RingInit, RingStep, <1>1, PTL DEF Spec

----------------------------------------------------------------------------
(* A channel of the FPGA: among other things, the fires after a up to b in   *)
(* the order of their numbers, each once.  What is no fire has the number 0. *)

Numbered(q, a, b) ==
    /\ \A i \in 1..Len(q) : q[i].index = 0 \/ q[i].index \in (a + 1)..b
    /\ \A i, j \in 1..Len(q) :
         i < j /\ q[i].index # 0 /\ q[j].index # 0 => q[i].index < q[j].index
    /\ \A n \in (a + 1)..b : \E i \in 1..Len(q) : q[i].index = n

\* Something else comes, or the next fire.
LEMMA NumberedAppend ==
    ASSUME NEW S, NEW q \in Seq(S), NEW x \in S, NEW a \in Nat, NEW b \in Nat,
           \A y \in S : y.index \in Nat, a <= b, Numbered(q, a, b)
    PROVE  /\ x.index = 0 => Numbered(Append(q, x), a, b)
           /\ x.index = b + 1 => Numbered(Append(q, x), a, b + 1)
<1> DEFINE p == Append(q, x)
<1>1. /\ Len(q) \in Nat /\ Len(p) = Len(q) + 1 /\ p[Len(q) + 1] = x
      /\ \A i \in 1..Len(q) : p[i] = q[i] /\ q[i] \in S
  BY AppendProperties
<1> HIDE DEF p
<1>2. \A i \in 1..Len(p) : i \in 1..Len(q) \/ i = Len(q) + 1
  BY <1>1
<1>3. \A i \in 1..Len(q) : i \in 1..Len(p) /\ p[i].index = q[i].index /\ q[i].index \in Nat
  BY <1>1
<1>4. Len(q) + 1 \in 1..Len(p) /\ p[Len(q) + 1].index = x.index
  BY <1>1
<1>5. ASSUME x.index = 0 PROVE Numbered(p, a, b)
  <2>1. \A i \in 1..Len(p) : p[i].index = 0 \/ p[i].index \in (a + 1)..b
    BY <1>2, <1>3, <1>4, <1>5 DEF Numbered
  <2>2. \A i, j \in 1..Len(p) :
          i < j /\ p[i].index # 0 /\ p[j].index # 0 => p[i].index < p[j].index
    <3>1. \A i \in 1..Len(p) : p[i].index # 0 => i \in 1..Len(q)
      BY <1>2, <1>4, <1>5
    <3> QED
      BY <3>1, <1>3 DEF Numbered
  <2>3. \A n \in (a + 1)..b : \E i \in 1..Len(p) : p[i].index = n
    BY <1>3 DEF Numbered
  <2> QED
    BY <2>1, <2>2, <2>3 DEF Numbered
<1>6. ASSUME x.index = b + 1 PROVE Numbered(p, a, b + 1)
  <2>1. \A i \in 1..Len(p) : p[i].index = 0 \/ p[i].index \in (a + 1)..(b + 1)
    <3> SUFFICES ASSUME NEW i \in 1..Len(p)
                 PROVE  p[i].index = 0 \/ p[i].index \in (a + 1)..(b + 1)
      OBVIOUS
    <3>1. CASE i \in 1..Len(q)
      <4>1. q[i].index = 0 \/ q[i].index \in (a + 1)..b
        BY <3>1 DEF Numbered
      <4>2. p[i].index = q[i].index
        BY <3>1, <1>3
      <4> QED
        BY <4>1, <4>2
    <3>2. CASE i = Len(q) + 1
      <4>1. p[i].index = b + 1
        BY <3>2, <1>4, <1>6
      <4> QED
        BY <4>1
    <3> QED
      BY <3>1, <3>2, <1>2
  <2>2. \A i, j \in 1..Len(p) :
          i < j /\ p[i].index # 0 /\ p[j].index # 0 => p[i].index < p[j].index
    <3> SUFFICES ASSUME NEW i \in 1..Len(p), NEW j \in 1..Len(p),
                        i < j, p[i].index # 0, p[j].index # 0
                 PROVE  p[i].index < p[j].index
      OBVIOUS
    <3>1. CASE j \in 1..Len(q)
      <4>1. i \in 1..Len(q)
        BY <3>1, <1>1
      <4> QED
        BY <4>1, <3>1, <1>3 DEF Numbered
    <3>2. CASE j = Len(q) + 1
      <4>1. i \in 1..Len(q)
        BY <3>2, <1>1
      <4>2. p[i].index \in (a + 1)..b
        BY <4>1, <1>3 DEF Numbered
      <4> QED
        BY <4>2, <3>2, <1>4, <1>6
    <3> QED
      BY <3>1, <3>2, <1>2
  <2>3. \A n \in (a + 1)..(b + 1) : \E i \in 1..Len(p) : p[i].index = n
    <3> SUFFICES ASSUME NEW n \in (a + 1)..(b + 1) PROVE \E i \in 1..Len(p) : p[i].index = n
      OBVIOUS
    <3>1. CASE n = b + 1
      BY <3>1, <1>4, <1>6
    <3>2. CASE n \in (a + 1)..b
      BY <3>2, <1>3 DEF Numbered
    <3> QED
      BY <3>1, <3>2
  <2> QED
    BY <2>1, <2>2, <2>3 DEF Numbered
<1> QED
  BY <1>5, <1>6 DEF p

\* The first is something else, or the fire after a.
LEMMA NumberedTail ==
    ASSUME NEW S, NEW q \in Seq(S), NEW a \in Nat, NEW b \in Nat,
           \A y \in S : y.index \in Nat, q # <<>>, Numbered(q, a, b)
    PROVE  /\ Head(q) \in S
           /\ Head(q).index = 0 => Numbered(Tail(q), a, b)
           /\ Head(q).index # 0 =>
                /\ Head(q).index = a + 1 /\ a + 1 <= b
                /\ Numbered(Tail(q), a + 1, b)
<1> DEFINE p == Tail(q)
           h == Head(q)
<1>1. /\ Len(q) \in Nat /\ Len(q) > 0 /\ h = q[1] /\ h \in S
      /\ Len(p) = Len(q) - 1 /\ \A i \in 1..Len(p) : p[i] = q[i + 1]
  BY HeadTailProperties
<1> HIDE DEF p, h
<1>2. \A i \in 1..Len(p) : i + 1 \in 1..Len(q) /\ p[i].index = q[i + 1].index
  BY <1>1
<1>3. \A i \in 1..Len(q) : q[i].index \in Nat
  OBVIOUS
<1>4. \A i \in 1..Len(q) : i = 1 \/ (i - 1 \in 1..Len(p) /\ p[i - 1].index = q[i].index)
  <2> SUFFICES ASSUME NEW i \in 1..Len(q), i # 1
               PROVE  i - 1 \in 1..Len(p) /\ p[i - 1].index = q[i].index
    OBVIOUS
  <2>1. i - 1 \in 1..Len(p) /\ (i - 1) + 1 = i
    BY <1>1
  <2> QED
    BY <2>1, <1>2
<1>5. 1 \in 1..Len(q) /\ q[1].index = h.index
  BY <1>1
<1>6. \A i, j \in 1..Len(p) :
        i < j /\ p[i].index # 0 /\ p[j].index # 0 => p[i].index < p[j].index
  <2> SUFFICES ASSUME NEW i \in 1..Len(p), NEW j \in 1..Len(p),
                      i < j, p[i].index # 0, p[j].index # 0
               PROVE  p[i].index < p[j].index
    OBVIOUS
  <2>1. i + 1 \in 1..Len(q) /\ j + 1 \in 1..Len(q) /\ i + 1 < j + 1
    BY <1>2
  <2> QED
    BY <2>1, <1>2 DEF Numbered
<1>7. ASSUME h.index = 0 PROVE Numbered(p, a, b)
  <2>1. \A i \in 1..Len(p) : p[i].index = 0 \/ p[i].index \in (a + 1)..b
    BY <1>2 DEF Numbered
  <2>2. \A n \in (a + 1)..b : \E i \in 1..Len(p) : p[i].index = n
    BY <1>4, <1>5, <1>7 DEF Numbered
  <2> QED
    BY <1>6, <2>1, <2>2 DEF Numbered
<1>8. ASSUME h.index # 0
      PROVE  h.index = a + 1 /\ a + 1 <= b /\ Numbered(p, a + 1, b)
  <2>1. h.index \in (a + 1)..b
    BY <1>5, <1>8 DEF Numbered
  <2>2. h.index = a + 1
    <3>1. a + 1 \in (a + 1)..b
      BY <2>1
    <3>2. PICK i \in 1..Len(q) : q[i].index = a + 1
      BY <3>1 DEF Numbered
    <3>3. CASE i = 1
      BY <3>2, <3>3, <1>5
    <3>4. CASE 1 < i
      <4>1. q[1].index < q[i].index
        BY <3>2, <3>4, <1>5, <1>8 DEF Numbered
      <4> QED
        BY <4>1, <3>2, <2>1, <1>5
    <3> QED
      BY <3>2, <3>3, <3>4
  <2>3. \A i \in 1..Len(p) : p[i].index = 0 \/ p[i].index \in (a + 2)..b
    <3> SUFFICES ASSUME NEW i \in 1..Len(p), p[i].index # 0 PROVE p[i].index \in (a + 2)..b
      OBVIOUS
    <3>1. i + 1 \in 1..Len(q) /\ 1 < i + 1 /\ p[i].index = q[i + 1].index
      BY <1>2
    <3>2. q[1].index < q[i + 1].index /\ q[i + 1].index \in (a + 1)..b
      BY <3>1, <1>5, <1>8 DEF Numbered
    <3> QED
      BY <3>1, <3>2, <2>2, <1>5
  <2>4. \A n \in (a + 2)..b : \E i \in 1..Len(p) : p[i].index = n
    <3> SUFFICES ASSUME NEW n \in (a + 2)..b PROVE \E i \in 1..Len(p) : p[i].index = n
      OBVIOUS
    <3>1. n \in (a + 1)..b /\ n # a + 1
      OBVIOUS
    <3>2. PICK i \in 1..Len(q) : q[i].index = n
      BY <3>1 DEF Numbered
    <3>3. i # 1
      BY <3>1, <3>2, <2>2, <1>5
    <3> QED
      BY <3>2, <3>3, <1>4
  <2>5. (a + 1) + 1 = a + 2 /\ a + 1 <= b
    BY <2>1
  <2> QED
    BY <1>6, <2>2, <2>3, <2>4, <2>5 DEF Numbered
<1> QED
  BY <1>1, <1>7, <1>8 DEF p, h

----------------------------------------------------------------------------
(* The inductive invariant, for a queue that is larger than the number of    *)
(* fires the user has not been told of.                                      *)

RepPcs == {"idle", "spin", "store", "load", "pop", "match", "callback", "terminated"}

FireTyped ==
    /\ epmFeedback \in Seq(Packet) /\ epmReport \in Seq(Report)
    /\ fires \in Nat /\ delivered \in Seq(Nat)
    /\ qElem \in [0..(Q_ELEMS - 1) -> Nat] /\ qLen \in Int
    /\ rep.pc \in RepPcs /\ (rep.pc = "store" => rep.len \in Int)
    /\ \A i \in 1..Len(epmFeedback) : epmFeedback[i].report_en <=> epmFeedback[i].index # 0
    /\ \A i \in 1..Len(epmReport) : epmReport[i].type = "FIRE" <=> epmReport[i].index # 0

\* The FireReport thread has popped the packet of the report it works on.
Holding == rep.pc = "match" \/ (rep.pc = "callback" /\ Head(epmReport).index # 0)

\* Pushed and still at the head of the channel, stored and not counted yet.
Tail1  == IF serv = "unlock" THEN 1 ELSE 0
Stored == IF serv = "count" THEN 1 ELSE 0

\* The channels: fires are pushed, popped and delivered in their order.
Channels ==
    /\ fires - Len(delivered) <= MaxPending
    /\ Len(delivered) = rdCnt - (IF Holding THEN 1 ELSE 0)
    /\ Numbered(epmReport, Len(delivered), fires)
    /\ serv # "terminated" => Numbered(epmFeedback, wrCnt - Tail1, fires)
    /\ wrCnt <= fires /\ (serv = "unlock" => wrCnt > 0)
    /\ serv \in {"push", "full", "count", "unlock"} =>
         epmFeedback # <<>> /\ Head(epmFeedback).index # 0
    /\ rep.pc \in {"spin", "store", "load", "pop", "match"} =>
         epmReport # <<>> /\ Head(epmReport).index # 0
    /\ rep.pc = "callback" => epmReport # <<>>

\* Fire n is in slot n of the ring from the push to the callback.
Slots ==
    \A n \in (Len(delivered) + 1)..(wrCnt + Stored) : qElem[n % Q_ELEMS] = n

\* The lengths that pass through qLen, stale or not, are none that was never true.
Lengths ==
    /\ 0 <= qLen /\ qLen <= wrCnt - rdCnt
    /\ rep.pc = "store" => 0 <= rep.len /\ rep.len <= wrCnt - rdCnt
    /\ rep.pc = "pop" => rdCnt < wrCnt \/ ~fireReportThreadActive
    /\ err = "none" \/ (err = "empty" /\ ~fireReportThreadActive)

FireInv == RingInv /\ FireTyped /\ Channels /\ Slots /\ Lengths /\ InOrder

LEMMA FireInit == Init => FireInv
<1> SUFFICES ASSUME Init PROVE FireInv
  OBVIOUS
<1>1. RingInv
  BY RingInit
<1>2. FireTyped
  BY QAssumption DEF Init, FireTyped, RepPcs
<1>3. Numbered(<<>>, 0, 0)
  BY DEF Numbered
<1>4. ~Holding /\ Tail1 = 0 /\ Stored = 0
  BY DEF Init, Holding, Tail1, Stored
<1>5. Len(delivered) = 0 /\ fires = 0 /\ wrCnt = 0 /\ rdCnt = 0 /\ MaxPending \in Nat
      /\ epmReport = <<>> /\ epmFeedback = <<>> /\ wrCnt - Tail1 = 0
  BY <1>4, QAssumption DEF Init
<1>6. Channels
  <2>1. fires - Len(delivered) <= MaxPending /\ wrCnt <= fires
    BY <1>5
  <2>2. Len(delivered) = rdCnt - (IF Holding THEN 1 ELSE 0)
    BY <1>4, <1>5
  <2>3. Numbered(epmReport, Len(delivered), fires) /\ Numbered(epmFeedback, wrCnt - Tail1, fires)
    BY <1>3, <1>5
  <2>4. serv = "idle" /\ rep.pc = "idle"
    BY DEF Init
  <2> QED
    BY <2>1, <2>2, <2>3, <2>4 DEF Channels
<1>7. Slots /\ Lengths /\ InOrder
  BY <1>4, <1>5 DEF Init, Slots, Lengths, InOrder
<1> QED
  BY <1>1, <1>2, <1>6, <1>7 DEF FireInv

\* The facts about the heads of the channels the steps need.
LEMMA Heads ==
    ASSUME FireInv
    PROVE  /\ Len(delivered) \in Nat /\ wrCnt \in Nat /\ rdCnt \in Nat /\ MaxPending \in Nat
           /\ epmFeedback # <<>> =>
                /\ Head(epmFeedback) \in Packet
                /\ Head(epmFeedback).report_en <=> Head(epmFeedback).index # 0
           /\ epmReport # <<>> =>
                /\ Head(epmReport) \in Report
                /\ Head(epmReport).type = "FIRE" <=> Head(epmReport).index # 0
<1> USE DEF FireInv, FireTyped
<1>1. Len(delivered) \in Nat /\ wrCnt \in Nat /\ rdCnt \in Nat /\ MaxPending \in Nat
  BY QAssumption DEF RingInv, RingType
<1>2. ASSUME epmFeedback # <<>>
      PROVE  /\ Head(epmFeedback) \in Packet
             /\ Head(epmFeedback).report_en <=> Head(epmFeedback).index # 0
  <2>1. 1 \in 1..Len(epmFeedback) /\ Head(epmFeedback) = epmFeedback[1]
        /\ Head(epmFeedback) \in Packet
    BY <1>2, HeadTailProperties
  <2> QED
    BY <2>1
<1>3. ASSUME epmReport # <<>>
      PROVE  /\ Head(epmReport) \in Report
             /\ Head(epmReport).type = "FIRE" <=> Head(epmReport).index # 0
  <2>1. 1 \in 1..Len(epmReport) /\ Head(epmReport) = epmReport[1]
        /\ Head(epmReport) \in Report
    BY <1>3, HeadTailProperties
  <2> QED
    BY <2>1
<1> QED
  BY <1>1, <1>2, <1>3

\* What one step of a thread leaves alone when it moves no fire.
Moved == <<epmFeedback, epmReport, fires, delivered, qElem, wrCnt, rdCnt>>

LEMMA StepQuiet ==
    ASSUME FireInv, UNCHANGED Moved, qLen' \in Int,
           Holding <=> Holding', Tail1' = Tail1, Stored' = Stored,
           rep'.pc \in RepPcs, rep'.pc = "store" => rep'.len \in Int,
           serv' # "terminated" => serv # "terminated", serv' = "unlock" => serv = "unlock",
           serv' \in {"push", "full", "count", "unlock"} =>
             epmFeedback # <<>> /\ Head(epmFeedback).index # 0,
           rep'.pc \in {"spin", "store", "load", "pop", "match"} =>
             epmReport # <<>> /\ Head(epmReport).index # 0,
           rep'.pc = "callback" => epmReport # <<>>
    PROVE  FireTyped' /\ Channels' /\ Slots' /\ InOrder'
<1> USE DEF FireInv, Moved
<1>1. FireTyped'
  BY DEF FireTyped
<1>2. Channels'
  BY DEF Channels
<1>3. Slots' /\ InOrder'
  BY DEF Slots, InOrder
<1> QED
  BY <1>1, <1>2, <1>3

LEMMA StepServQuiet ==
    ASSUME FireInv, ServExit \/ PushLock
    PROVE  FireTyped' /\ Channels' /\ Slots' /\ InOrder' /\ Lengths'
<1> USE DEF FireInv
<1>1. /\ UNCHANGED Moved /\ rep' = rep /\ UNCHANGED <<err, fireReportThreadActive>>
      /\ serv \in {"idle", "push"} /\ serv' \in {"full", "terminated"}
      /\ serv = "idle" => serv' = "terminated"
      /\ qLen' = qLen \/ qLen' = wrCnt - rdCnt
  BY DEF ServExit, PushLock, Moved, qVars, hwVars, flags
<1>2. (Holding' <=> Holding) /\ Tail1' = Tail1 /\ Stored' = Stored
  BY <1>1 DEF Holding, Tail1, Stored, Moved
<1>3. qLen \in Int /\ wrCnt \in Nat /\ rdCnt \in Nat /\ rdCnt <= wrCnt
  BY DEF FireTyped, RingInv, RingType, PointersFollowCounters
<1>4. qLen' \in Int /\ 0 <= qLen' /\ qLen' <= wrCnt - rdCnt
  BY <1>1, <1>3 DEF Lengths
<1>5. /\ rep'.pc \in RepPcs /\ (rep'.pc = "store" => rep'.len \in Int)
      /\ rep'.pc \in {"spin", "store", "load", "pop", "match"} =>
           epmReport # <<>> /\ Head(epmReport).index # 0
      /\ rep'.pc = "callback" => epmReport # <<>>
  BY <1>1 DEF FireTyped, Channels
<1>6. serv = "push" => epmFeedback # <<>> /\ Head(epmFeedback).index # 0
  BY DEF Channels
<1>7. FireTyped' /\ Channels' /\ Slots' /\ InOrder'
  <2>1. (serv' # "terminated" => serv # "terminated") /\ (serv' = "unlock" => serv = "unlock")
    BY <1>1
  <2>2. serv' \in {"push", "full", "count", "unlock"} =>
          epmFeedback # <<>> /\ Head(epmFeedback).index # 0
    BY <1>1, <1>6
  <2> QED
    BY <2>1, <2>2, <1>1, <1>2, <1>4, <1>5, StepQuiet, Zenon
<1>8. Lengths'
  BY <1>1, <1>4 DEF Lengths, Moved
<1> QED
  BY <1>7, <1>8

LEMMA StepRepQuiet ==
    ASSUME FireInv, RepTake \/ RepSpin \/ IsEmptyStore \/ IsEmptyLoad \/ RepExit
    PROVE  FireTyped' /\ Channels' /\ Slots' /\ InOrder' /\ Lengths'
<1> USE DEF FireInv
<1>1. UNCHANGED Moved /\ serv' = serv /\ UNCHANGED fireReportThreadActive
  BY DEF RepTake, RepSpin, IsEmptyStore, IsEmptyLoad, RepExit, Moved, qVars, hwVars, flags
<1>2. qLen \in Int /\ wrCnt \in Nat /\ rdCnt \in Nat /\ rdCnt <= wrCnt
  BY DEF FireTyped, RingInv, RingType, PointersFollowCounters
<1>3. ~Holding
  BY DEF RepTake, RepSpin, IsEmptyStore, IsEmptyLoad, RepExit, Holding
<1>4. /\ rep.pc = "idle" => rep'.pc \in {"spin", "callback", "terminated"}
      /\ rep.pc = "idle" /\ rep'.pc # "terminated" => epmReport # <<>>
      /\ rep.pc = "idle" /\ rep'.pc = "spin" => Head(epmReport).index # 0
      /\ rep.pc = "idle" /\ rep'.pc = "callback" => Head(epmReport).index = 0
      /\ rep.pc # "idle" => /\ rep.pc \in {"spin", "store", "load"}
                            /\ rep'.pc \in {"spin", "store", "load", "pop"}
  BY Heads DEF RepTake, RepSpin, IsEmptyStore, IsEmptyLoad, RepExit
<1>5. ~Holding'
  BY <1>1, <1>4 DEF Holding, Moved, FireTyped, RepPcs
<1>6. /\ rep'.pc = "store" => rep'.len = wrCnt - rdCnt
      /\ rep'.pc = "pop" => ~fireReportThreadActive \/ (rep.pc = "load" /\ qLen # 0)
      /\ qLen' = qLen \/ (rep.pc = "store" /\ qLen' = rep.len)
      /\ err' = err \/ rdCnt > wrCnt
  BY DEF RepTake, RepSpin, IsEmptyStore, IsEmptyLoad, RepExit, qVars
<1>7. qLen' \in Int /\ 0 <= qLen' /\ qLen' <= wrCnt - rdCnt
  BY <1>2, <1>6 DEF Lengths, FireTyped
<1>8. Lengths'
  <2>1. rep'.pc = "store" => 0 <= rep'.len /\ rep'.len <= wrCnt - rdCnt
    BY <1>2, <1>6
  <2>2. rep'.pc = "pop" => rdCnt < wrCnt \/ ~fireReportThreadActive
    BY <1>2, <1>6 DEF Lengths
  <2>3. err' = err
    BY <1>2, <1>6
  <2> QED
    BY <2>1, <2>2, <2>3, <1>1, <1>7 DEF Lengths, Moved
<1>9. /\ rep'.pc \in RepPcs /\ (rep'.pc = "store" => rep'.len \in Int)
      /\ rep'.pc \in {"spin", "store", "load", "pop", "match"} =>
           epmReport # <<>> /\ Head(epmReport).index # 0
      /\ rep'.pc = "callback" => epmReport # <<>>
  BY <1>2, <1>4, <1>6 DEF Channels, RepPcs
<1>10. Tail1' = Tail1 /\ Stored' = Stored /\ (Holding' <=> Holding)
  BY <1>1, <1>3, <1>5 DEF Tail1, Stored
<1>11. serv \in {"push", "full", "count", "unlock"} =>
         epmFeedback # <<>> /\ Head(epmFeedback).index # 0
  BY DEF Channels
<1>12. FireTyped' /\ Channels' /\ Slots' /\ InOrder'
  <2>1. (serv' # "terminated" => serv # "terminated") /\ (serv' = "unlock" => serv = "unlock")
    BY <1>1
  <2>2. serv' \in {"push", "full", "count", "unlock"} =>
          epmFeedback # <<>> /\ Head(epmFeedback).index # 0
    BY <1>1, <1>11
  <2> QED
    BY <2>1, <2>2, <1>1, <1>7, <1>9, <1>10, StepQuiet, Zenon
<1> QED
  BY <1>8, <1>12

\* RepMatch compares the packet of the slot with the report: they are of one fire.
LEMMA StepMatch ==
    ASSUME FireInv, RepMatch
    PROVE  FireTyped' /\ Channels' /\ Slots' /\ InOrder' /\ Lengths'
<1> USE DEF FireInv
<1>1. UNCHANGED Moved /\ UNCHANGED <<serv, qLen, fireReportThreadActive>> /\ rep.pc = "match"
  BY DEF RepMatch, Moved, qVars, hwVars, flags
<1>2. /\ wrCnt \in Nat /\ rdCnt \in Nat /\ rdCnt <= wrCnt /\ fires \in Nat
      /\ epmReport # <<>> /\ Head(epmReport).index # 0
      /\ Len(delivered) \in Nat /\ Len(delivered) = rdCnt - 1
  BY <1>1, Heads DEF FireTyped, RingInv, RingType, PointersFollowCounters, Channels, Holding
<1>3. Head(epmReport).index = rdCnt
  <2>1. epmReport \in Seq(Report) /\ \A y \in Report : y.index \in Nat
    BY DEF FireTyped, Report
  <2>2. Head(epmReport).index = Len(delivered) + 1
    BY <2>1, <1>2, NumberedTail DEF Channels
  <2> QED
    BY <2>2, <1>2
<1>4. qElem[rdPtr] = rdCnt
  <2>1. rdCnt \in (Len(delivered) + 1)..(wrCnt + Stored)
    BY <1>2 DEF Stored
  <2>2. rdPtr = rdCnt % Q_ELEMS
    BY DEF RingInv, PointersFollowCounters
  <2> QED
    BY <2>1, <2>2 DEF Slots
<1>5. rep' = [pc |-> "callback"] /\ err' = err
  BY <1>3, <1>4 DEF RepMatch
<1>6. Holding /\ Holding' /\ Tail1' = Tail1 /\ Stored' = Stored
  BY <1>1, <1>2, <1>5 DEF Holding, Tail1, Stored, Moved
<1>7. rep'.pc = "callback"
  BY <1>5
<1>8. serv \in {"push", "full", "count", "unlock"} =>
         epmFeedback # <<>> /\ Head(epmFeedback).index # 0
  BY DEF Channels
<1>9. FireTyped' /\ Channels' /\ Slots' /\ InOrder'
  BY <1>1, <1>2, <1>6, <1>7, <1>8, StepQuiet DEF RepPcs, FireTyped
<1>10. Lengths'
  BY <1>1, <1>5, <1>7 DEF Lengths, Moved
<1> QED
  BY <1>9, <1>10

\* What comes last does not change what is first.
LEMMA HeadOfAppend ==
    ASSUME NEW S, NEW q \in Seq(S), NEW x \in S
    PROVE  /\ Append(q, x) \in Seq(S)
           /\ q # <<>> => Append(q, x) # <<>> /\ Head(Append(q, x)) = Head(q)
<1>1. /\ Append(q, x) \in Seq(S) /\ Len(q) \in Nat /\ Len(Append(q, x)) = Len(q) + 1
      /\ \A i \in 1..Len(q) : Append(q, x)[i] = q[i]
  BY AppendProperties
<1>2. ASSUME q # <<>> PROVE Append(q, x) # <<>> /\ Head(Append(q, x)) = Head(q)
  <2>1. 1 \in 1..Len(q) /\ Head(q) = q[1]
    BY <1>2, HeadTailProperties
  <2>2. Append(q, x) # <<>>
    BY <1>1
  <2>3. Head(Append(q, x)) = Append(q, x)[1]
    BY <1>1, <2>2, HeadTailProperties
  <2> QED
    BY <2>1, <2>2, <2>3, <1>1
<1> QED
  BY <1>1, <1>2

LEMMA Indexes == /\ \A y \in Packet : y.index \in Nat
                 /\ \A y \in Report : y.index \in Nat
BY DEF Packet, Report

\* A packet, a report or both come from the FPGA.
LEMMA StepHw ==
    ASSUME FireInv, Fire \/ AppSend \/ Exception
    PROVE  FireTyped' /\ Channels' /\ Slots' /\ InOrder' /\ Lengths'
<1> USE DEF FireInv
<1>1. /\ UNCHANGED <<delivered, qElem, wrCnt, rdCnt, qLen, serv, rep, err>>
      /\ UNCHANGED <<fireReportThreadActive>>
  BY DEF Fire, AppSend, Exception, qVars, flags
<1>2. /\ fires \in Nat /\ Len(delivered) \in Nat /\ wrCnt \in Nat /\ rdCnt \in Nat
      /\ MaxPending \in Nat /\ Len(delivered) <= rdCnt /\ rdCnt <= wrCnt /\ wrCnt <= fires
      /\ epmFeedback \in Seq(Packet) /\ epmReport \in Seq(Report)
  BY QAssumption DEF FireTyped, RingInv, RingType, PointersFollowCounters, Channels
<1>3. PICK x \in Packet, y \in Report :
        /\ epmFeedback' \in {epmFeedback, Append(epmFeedback, x)}
        /\ epmReport' \in {epmReport, Append(epmReport, y)}
        /\ x.report_en <=> x.index # 0
        /\ y.type = "FIRE" <=> y.index # 0
        /\ \/ /\ fires' = fires /\ x.index = 0 /\ y.index = 0
           \/ /\ fires' = fires + 1 /\ x.index = fires + 1 /\ y.index = fires + 1
              /\ epmFeedback' = Append(epmFeedback, x) /\ epmReport' = Append(epmReport, y)
              /\ fires - Len(delivered) < MaxPending
  <2>1. CASE Fire
    <3> DEFINE x == [report_en |-> TRUE, index |-> fires + 1]
               y == [type |-> "FIRE", index |-> fires + 1]
    <3>1. x \in Packet /\ y \in Report /\ x.report_en /\ y.type = "FIRE"
          /\ x.index = fires + 1 /\ y.index = fires + 1 /\ fires + 1 # 0
      BY <1>2 DEF Packet, Report
    <3>2. /\ epmFeedback' = Append(epmFeedback, x) /\ epmReport' = Append(epmReport, y)
          /\ fires' = fires + 1 /\ fires - Len(delivered) < MaxPending
      BY <2>1 DEF Fire
    <3> HIDE DEF x, y
    <3> QED
      BY <3>1, <3>2
  <2>2. CASE AppSend \/ Exception
    <3> DEFINE x == [report_en |-> FALSE, index |-> 0]
               y == [type |-> "EXCEPTION", index |-> 0]
    <3>1. x \in Packet /\ y \in Report /\ ~x.report_en /\ y.type # "FIRE"
          /\ x.index = 0 /\ y.index = 0
      BY DEF Packet, Report
    <3>2. /\ epmFeedback' \in {epmFeedback, Append(epmFeedback, x)}
          /\ epmReport' \in {epmReport, Append(epmReport, y)}
          /\ fires' = fires
      BY <2>2 DEF AppSend, Exception
    <3> HIDE DEF x, y
    <3> QED
      BY <3>1, <3>2
  <2> QED
    BY <2>1, <2>2
<1>4. /\ epmFeedback' \in Seq(Packet) /\ epmReport' \in Seq(Report)
      /\ epmFeedback # <<>> => epmFeedback' # <<>> /\ Head(epmFeedback') = Head(epmFeedback)
      /\ epmReport # <<>> => epmReport' # <<>> /\ Head(epmReport') = Head(epmReport)
  <2>1. /\ epmFeedback' \in Seq(Packet)
        /\ epmFeedback # <<>> => epmFeedback' # <<>> /\ Head(epmFeedback') = Head(epmFeedback)
    <3>1. CASE epmFeedback' = epmFeedback
      BY <3>1, <1>2
    <3>2. CASE epmFeedback' = Append(epmFeedback, x)
      BY <3>2, <1>2, HeadOfAppend, Zenon
    <3> QED
      BY <3>1, <3>2, <1>3
  <2>2. /\ epmReport' \in Seq(Report)
        /\ epmReport # <<>> => epmReport' # <<>> /\ Head(epmReport') = Head(epmReport)
    <3>1. CASE epmReport' = epmReport
      BY <3>1, <1>2
    <3>2. CASE epmReport' = Append(epmReport, y)
      BY <3>2, <1>2, HeadOfAppend, Zenon
    <3> QED
      BY <3>1, <3>2, <1>3
  <2> QED
    BY <2>1, <2>2
<1>5. Numbered(epmReport', Len(delivered), fires')
  <2>1. Numbered(epmReport, Len(delivered), fires) /\ Len(delivered) <= fires
    BY <1>2 DEF Channels
  <2> QED
    BY <2>1, <1>2, <1>3, Indexes, NumberedAppend
<1>6. serv # "terminated" => Numbered(epmFeedback', wrCnt - Tail1, fires')
  <2> SUFFICES ASSUME serv # "terminated" PROVE Numbered(epmFeedback', wrCnt - Tail1, fires')
    OBVIOUS
  <2>1. wrCnt - Tail1 \in Nat /\ wrCnt - Tail1 <= fires
    BY <1>2 DEF Tail1, Channels
  <2>2. Numbered(epmFeedback, wrCnt - Tail1, fires)
    BY DEF Channels
  <2> QED
    BY <2>1, <2>2, <1>2, <1>3, Indexes, NumberedAppend
<1>7. FireTyped'
  <2>1. \A i \in 1..Len(epmFeedback') :
          epmFeedback'[i].report_en <=> epmFeedback'[i].index # 0
    <3>1. CASE epmFeedback' = epmFeedback
      BY <3>1 DEF FireTyped
    <3>2. CASE epmFeedback' = Append(epmFeedback, x)
      <4>1. /\ Len(epmFeedback) \in Nat /\ Len(epmFeedback') = Len(epmFeedback) + 1
            /\ \A i \in 1..Len(epmFeedback) : epmFeedback'[i] = epmFeedback[i]
            /\ epmFeedback'[Len(epmFeedback) + 1] = x
        BY <3>2, <1>2, AppendProperties
      <4>2. \A i \in 1..Len(epmFeedback') : i \in 1..Len(epmFeedback) \/ i = Len(epmFeedback) + 1
        BY <4>1
      <4> QED
        BY <4>1, <4>2, <1>3 DEF FireTyped
    <3> QED
      BY <3>1, <3>2, <1>3
  <2>2. \A i \in 1..Len(epmReport') : epmReport'[i].type = "FIRE" <=> epmReport'[i].index # 0
    <3>1. CASE epmReport' = epmReport
      BY <3>1 DEF FireTyped
    <3>2. CASE epmReport' = Append(epmReport, y)
      <4>1. /\ Len(epmReport) \in Nat /\ Len(epmReport') = Len(epmReport) + 1
            /\ \A i \in 1..Len(epmReport) : epmReport'[i] = epmReport[i]
            /\ epmReport'[Len(epmReport) + 1] = y
        BY <3>2, <1>2, AppendProperties
      <4>2. \A i \in 1..Len(epmReport') : i \in 1..Len(epmReport) \/ i = Len(epmReport) + 1
        BY <4>1
      <4> QED
        BY <4>1, <4>2, <1>3 DEF FireTyped
    <3> QED
      BY <3>1, <3>2, <1>3
  <2>3. fires' \in Nat
    BY <1>2, <1>3
  <2> QED
    BY <2>1, <2>2, <2>3, <1>1, <1>4 DEF FireTyped
<1>8. (Holding' <=> Holding) /\ Tail1' = Tail1 /\ Stored' = Stored
  BY <1>1, <1>4 DEF Holding, Tail1, Stored, Channels
<1>9. Channels'
  <2>1. fires' - Len(delivered) <= MaxPending /\ wrCnt <= fires'
    BY <1>2, <1>3 DEF Channels
  <2> QED
    BY <2>1, <1>1, <1>4, <1>5, <1>6, <1>8 DEF Channels
<1>10. Slots' /\ InOrder' /\ Lengths'
  BY <1>1, <1>8 DEF Slots, InOrder, Lengths
<1> QED
  BY <1>7, <1>9, <1>10

\* A sequence without its first element keeps what holds of every element.
LEMMA TailOf ==
    ASSUME NEW S, NEW q \in Seq(S), q # <<>>
    PROVE  /\ Tail(q) \in Seq(S)
           /\ \A i \in 1..Len(Tail(q)) : i + 1 \in 1..Len(q) /\ Tail(q)[i] = q[i + 1]
<1>1. /\ Len(q) \in Nat /\ Tail(q) \in Seq(S) /\ Len(Tail(q)) = Len(q) - 1
      /\ \A i \in 1..Len(Tail(q)) : Tail(q)[i] = q[i + 1]
  BY HeadTailProperties
<1> QED
  BY <1>1

\* ServThread is done with the first packet.
LEMMA FeedbackTail ==
    ASSUME FireInv, epmFeedback # <<>>, epmFeedback' = Tail(epmFeedback),
           UNCHANGED <<epmReport, fires, delivered, qElem>>, qLen' \in Int, rep' = rep
    PROVE  FireTyped'
<1> USE DEF FireInv
<1>1. /\ epmFeedback' \in Seq(Packet)
      /\ \A i \in 1..Len(epmFeedback') :
           i + 1 \in 1..Len(epmFeedback) /\ epmFeedback'[i] = epmFeedback[i + 1]
  BY TailOf DEF FireTyped
<1>2. \A i \in 1..Len(epmFeedback') : epmFeedback'[i].report_en <=> epmFeedback'[i].index # 0
  BY <1>1 DEF FireTyped
<1> QED
  BY <1>1, <1>2 DEF FireTyped

LEMMA StepServTake ==
    ASSUME FireInv, ServTake \/ ServWriteError
    PROVE  FireTyped' /\ Channels' /\ Slots' /\ InOrder' /\ Lengths'
<1> USE DEF FireInv
<1>1. /\ UNCHANGED <<epmReport, fires, delivered, qElem, wrCnt, rdCnt, qLen, rep, err>>
      /\ UNCHANGED <<fireReportThreadActive>>
      /\ serv = "idle" /\ epmFeedback # <<>>
  BY DEF ServTake, ServWriteError, qVars, hwVars, flags
<1>2. /\ fires \in Nat /\ wrCnt \in Nat /\ epmFeedback \in Seq(Packet) /\ qLen \in Int
      /\ Numbered(epmFeedback, wrCnt, fires)
  <2>1. wrCnt - Tail1 = wrCnt /\ wrCnt \in Nat
    BY <1>1, Heads DEF Tail1
  <2> QED
    BY <2>1, <1>1 DEF FireTyped, Channels
<1>3. /\ Head(epmFeedback).index = 0 => Numbered(Tail(epmFeedback), wrCnt, fires)
      /\ Head(epmFeedback).report_en <=> Head(epmFeedback).index # 0
  BY <1>1, <1>2, Indexes, NumberedTail, Heads
<1>4. \/ serv' = "push" /\ epmFeedback' = epmFeedback /\ Head(epmFeedback).index # 0
      \/ /\ serv' = "idle" /\ Head(epmFeedback).index = 0
         /\ epmFeedback' = Tail(epmFeedback)
      \/ serv' = "terminated" /\ epmFeedback' = Tail(epmFeedback)
  BY <1>1, <1>3 DEF ServTake, ServWriteError
<1>5. FireTyped'
  <2>1. CASE epmFeedback' = epmFeedback
    BY <2>1, <1>1 DEF FireTyped
  <2>2. CASE epmFeedback' = Tail(epmFeedback)
    BY <2>2, <1>1, <1>2, FeedbackTail
  <2> QED
    BY <2>1, <2>2, <1>4
<1>6. (Holding' <=> Holding) /\ Tail1' = 0 /\ Tail1 = 0 /\ Stored' = 0 /\ Stored = 0
  BY <1>1, <1>4 DEF Holding, Tail1, Stored
<1>7. wrCnt - 0 = wrCnt
  BY <1>2
<1>8. Channels'
  BY <1>1, <1>2, <1>3, <1>4, <1>6, <1>7 DEF Channels
<1>9. Slots' /\ InOrder' /\ Lengths'
  BY <1>1, <1>6 DEF Slots, InOrder, Lengths
<1> QED
  BY <1>5, <1>8, <1>9

\* push(): there is room, and the slot is not one that still has to be read.
LEMMA StepPushCheck ==
    ASSUME FireInv, MaxPending < Q_ELEMS, PushCheck
    PROVE  FireTyped' /\ Channels' /\ Slots' /\ InOrder' /\ Lengths'
<1> USE DEF FireInv
<1> DEFINE d == Len(delivered)
           w == wrCnt + 1
<1>1. /\ UNCHANGED <<epmFeedback, epmReport, fires, delivered, wrCnt, rdCnt, qLen, rep>>
      /\ UNCHANGED fireReportThreadActive /\ serv = "full"
  BY DEF PushCheck, hwVars, flags
<1>2. /\ fires \in Nat /\ wrCnt \in Nat /\ rdCnt \in Nat /\ d \in Nat /\ qLen \in Int
      /\ epmFeedback \in Seq(Packet) /\ Q_ELEMS \in Nat /\ Q_ELEMS > 1 /\ MaxPending \in Nat
      /\ d <= rdCnt /\ rdCnt <= wrCnt /\ fires - d <= MaxPending /\ qLen <= wrCnt - rdCnt
  BY QAssumption, Heads DEF FireTyped, RingInv, RingType, PointersFollowCounters, Channels, Lengths
<1>3. /\ epmFeedback # <<>> /\ Head(epmFeedback).index = w /\ w <= fires
  <2>1. epmFeedback # <<>> /\ Head(epmFeedback).index # 0 /\ wrCnt - Tail1 = wrCnt
    BY <1>1, <1>2 DEF Channels, Tail1
  <2>2. Numbered(epmFeedback, wrCnt, fires)
    BY <1>1, <2>1 DEF Channels
  <2> QED
    BY <2>1, <2>2, <1>2, Indexes, NumberedTail
<1> HIDE DEF d
<1>4. qLen < Q_ELEMS - 1 /\ w - d < Q_ELEMS
  BY <1>2, <1>3
<1>5. ~isFull
  BY <1>2, <1>4 DEF isFull
<1>6. /\ qElem' = [qElem EXCEPT ![next(wrPtr)] = Head(epmFeedback).index]
      /\ serv' = "count" /\ err' = err
  BY <1>5 DEF PushCheck
<1>7. next(wrPtr) = w % Q_ELEMS /\ next(wrPtr) \in 0..(Q_ELEMS - 1)
  <2>1. wrPtr = wrCnt % Q_ELEMS
    <3>1. wrCnt + 0 = wrCnt
      BY <1>2
    <3> QED
      BY <3>1, <1>1 DEF RingInv, PointersFollowCounters
  <2> QED
    BY <2>1, <1>2, NextFollows
<1>8. qElem \in [0..(Q_ELEMS - 1) -> Nat] /\ qElem' \in [0..(Q_ELEMS - 1) -> Nat]
  BY <1>2, <1>3, <1>6, <1>7 DEF FireTyped
<1>9. FireTyped'
  BY <1>1, <1>8 DEF FireTyped
<1>10. (Holding' <=> Holding) /\ Tail1' = Tail1 /\ Stored' = 1 /\ Stored = 0
  BY <1>1, <1>6 DEF Holding, Tail1, Stored
<1>11. Channels'
  BY <1>1, <1>6, <1>10 DEF Channels
<1>12. Slots'
  <2> SUFFICES ASSUME NEW n \in (d + 1)..(wrCnt + 1) PROVE qElem'[n % Q_ELEMS] = n
    BY <1>1, <1>10 DEF Slots, d
  <2>1. n \in Nat /\ n % Q_ELEMS \in 0..(Q_ELEMS - 1)
    <3>1. n \in Int /\ n \in Nat /\ Q_ELEMS \in Nat \ {0}
      BY <1>2
    <3> QED
      BY <3>1, DivMod, Zenon
  <2>2. CASE n = w
    BY <2>1, <2>2, <1>3, <1>6, <1>7, <1>8
  <2>3. CASE n # w
    <3>1. n \in (d + 1)..(wrCnt + Stored) /\ n < w /\ w - n < Q_ELEMS /\ w \in Nat
      BY <2>3, <1>2, <1>4, <1>10
    <3>2. qElem[n % Q_ELEMS] = n
      BY <3>1 DEF Slots, d
    <3>3. n % Q_ELEMS # w % Q_ELEMS
      <4>1. Q_ELEMS \in Nat \ {0} /\ n \in Nat /\ w \in Nat /\ n < w /\ w - n < Q_ELEMS
        BY <3>1, <2>1, <1>2
      <4> HIDE DEF w
      <4> QED
        BY <4>1, ModApart, Zenon
    <3> QED
      BY <3>2, <3>3, <2>1, <1>6, <1>7, <1>8
  <2> QED
    BY <2>2, <2>3
<1>13. InOrder' /\ Lengths'
  BY <1>1, <1>6 DEF InOrder, Lengths
<1> QED
  BY <1>9, <1>11, <1>12, <1>13

LEMMA StepPushCount ==
    ASSUME FireInv, PushCount
    PROVE  FireTyped' /\ Channels' /\ Slots' /\ InOrder' /\ Lengths'
<1> USE DEF FireInv
<1>1. /\ UNCHANGED <<epmFeedback, epmReport, fires, delivered, qElem, rdCnt, qLen, rep, err>>
      /\ UNCHANGED fireReportThreadActive
      /\ serv = "count" /\ serv' = "unlock" /\ wrCnt' = wrCnt + 1
  BY DEF PushCount, hwVars, flags
<1>2. /\ fires \in Nat /\ wrCnt \in Nat /\ rdCnt \in Nat /\ qLen \in Int
      /\ epmFeedback \in Seq(Packet) /\ rdCnt <= wrCnt
  BY Heads DEF FireTyped, RingInv, RingType, PointersFollowCounters
<1>3. FireTyped'
  BY <1>1 DEF FireTyped
<1>4. /\ (Holding' <=> Holding) /\ Tail1' = 1 /\ Tail1 = 0 /\ Stored' = 0 /\ Stored = 1
      /\ wrCnt - Tail1 = wrCnt /\ wrCnt' - Tail1' = wrCnt /\ wrCnt' + Stored' = wrCnt + Stored
  BY <1>1, <1>2 DEF Holding, Tail1, Stored
<1>5. /\ epmFeedback # <<>> /\ Head(epmFeedback).index # 0 /\ Numbered(epmFeedback, wrCnt, fires)
  BY <1>1, <1>4 DEF Channels
<1>6. wrCnt + 1 <= fires
  BY <1>2, <1>5, Indexes, NumberedTail
<1>7. Channels'
  <2>1. wrCnt' <= fires' /\ wrCnt' > 0
    BY <1>1, <1>2, <1>6
  <2>2. Numbered(epmFeedback', wrCnt' - Tail1', fires')
    BY <1>1, <1>4, <1>5
  <2> QED
    BY <2>1, <2>2, <1>1, <1>4, <1>5 DEF Channels
<1>8. Slots'
  BY <1>1, <1>4 DEF Slots
<1>9. Lengths'
  <2>1. \A x \in Int : x <= wrCnt - rdCnt => x <= wrCnt' - rdCnt
    BY <1>1, <1>2
  <2>2. rdCnt < wrCnt => rdCnt < wrCnt'
    BY <1>1, <1>2
  <2>3. rep.pc = "store" => rep.len \in Int
    BY DEF FireTyped
  <2> QED
    BY <2>1, <2>2, <2>3, <1>1, <1>2 DEF Lengths
<1>10. InOrder'
  BY <1>1 DEF InOrder
<1> QED
  BY <1>3, <1>7, <1>8, <1>9, <1>10

LEMMA StepPushUnlock ==
    ASSUME FireInv, PushUnlock
    PROVE  FireTyped' /\ Channels' /\ Slots' /\ InOrder' /\ Lengths'
<1> USE DEF FireInv
<1>1. /\ UNCHANGED <<epmReport, fires, delivered, qElem, wrCnt, rdCnt, rep, err>>
      /\ UNCHANGED fireReportThreadActive
      /\ serv = "unlock" /\ serv' = "idle" /\ qLen' = wrCnt - rdCnt
      /\ epmFeedback' = Tail(epmFeedback)
  BY DEF PushUnlock, hwVars, flags
<1>2. /\ fires \in Nat /\ wrCnt \in Nat /\ rdCnt \in Nat /\ rdCnt <= wrCnt
      /\ epmFeedback \in Seq(Packet) /\ epmFeedback # <<>> /\ wrCnt > 0
  BY <1>1, Heads DEF FireTyped, RingInv, RingType, PointersFollowCounters, Channels
<1>3. FireTyped'
  BY <1>1, <1>2, FeedbackTail
<1>4. /\ (Holding' <=> Holding) /\ Tail1' = 0 /\ Tail1 = 1 /\ Stored' = Stored
      /\ wrCnt - Tail1 \in Nat /\ (wrCnt - Tail1) + 1 = wrCnt /\ wrCnt' - Tail1' = wrCnt
  BY <1>1, <1>2 DEF Holding, Tail1, Stored
<1>5. Numbered(Tail(epmFeedback), wrCnt, fires)
  <2> DEFINE a == wrCnt - Tail1
  <2>1. a \in Nat /\ a + 1 = wrCnt /\ Head(epmFeedback).index # 0 /\ Numbered(epmFeedback, a, fires)
    BY <1>1, <1>4 DEF Channels
  <2> HIDE DEF a
  <2>2. Numbered(Tail(epmFeedback), a + 1, fires)
    BY <2>1, <1>2, Indexes, NumberedTail
  <2> QED
    BY <2>1, <2>2
<1>6. Channels'
  BY <1>1, <1>4, <1>5 DEF Channels
<1>7. Slots' /\ InOrder'
  BY <1>1, <1>4 DEF Slots, InOrder
<1>8. Lengths'
  BY <1>1, <1>2 DEF Lengths
<1> QED
  BY <1>3, <1>6, <1>7, <1>8

\* pop(): the fire is the FireReport thread's now; an empty queue is met only
\* after the stop of the device cut the wait short.
LEMMA StepPop ==
    ASSUME FireInv, Pop
    PROVE  FireTyped' /\ Channels' /\ Slots' /\ InOrder' /\ Lengths'
<1> USE DEF FireInv
<1>1. /\ UNCHANGED <<epmFeedback, epmReport, fires, delivered, qElem, wrCnt, serv>>
      /\ UNCHANGED fireReportThreadActive /\ rep.pc = "pop"
  BY DEF Pop, hwVars, flags
<1>2. /\ wrCnt \in Nat /\ rdCnt \in Nat /\ rdCnt <= wrCnt /\ Len(delivered) \in Nat
      /\ ~Holding /\ Len(delivered) = rdCnt
  BY <1>1, Heads DEF RingInv, RingType, PointersFollowCounters, Channels, Holding
<1>3. Tail1' = Tail1 /\ Stored' = Stored
  BY <1>1 DEF Tail1, Stored
<1>4. Slots' /\ InOrder'
  BY <1>1, <1>3 DEF Slots, InOrder
<1>5. CASE wrCnt = rdCnt
  <2>1. err' = "empty" /\ qLen' = 0 /\ rdCnt' = rdCnt /\ rep' = rep
    BY <1>5 DEF Pop
  <2>2. ~fireReportThreadActive
    BY <1>1, <1>2, <1>5 DEF Lengths
  <2>3. ~Holding'
    BY <2>1, <1>1 DEF Holding
  <2>4. FireTyped'
    BY <2>1, <1>1 DEF FireTyped
  <2>5. Channels'
    BY <2>1, <2>3, <1>1, <1>2, <1>3 DEF Channels
  <2>6. Lengths'
    BY <2>1, <2>2, <1>1, <1>2, <1>5 DEF Lengths
  <2> QED
    BY <2>4, <2>5, <2>6, <1>4
<1>6. CASE wrCnt # rdCnt
  <2>1. /\ rdCnt' = rdCnt + 1 /\ qLen' = wrCnt - rdCnt - 1 /\ rep'.pc = "match" /\ err' = err
    BY <1>6 DEF Pop
  <2>2. Holding'
    BY <2>1 DEF Holding
  <2>3. FireTyped'
    BY <2>1, <1>1, <1>2 DEF FireTyped, RepPcs
  <2>4. Channels'
    <3>1. Len(delivered') = rdCnt' - 1
      BY <2>1, <1>1, <1>2
    <3> QED
      BY <3>1, <2>1, <2>2, <1>1, <1>3 DEF Channels
  <2>5. Lengths'
    <3>1. 0 <= qLen' /\ qLen' <= wrCnt' - rdCnt'
      BY <2>1, <1>1, <1>2, <1>6
    <3> QED
      BY <3>1, <2>1, <1>1 DEF Lengths
  <2> QED
    BY <2>3, <2>4, <2>5, <1>4
<1> QED
  BY <1>5, <1>6

\* The report is done with.
LEMMA ReportTail ==
    ASSUME FireInv, epmReport # <<>>, epmReport' = Tail(epmReport),
           UNCHANGED <<epmFeedback, fires, qElem, qLen>>, delivered' \in Seq(Nat),
           rep'.pc = "idle"
    PROVE  FireTyped'
<1> USE DEF FireInv
<1>1. /\ epmReport' \in Seq(Report)
      /\ \A i \in 1..Len(epmReport') :
           i + 1 \in 1..Len(epmReport) /\ epmReport'[i] = epmReport[i + 1]
  BY TailOf DEF FireTyped
<1>2. \A i \in 1..Len(epmReport') : epmReport'[i].type = "FIRE" <=> epmReport'[i].index # 0
  BY <1>1 DEF FireTyped
<1> QED
  BY <1>1, <1>2 DEF FireTyped, RepPcs

\* The callback: the packet of the slot is of the fire after the last delivered.
LEMMA StepCallback ==
    ASSUME FireInv, RepCallback
    PROVE  FireTyped' /\ Channels' /\ Slots' /\ InOrder' /\ Lengths'
<1> USE DEF FireInv
<1> DEFINE d == Len(delivered)
<1>1. /\ UNCHANGED <<epmFeedback, fires, qElem, wrCnt, rdCnt, qLen, serv, err>>
      /\ UNCHANGED fireReportThreadActive /\ rep.pc = "callback" /\ rep'.pc = "idle"
      /\ epmReport' = Tail(epmReport)
  BY DEF RepCallback, hwVars, flags, qVars
<1>2. /\ wrCnt \in Nat /\ rdCnt \in Nat /\ rdCnt <= wrCnt /\ d \in Nat /\ fires \in Nat
      /\ epmReport # <<>> /\ epmReport \in Seq(Report) /\ delivered \in Seq(Nat)
      /\ Head(epmReport).type = "FIRE" <=> Head(epmReport).index # 0
      /\ Numbered(epmReport, d, fires)
  BY <1>1, Heads DEF RingInv, RingType, PointersFollowCounters, Channels, FireTyped
<1>3. /\ Head(epmReport).index = 0 => Numbered(Tail(epmReport), d, fires)
      /\ Head(epmReport).index # 0 => Numbered(Tail(epmReport), d + 1, fires)
  BY <1>2, Indexes, NumberedTail
<1>4. ~Holding' /\ Tail1' = Tail1 /\ Stored' = Stored
  BY <1>1 DEF Holding, Tail1, Stored
<1>5. Lengths'
  BY <1>1 DEF Lengths
<1>6. fires - d <= MaxPending /\ MaxPending \in Nat
  BY QAssumption DEF Channels
<1>7. CASE Head(epmReport).index = 0
  <2>1. delivered' = delivered
    BY <1>2, <1>7 DEF RepCallback
  <2>2. FireTyped'
    BY <2>1, <1>1, <1>2, ReportTail
  <2>3. ~Holding
    BY <1>1, <1>7 DEF Holding
  <2>4. Channels'
    BY <2>1, <2>3, <1>1, <1>3, <1>4, <1>7 DEF Channels
  <2>5. Slots' /\ InOrder'
    BY <2>1, <1>1, <1>4 DEF Slots, InOrder
  <2> QED
    BY <2>2, <2>4, <2>5, <1>5
<1>8. CASE Head(epmReport).index # 0
  <2>1. Holding /\ d + 1 = rdCnt
    BY <1>1, <1>2, <1>8 DEF Holding, Channels
  <2>2. qElem[rdPtr] = d + 1
    <3>1. rdCnt \in (d + 1)..(wrCnt + Stored)
      BY <2>1, <1>2 DEF Stored
    <3>2. rdPtr = rdCnt % Q_ELEMS
      BY DEF RingInv, PointersFollowCounters
    <3> QED
      BY <2>1, <3>1, <3>2 DEF Slots
  <2>3. delivered' = Append(delivered, d + 1)
    BY <2>2, <1>2, <1>8 DEF RepCallback
  <2>4. /\ delivered' \in Seq(Nat) /\ Len(delivered') = d + 1
        /\ \A i \in 1..d : delivered'[i] = delivered[i]
        /\ delivered'[d + 1] = d + 1
    BY <2>3, <1>2, AppendProperties
  <2>5. FireTyped'
    BY <2>4, <1>1, <1>2, ReportTail
  <2>6. Channels'
    <3>1. fires' - Len(delivered') <= MaxPending /\ Len(delivered') = rdCnt' - 0
      BY <2>1, <2>4, <1>1, <1>2, <1>6
    <3>2. Numbered(epmReport', Len(delivered'), fires')
      BY <2>4, <1>1, <1>3, <1>8
    <3> QED
      BY <3>1, <3>2, <1>1, <1>4 DEF Channels
  <2>7. Slots'
    <3>1. \A n \in (Len(delivered') + 1)..(wrCnt + Stored) : n \in (d + 1)..(wrCnt + Stored)
      BY <2>4, <1>2 DEF Stored
    <3> QED
      BY <3>1, <1>1, <1>4 DEF Slots
  <2>8. InOrder'
    <3>1. \A i \in 1..Len(delivered') : i \in 1..d \/ i = d + 1
      BY <2>4, <1>2
    <3> QED
      BY <3>1, <2>4 DEF InOrder
  <2> QED
    BY <2>5, <2>6, <2>7, <2>8, <1>5
<1> QED
  BY <1>7, <1>8

\* The stop clears flags only; and nothing happens.
LEMMA StepStop ==
    ASSUME FireInv, Stop \/ UNCHANGED vars
    PROVE  FireTyped' /\ Channels' /\ Slots' /\ InOrder' /\ Lengths'
<1> USE DEF FireInv
<1>1. /\ UNCHANGED Moved /\ UNCHANGED <<serv, rep, qLen, err>>
      /\ ~fireReportThreadActive => ~fireReportThreadActive'
  BY DEF Stop, vars, Moved, qVars, hwVars, flags
<1>2. (Holding' <=> Holding) /\ Tail1' = Tail1 /\ Stored' = Stored
  BY <1>1 DEF Holding, Tail1, Stored, Moved
<1>3. FireTyped' /\ Channels' /\ Slots' /\ InOrder'
  BY <1>1, <1>2 DEF FireTyped, Channels, Slots, InOrder, Moved
<1>4. Lengths'
  BY <1>1 DEF Lengths, Moved
<1> QED
  BY <1>3, <1>4

LEMMA FireStep ==
    ASSUME FireInv, MaxPending < Q_ELEMS, [Next]_vars
    PROVE  FireInv'
<1>1. RingInv'
  BY RingStep DEF FireInv
<1>2. FireTyped' /\ Channels' /\ Slots' /\ InOrder' /\ Lengths'
  <2>1. CASE Fire \/ AppSend \/ Exception
    BY <2>1, StepHw
  <2>2. CASE ServTake \/ ServWriteError
    BY <2>2, StepServTake
  <2>3. CASE ServExit \/ PushLock
    BY <2>3, StepServQuiet
  <2>4. CASE PushCheck
    BY <2>4, StepPushCheck
  <2>5. CASE PushCount
    BY <2>5, StepPushCount
  <2>6. CASE PushUnlock
    BY <2>6, StepPushUnlock
  <2>7. CASE RepTake \/ RepSpin \/ IsEmptyStore \/ IsEmptyLoad \/ RepExit
    BY <2>7, StepRepQuiet
  <2>8. CASE Pop
    BY <2>8, StepPop
  <2>9. CASE RepMatch
    BY <2>9, StepMatch
  <2>10. CASE RepCallback
    BY <2>10, StepCallback
  <2>11. CASE Stop \/ UNCHANGED vars
    BY <2>11, StepStop
  <2> QED
    BY <2>1, <2>2, <2>3, <2>4, <2>5, <2>6, <2>7, <2>8, <2>9, <2>10, <2>11
       DEF Next, ServNext, RepNext
<1> QED
  BY <1>1, <1>2 DEF FireInv

\* EkaUserReportQ and the FireReport thread: while the ring is larger than the
\* number of fires the user has not been told of, no check of push(), pop(),
\* isEmpty() or pushFiredPkt() fails, but for the pop() that a stop of the device
\* sends to an empty queue.
THEOREM FireNoFatal == Spec => []NoFatal
<1> DEFINE Inv == MaxPending < Q_ELEMS => FireInv
<1>1. Init => Inv
  BY FireInit
<1>2. Inv /\ [Next]_vars => Inv'
  BY FireStep
<1>3. Inv => NoFatal
  BY DEF NoFatal, FireInv, Lengths
<1> QED
  BY <1>1, <1>2, <1>3, PTL DEF Spec

\* The callback of the FireReport thread: with that same bound the user gets the
\* packet of every fire once and in the order of the fires.
THEOREM FireInOrder == MaxPending < Q_ELEMS => (Spec => []InOrder)
<1> SUFFICES ASSUME MaxPending < Q_ELEMS PROVE Spec => []InOrder
  OBVIOUS
<1>1. FireInv /\ [Next]_vars => FireInv'
  BY FireStep
<1>2. FireInv => InOrder
  BY DEF FireInv
<1> QED
  BY FireInit, <1>1, <1>2, PTL DEF Spec

============================================================================
