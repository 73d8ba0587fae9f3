--------------------------- MODULE RxPathProofs ---------------------------
(* The receive path implements the reliable stream, loses nothing, returns   *)
(* its window and never sleeps on mail; for every size of the mailbox, the   *)
(* window and the reads, and any number of segments and faults.              *)
EXTENDS RxPath, SysArchProofs, FiniteSetTheorems

\* A message of the mailbox.
Msg == Seq(Nat)

\* The segments after a, in order: a + 1, a + 2, ...
IsRun(a, d) == d \in Msg /\ \A k \in 1..Len(d) : d[k] = a + k

\* A message that takes the stream from a to b, or an error.
Link(a, d, b) ==
    \/ d = ErrMsg /\ b = a
    \/ d # <<>> /\ IsRun(a, d) /\ b = a + Len(d)

\* Messages that take the stream from a to b, each from where the one before ends.
Chain(c, a, b) ==
    \E off \in [0..Len(c) -> Nat] :
      /\ off[0] = a /\ off[Len(c)] = b
      /\ \A i, j \in 0..Len(c) : i <= j => off[i] <= off[j]
      /\ \A i \in 1..Len(c) : Link(off[i - 1], c[i], off[i])

Mail == MboxContents(recvmbox)

\* No messages, no way.
LEMMA ChainEmpty == ASSUME NEW a \in Nat PROVE Chain(<<>>, a, a)
<1> DEFINE off == [i \in 0..0 |-> a]
<1>1. off \in [0..Len(<<>>) -> Nat] /\ off[0] = a /\ off[Len(<<>>)] = a
  OBVIOUS
<1>2. \A i, j \in 0..Len(<<>>) : i <= j => off[i] <= off[j]
  OBVIOUS
<1>3. \A i \in 1..Len(<<>>) : Link(off[i - 1], <<>>[i], off[i])
  OBVIOUS
<1> HIDE DEF off
<1> QED
  BY <1>1, <1>2, <1>3 DEF Chain

\* A message at the end.
LEMMA ChainAppend ==
    ASSUME NEW c \in Seq(Msg), NEW d \in Msg, NEW a, NEW b, NEW e \in Nat,
           Chain(c, a, b), Link(b, d, e)
    PROVE  Chain(Append(c, d), a, e)
<1> DEFINE n == Len(c)
           c2 == Append(c, d)
<1>1. PICK off \in [0..n -> Nat] :
        /\ off[0] = a /\ off[n] = b
        /\ \A i, j \in 0..n : i <= j => off[i] <= off[j]
        /\ \A i \in 1..n : Link(off[i - 1], c[i], off[i])
  BY DEF Chain
<1> DEFINE off2 == [i \in 0..(n + 1) |-> IF i = n + 1 THEN e ELSE off[i]]
<1>2. /\ n \in Nat /\ Len(c2) = n + 1 /\ c2[n + 1] = d
      /\ \A i \in 1..n : c2[i] = c[i]
  <2>1. Len(c) \in Nat
    OBVIOUS
  <2>2. /\ Len(Append(c, d)) = Len(c) + 1
        /\ \A i \in 1..Len(c) : Append(c, d)[i] = c[i]
        /\ Append(c, d)[Len(c) + 1] = d
    BY AppendProperties
  <2> QED
    BY <2>1, <2>2
<1>3. a \in Nat /\ b \in Nat /\ a <= b /\ b <= e
  <2>1. a \in Nat /\ b \in Nat /\ a <= b
    BY <1>1, <1>2
  <2>2. Len(d) \in Nat
    BY DEF Msg
  <2>3. e = b \/ e = b + Len(d)
    BY DEF Link
  <2> QED
    BY <2>1, <2>2, <2>3
<1>4. off2 \in [0..(n + 1) -> Nat] /\ off2[0] = a /\ off2[n + 1] = e
  BY <1>1, <1>2
<1>5. \A i, j \in 0..(n + 1) : i <= j => off2[i] <= off2[j]
  <2> SUFFICES ASSUME NEW i \in 0..(n + 1), NEW j \in 0..(n + 1), i <= j
               PROVE  off2[i] <= off2[j]
    OBVIOUS
  <2>1. CASE j \in 0..n
    BY <2>1, <1>1, <1>2
  <2>2. CASE i \in 0..n /\ j = n + 1
    <3>1. off[i] <= off[n] /\ off[i] \in Nat
      BY <2>2, <1>1, <1>2
    <3> QED
      BY <3>1, <2>2, <1>1, <1>2, <1>3
  <2>3. CASE i = n + 1 /\ j = n + 1
    BY <2>3, <1>2
  <2> QED
    BY <2>1, <2>2, <2>3, <1>2
<1>6. \A i \in 1..(n + 1) : Link(off2[i - 1], c2[i], off2[i])
  <2> SUFFICES ASSUME NEW i \in 1..(n + 1) PROVE Link(off2[i - 1], c2[i], off2[i])
    OBVIOUS
  <2>1. CASE i = n + 1
    BY <2>1, <1>1, <1>2
  <2>2. CASE i # n + 1
    <3>1. i \in 1..n /\ off2[i - 1] = off[i - 1] /\ off2[i] = off[i]
      BY <2>2, <1>2
    <3> QED
      BY <3>1, <1>1, <1>2
  <2> QED
    BY <2>1, <2>2
<1> HIDE DEF off2, c2
<1> QED
  BY <1>2, <1>4, <1>5, <1>6 DEF Chain, c2

\* The first message taken away.
LEMMA ChainTail ==
    ASSUME NEW c \in Seq(Msg), NEW a, NEW b, c # <<>>, Chain(c, a, b)
    PROVE  \E e \in Nat : Link(a, Head(c), e) /\ Chain(Tail(c), e, b) /\ e <= b
<1> DEFINE n == Len(c)
           c2 == Tail(c)
<1>1. PICK off \in [0..n -> Nat] :
        /\ off[0] = a /\ off[n] = b
        /\ \A i, j \in 0..n : i <= j => off[i] <= off[j]
        /\ \A i \in 1..n : Link(off[i - 1], c[i], off[i])
  BY DEF Chain
<1> DEFINE off2 == [i \in 0..(n - 1) |-> off[i + 1]]
<1>2. /\ n \in Nat /\ n > 0 /\ Len(c2) = n - 1 /\ Head(c) = c[1]
      /\ \A i \in 1..(n - 1) : c2[i] = c[i + 1]
  BY HeadTailProperties
<1>3. off[1] \in Nat /\ Link(a, Head(c), off[1]) /\ off[1] <= b
  BY <1>1, <1>2
<1>4. /\ off2 \in [0..(n - 1) -> Nat] /\ off2[0] = off[1] /\ off2[n - 1] = b
      /\ \A i, j \in 0..(n - 1) : i <= j => off2[i] <= off2[j]
  BY <1>1, <1>2
<1>5. \A i \in 1..(n - 1) : Link(off2[i - 1], c2[i], off2[i])
  <2> SUFFICES ASSUME NEW i \in 1..(n - 1) PROVE Link(off2[i - 1], c2[i], off2[i])
    OBVIOUS
  <2>1. i + 1 \in 1..n /\ i + 1 - 1 = i /\ off2[i - 1] = off[i] /\ off2[i] = off[i + 1]
    BY <1>2
  <2>2. Link(off[i + 1 - 1], c[i + 1], off[i + 1])
    BY <2>1, <1>1
  <2> QED
    BY <2>1, <2>2, <1>2
<1> HIDE DEF off2, c2
<1>6. Chain(c2, off[1], b)
  BY <1>2, <1>4, <1>5 DEF Chain
<1> QED
  BY <1>3, <1>6 DEF c2

\* The messages lead forward.
LEMMA ChainForward ==
    ASSUME NEW c \in Seq(Msg), NEW a, NEW b, Chain(c, a, b)
    PROVE  a \in Nat /\ b \in Nat /\ a <= b
<1>1. Len(c) \in Nat
  OBVIOUS
<1> QED
  BY <1>1 DEF Chain

\* Nothing between two ends that are the same place when there is no message.
LEMMA ChainNone ==
    ASSUME NEW a, NEW b, Chain(<<>>, a, b)
    PROVE  a = b
BY DEF Chain

\* A run and the run that follows it are one run.
LEMMA RunConcat ==
    ASSUME NEW a \in Nat, NEW b \in Nat, NEW d \in Msg, a <= b, IsRun(b, d)
    PROVE  [k \in 1..(b - a) |-> a + k] \o d = [k \in 1..(b + Len(d) - a) |-> a + k]
<1> DEFINE u == [k \in 1..(b - a) |-> a + k]
           v == [k \in 1..(b + Len(d) - a) |-> a + k]
<1>1. d \in Seq(Nat) /\ Len(d) \in Nat
  BY DEF Msg
<1>2. u \in Seq(Nat) /\ Len(u) = b - a
  OBVIOUS
<1>3. v \in Seq(Nat) /\ Len(v) = b + Len(d) - a
  BY <1>1
<1>4. \A k \in 1..Len(d) : d[k] = b + k
  BY DEF IsRun
<1>5. /\ u \o d \in Seq(Nat) /\ Len(u \o d) = Len(u) + Len(d)
      /\ \A k \in 1..(Len(u) + Len(d)) :
           (u \o d)[k] = IF k <= Len(u) THEN u[k] ELSE d[k - Len(u)]
  BY <1>1, <1>2, ConcatProperties
<1>6. \A k \in 1..(b + Len(d) - a) : (u \o d)[k] = v[k]
  BY <1>1, <1>2, <1>4, <1>5
<1> HIDE DEF u, v
<1> DEFINE w == u \o d
<1>7. w \in Seq(Nat) /\ Len(w) = Len(v) /\ \A k \in 1..Len(w) : w[k] = v[k]
  <2>1. w \in Seq(Nat) /\ Len(w) = Len(u) + Len(d)
    BY <1>5, Zenon
  <2>2. \A k \in 1..(b + Len(d) - a) : w[k] = v[k]
    BY <1>6, Zenon
  <2> HIDE DEF w
  <2>3. Len(w) = b + Len(d) - a
    BY <2>1, <1>1, <1>2
  <2> QED
    BY <2>1, <2>2, <2>3, <1>3
<1> HIDE DEF w
<1>8. w = v
  BY <1>3, <1>7, SeqEqual
<1> QED
  BY <1>8 DEF u, v, w

\* The data of the messages that take the stream from a to b are a + 1, ..., b.
LEMMA FlattenChain ==
    ASSUME NEW c \in Seq(Msg), NEW a, NEW b, Chain(c, a, b),
           \A i \in 1..Len(c) : c[i] # ErrMsg
    PROVE  Flatten(c) = [k \in 1..(b - a) |-> a + k]
<1> DEFINE n == Len(c)
           cat[i \in 0..n] == IF i = 0 THEN <<>> ELSE cat[i - 1] \o c[i]
<1>1. PICK off \in [0..n -> Nat] :
        /\ off[0] = a /\ off[n] = b
        /\ \A i, j \in 0..n : i <= j => off[i] <= off[j]
        /\ \A i \in 1..n : Link(off[i - 1], c[i], off[i])
  BY DEF Chain
<1>2. n \in Nat /\ a \in Nat /\ b \in Nat /\ a <= b
  BY ChainForward
<1>3. Flatten(c) = cat[n]
  BY DEF Flatten
<1> DEFINE way(i) == [k \in 1..(off[i] - a) |-> a + k]
           step(f) == [i \in 0..n |-> IF i = 0 THEN <<>> ELSE f[i - 1] \o c[i]]
           h == [i \in 0..n |-> way(i)]
<1>4. \A i \in 0..n : a <= off[i]
  BY <1>1, <1>2
<1>5. \A i \in 1..n : way(i - 1) \o c[i] = way(i)
  <2> SUFFICES ASSUME NEW i \in 1..n PROVE way(i - 1) \o c[i] = way(i)
    OBVIOUS
  <2>1. /\ off[i - 1] \in Nat /\ a <= off[i - 1] /\ c[i] \in Msg
        /\ IsRun(off[i - 1], c[i]) /\ off[i] = off[i - 1] + Len(c[i])
    <3>1. i - 1 \in 0..n /\ off[i - 1] \in Nat /\ c[i] \in Msg /\ c[i] # ErrMsg
      BY <1>2
    <3>2. Link(off[i - 1], c[i], off[i])
      BY <1>1
    <3> QED
      BY <3>1, <3>2, <1>4 DEF Link
  <2>2. [k \in 1..(off[i - 1] - a) |-> a + k] \o c[i]
          = [k \in 1..(off[i - 1] + Len(c[i]) - a) |-> a + k]
    BY <2>1, <1>2, RunConcat
  <2>3. /\ way(i - 1) = [k \in 1..(off[i - 1] - a) |-> a + k]
        /\ way(i) = [k \in 1..(off[i - 1] + Len(c[i]) - a) |-> a + k]
    BY <2>1
  <2> QED
    BY <2>2, <2>3
<1>6. way(0) = <<>>
  BY <1>1, <1>2
<1> HIDE DEF way
<1>7. h = step(h)
  <2>1. \A i \in 0..n : way(i) = IF i = 0 THEN <<>> ELSE h[i - 1] \o c[i]
    <3> SUFFICES ASSUME NEW i \in 0..n
                 PROVE  way(i) = IF i = 0 THEN <<>> ELSE h[i - 1] \o c[i]
      OBVIOUS
    <3>1. CASE i = 0
      BY <3>1, <1>6
    <3>2. CASE i \in 1..n
      <4>1. h[i - 1] = way(i - 1) /\ i # 0
        BY <3>2, <1>2
      <4> QED
        BY <4>1, <3>2, <1>5
    <3>3. i = 0 \/ i \in 1..n
      BY <1>2
    <3> HIDE DEF h
    <3> QED
      BY <3>1, <3>2, <3>3, Zenon
  <2> QED
    BY <2>1
<1> HIDE DEF h
<1>8. cat = CHOOSE f : f = step(f)
  BY DEF cat
<1>9. cat = step(cat)
  BY <1>7, <1>8, Zenon
<1> HIDE DEF cat
<1> DEFINE diff == {i \in 0..n : cat[i] # way(i)}
<1>10. diff = {}
  <2> SUFFICES ASSUME diff # {} PROVE FALSE
    OBVIOUS
  <2>1. diff \subseteq Nat
    OBVIOUS
  <2>2. PICK x \in diff : \A y \in diff : x <= y
    BY <2>1, LeastNat
  <2>3. cat[0] = <<>> /\ \A i \in 1..n : cat[i] = cat[i - 1] \o c[i]
    <3>1. \A i \in 0..n : step(cat)[i] = IF i = 0 THEN <<>> ELSE cat[i - 1] \o c[i]
      OBVIOUS
    <3> HIDE DEF step
    <3>2. \A i \in 0..n : cat[i] = IF i = 0 THEN <<>> ELSE cat[i - 1] \o c[i]
      BY <3>1, <1>9
    <3> QED
      BY <3>2, <1>2
  <2>4. x \in 1..n
    BY <2>3, <1>2, <1>6
  <2>5. x - 1 \in 0..n /\ x - 1 \notin diff
    BY <2>2, <2>4, <1>2
  <2> QED
    BY <2>2, <2>3, <2>4, <2>5, <1>5
<1>11. cat[n] = way(n)
  BY <1>2, <1>10
<1> QED
  BY <1>1, <1>3, <1>11 DEF way

MailBox == Mbox(SYS_MBOX_SIZE, Msg)

\* The mailbox has slots.
LEMMA SizeOK == SYS_MBOX_SIZE \in Nat \ {0}
BY RxAssumption

\* A run starts after zero or later, an error message does not.
LEMMA RunNoErr ==
    ASSUME NEW b \in Nat, NEW d, IsRun(b, d)
    PROVE  d # ErrMsg /\ Len(d) \in Nat
<1>1. Len(d) \in Nat
  BY DEF IsRun, Msg
<1>2. d = ErrMsg => 1 \in 1..Len(d) /\ d[1] = 0
  BY DEF ErrMsg
<1>3. 1 \in 1..Len(d) => d[1] = b + 1
  BY DEF IsRun
<1> QED
  BY <1>1, <1>2, <1>3

\* recv_tcp(): the mailbox takes data, or they stay; the stream goes on either way.
LEMMA OfferRun ==
    ASSUME NEW mb \in MailBox, NEW data \in Msg, NEW a, NEW b,
           Chain(MboxContents(mb), a, b), IsRun(b, data),
           \A i \in 1..Len(MboxContents(mb)) : MboxContents(mb)[i] # ErrMsg
    PROVE  LET o == Offer(mb, data)
           IN  /\ o.mbox \in MailBox /\ o.refused \in Msg
               /\ \E e \in Nat : /\ Chain(MboxContents(o.mbox), a, e) /\ IsRun(e, o.refused)
                                 /\ e + Len(o.refused) = b + Len(data)
               /\ \A i \in 1..Len(MboxContents(o.mbox)) : MboxContents(o.mbox)[i] # ErrMsg
<1> DEFINE o == Offer(mb, data)
           c == MboxContents(mb)
<1>1. c \in Seq(Msg)
  BY ContentsSeq, SizeOK DEF MailBox
<1>2. a \in Nat /\ b \in Nat
  BY <1>1, ChainForward
<1>3. CASE data = <<>> \/ MboxFull(mb)
  <2>1. o.mbox = mb /\ o.refused = data
    BY <1>3 DEF Offer
  <2> HIDE DEF o
  <2> QED
    BY <2>1, <1>2 DEF o
<1>4. CASE ~(data = <<>> \/ MboxFull(mb))
  <2> DEFINE p == sys_mbox_trypost(mb, data)
             e == b + Len(data)
  <2>1. o.mbox = p /\ o.refused = <<>>
    BY <1>4 DEF Offer
  <2>2. p \in MailBox /\ MboxContents(p) = Append(c, data)
    BY <1>4, PostAppends, SizeOK DEF MailBox
  <2>3. data # ErrMsg /\ Len(data) \in Nat
    BY <1>2, RunNoErr
  <2>4. e \in Nat /\ Link(b, data, e)
    BY <1>2, <1>4, <2>3 DEF Link
  <2>5. Chain(MboxContents(p), a, e)
    BY <1>1, <2>2, <2>4, ChainAppend
  <2>6. \A i \in 1..Len(MboxContents(p)) : MboxContents(p)[i] # ErrMsg
    <3>1. /\ Len(c) \in Nat /\ Len(Append(c, data)) = Len(c) + 1
          /\ \A i \in 1..Len(c) : Append(c, data)[i] = c[i]
          /\ Append(c, data)[Len(c) + 1] = data
      BY <1>1, AppendProperties
    <3> HIDE DEF p, c
    <3>2. \A i \in 1..Len(c) : c[i] # ErrMsg
      BY DEF c
    <3> QED
      BY <3>1, <3>2, <2>2, <2>3
  <2>7. <<>> \in Msg /\ IsRun(e, <<>>) /\ e + Len(<<>>) = b + Len(data)
    BY <2>4 DEF Msg, IsRun
  <2> HIDE DEF p, e, o
  <2> QED
    BY <2>1, <2>2, <2>4, <2>5, <2>6, <2>7 DEF o
<1> QED
  BY <1>3, <1>4

\* An error message does not move the stream.
LEMMA OfferErr ==
    ASSUME NEW mb \in MailBox, NEW a, NEW b, Chain(MboxContents(mb), a, b)
    PROVE  Offer(mb, ErrMsg).mbox \in MailBox /\ Chain(MboxContents(Offer(mb, ErrMsg).mbox), a, b)
<1> DEFINE c == MboxContents(mb)
<1>1. c \in Seq(Msg) /\ ErrMsg \in Msg
  BY ContentsSeq, SizeOK DEF MailBox, ErrMsg, Msg
<1>2. a \in Nat /\ b \in Nat /\ Link(b, ErrMsg, b)
  BY <1>1, ChainForward DEF Link
<1>3. CASE ErrMsg = <<>> \/ MboxFull(mb)
  BY <1>3 DEF Offer
<1>4. CASE ~(ErrMsg = <<>> \/ MboxFull(mb))
  <2> DEFINE p == sys_mbox_trypost(mb, ErrMsg)
  <2>1. Offer(mb, ErrMsg).mbox = p
    BY <1>4 DEF Offer
  <2>2. p \in MailBox /\ MboxContents(p) = Append(c, ErrMsg)
    BY <1>1, <1>4, PostAppends, SizeOK DEF MailBox
  <2> QED
    BY <1>1, <1>2, <2>1, <2>2, ChainAppend
<1> QED
  BY <1>3, <1>4

\* A mailbox with mail is signalled or was never asleep on: an offer keeps this.
LEMMA OfferSignals ==
    ASSUME NEW mb \in MailBox, NEW data \in Msg, MboxEmpty(mb) \/ mb.not_empty = 1
    PROVE  MboxEmpty(Offer(mb, data).mbox) \/ Offer(mb, data).mbox.not_empty = 1
<1>1. CASE data = <<>> \/ MboxFull(mb)
  BY <1>1 DEF Offer
<1>2. CASE ~(data = <<>> \/ MboxFull(mb))
  <2> DEFINE p == sys_mbox_trypost(mb, data)
  <2>1. Offer(mb, data).mbox = p
    BY <1>2 DEF Offer
  <2>2. p.not_empty = IF MboxEmpty(mb) THEN 1 ELSE mb.not_empty
    BY <1>2, PostAppends, SizeOK DEF MailBox
  <2> QED
    BY <2>1, <2>2
<1> QED
  BY <1>1, <1>2

\* A mailbox stays a mailbox whatever is offered to it.
LEMMA OfferType ==
    ASSUME NEW mb \in MailBox, NEW data \in Msg
    PROVE  Offer(mb, data).mbox \in MailBox /\ Offer(mb, data).refused \in Msg
<1>1. CASE data = <<>> \/ MboxFull(mb)
  BY <1>1 DEF Offer
<1>2. CASE ~(data = <<>> \/ MboxFull(mb))
  <2> DEFINE p == sys_mbox_trypost(mb, data)
  <2>1. Offer(mb, data).mbox = p /\ Offer(mb, data).refused = <<>>
    BY <1>2 DEF Offer
  <2>2. p \in MailBox
    BY <1>2, PostAppends, SizeOK DEF MailBox
  <2> QED
    BY <2>1, <2>2 DEF Msg
<1> QED
  BY <1>1, <1>2

\* Pigeonhole: finitely many segments wait out of order, so there is a first gap, and
\* tcp_receive() takes what comes before it.
LEMMA FirstGap ==
    ASSUME NEW r \in Nat, NEW top \in Nat, ooseq \subseteq 1..top, rcv_nxt = r
    PROVE  \E n \in Nat \ {0} :
             /\ InSequence = [i \in 1..n |-> r + i - 1]
             /\ \A i \in 1..(n - 1) : r + i \in ooseq
             /\ r + n \notin ooseq
<1> DEFINE gaps == {k \in Nat \ {0} : r + k \notin ooseq}
           P(k) == /\ \A i \in 1..(k - 1) : r + i \in ooseq
                   /\ r + k \notin ooseq
           n == CHOOSE k \in 1..(Cardinality(ooseq) + 1) : P(k)
<1>1. gaps \subseteq Nat /\ top + 1 \in gaps
  OBVIOUS
<1>2. PICK k \in gaps : \A y \in gaps : k <= y
  BY <1>1, LeastNat
<1>3. \A i \in 1..(k - 1) : r + i \in ooseq
  <2> SUFFICES ASSUME NEW i \in 1..(k - 1), r + i \notin ooseq PROVE FALSE
    OBVIOUS
  <2>1. i \in gaps
    OBVIOUS
  <2> QED
    BY <2>1, <1>2
<1>4. P(k)
  BY <1>2, <1>3
<1>5. IsFiniteSet(ooseq) /\ Cardinality(ooseq) \in Nat
  <2>1. 1 \in Int /\ top \in Int
    OBVIOUS
  <2>2. IsFiniteSet(1..top)
    BY <2>1, FS_Interval
  <2>3. IsFiniteSet(ooseq)
    BY <2>2, FS_Subset
  <2> QED
    BY <2>3, FS_CardinalityType
<1>6. (r + 1)..(r + (k - 1)) \subseteq ooseq
  <2> SUFFICES ASSUME NEW x \in (r + 1)..(r + (k - 1)) PROVE x \in ooseq
    OBVIOUS
  <2>1. x - r \in 1..(k - 1) /\ r + (x - r) = x
    BY <1>2
  <2> QED
    BY <2>1, <1>3
<1>7. Cardinality((r + 1)..(r + (k - 1))) = k - 1
  <2>1. r + 1 \in Int /\ r + (k - 1) \in Int /\ k \in Nat /\ k > 0
    BY <1>2
  <2>2. Cardinality((r + 1)..(r + (k - 1)))
          = IF r + 1 > r + (k - 1) THEN 0 ELSE (r + (k - 1)) - (r + 1) + 1
    BY <2>1, FS_Interval
  <2> QED
    BY <2>1, <2>2
<1>8. k - 1 <= Cardinality(ooseq)
  BY <1>5, <1>6, <1>7, FS_Subset
<1>9. k \in 1..(Cardinality(ooseq) + 1)
  BY <1>2, <1>5, <1>8
<1> HIDE DEF P
<1>10. n \in 1..(Cardinality(ooseq) + 1) /\ P(n)
  BY <1>4, <1>9
<1>11. InSequence = [i \in 1..n |-> r + i - 1]
  BY DEF InSequence, P
<1> HIDE DEF n
<1>12. n \in Nat \ {0}
  BY <1>5, <1>10
<1> QED
  BY <1>10, <1>11, <1>12 DEF P

----------------------------------------------------------------------------
(* The inductive invariant.                                                  *)

Pcs == {"idle", "top", "called", "fetch", "wait", "tryfetch", "more", "done"}

\* The values the proof needs of the variables.
Typed ==
    /\ sent \in Nat /\ xack \in Nat /\ acks \in Seq(Nat)
    /\ rcv_nxt \in Nat \ {0} /\ rcv_wnd \in Int /\ ooseq \subseteq Nat
    /\ refused_data \in Msg /\ recvmbox \in MailBox
    /\ flags \subseteq {"MBOXCLOSED", "MBOXINVALID"}
    /\ pc \in Pcs /\ left \in Nat /\ recvd \in Nat
    /\ lastdata \in Msg /\ delivered \in Msg
    /\ fpgaAck \in Nat

\* lwIP takes over what was sent; segments out of order wait beyond the next one.
Sequenced ==
    /\ rcv_nxt <= sent + 1
    /\ \A s \in ooseq : rcv_nxt < s /\ s <= sent

\* No number beyond the next segment is acknowledged, on any way to the wire.
Acked ==
    /\ xack <= rcv_nxt /\ fpgaAck <= rcv_nxt
    /\ \A i \in 1..Len(acks) : acks[i] <= rcv_nxt

\* lwip_recv_tcp() waits for a message only when it has none at hand, and sleeps or
\* gives up only when it has read nothing.
Reading ==
    /\ pc \in {"called", "fetch", "wait", "tryfetch", "more"} => lastdata = <<>>
    /\ pc \in {"idle", "called", "fetch", "wait"} => recvd = 0
    /\ pc = "top" /\ lastdata = <<>> => recvd = 0

\* What was read, what is held, the mail and what was refused follow on each other; a
\* session that is gone may have lost the end.
Delivering ==
    /\ IsRun(0, delivered)
    /\ IsRun(Len(delivered), lastdata)
    /\ \E b \in Nat :
         /\ Chain(Mail, Len(delivered) + Len(lastdata), b)
         /\ b <= rcv_nxt - 1
         /\ Open => IsRun(b, refused_data) /\ b + Len(refused_data) = rcv_nxt - 1
    /\ Open => \A i \in 1..Len(Mail) : Mail[i] # ErrMsg

RxInv ==
    /\ Typed /\ Sequenced /\ Acked /\ Reading /\ Delivering
    /\ WindowReturned /\ NoSleepOnMail

\* The start: nothing sent, nothing in the mailbox.
LEMMA RxInit == Init => RxInv
<1> SUFFICES ASSUME Init PROVE RxInv
  OBVIOUS
<1>1. <<>> \in Msg /\ IsRun(0, <<>>) /\ Len(<<>>) = 0
  BY DEF Msg, IsRun
<1>2. recvmbox \in MailBox /\ Mail = <<>>
  BY <1>1, SizeOK, NewMbox DEF Init, MailBox, Mail
<1>3. Typed
  BY <1>1, <1>2, RxAssumption DEF Init, Typed, Pcs
<1>4. Sequenced /\ Acked /\ Reading
  BY DEF Init, Sequenced, Acked, Reading
<1>5. Chain(Mail, 0, 0)
  BY <1>2, ChainEmpty
<1>6. Delivering
  <2>1. \A i \in 1..Len(Mail) : Mail[i] # ErrMsg
    BY <1>2
  <2>2. IsRun(0, delivered) /\ IsRun(Len(delivered), lastdata) /\ Len(delivered) + Len(lastdata) = 0
    BY <1>1 DEF Init
  <2>3. IsRun(0, refused_data) /\ 0 + Len(refused_data) = rcv_nxt - 1 /\ 0 <= rcv_nxt - 1
    BY <1>1 DEF Init
  <2> QED
    BY <1>5, <2>1, <2>2, <2>3 DEF Delivering
<1>7. WindowReturned /\ NoSleepOnMail
  BY <1>1, RxAssumption DEF Init, WindowReturned, NoSleepOnMail
<1> QED
  BY <1>3, <1>4, <1>6, <1>7 DEF RxInv

\* A sequence of numbers below a bound, with one more.
LEMMA BelowAppend ==
    ASSUME NEW q \in Seq(Nat), NEW n \in Nat, NEW top \in Nat, n <= top,
           \A i \in 1..Len(q) : q[i] <= top
    PROVE  /\ Append(q, n) \in Seq(Nat)
           /\ \A i \in 1..Len(Append(q, n)) : Append(q, n)[i] <= top
<1>1. /\ Len(q) \in Nat /\ Append(q, n) \in Seq(Nat) /\ Len(Append(q, n)) = Len(q) + 1
      /\ \A i \in 1..Len(q) : Append(q, n)[i] = q[i]
      /\ Append(q, n)[Len(q) + 1] = n
  BY AppendProperties
<1> QED
  BY <1>1

\* sendStackEthFrame() with a number that is not beyond the next segment.
LEMMA AckGoesOut ==
    ASSUME Typed, Acked, NEW n \in Nat, rcv_nxt' \in Nat, rcv_nxt <= rcv_nxt', n <= rcv_nxt',
           xack' = xack, sendStackEthFrame(n) \/ NoAck
    PROVE  Acked' /\ acks' \in Seq(Nat) /\ fpgaAck' \in Nat
<1>1. /\ acks \in Seq(Nat) /\ \A i \in 1..Len(acks) : acks[i] <= rcv_nxt'
      /\ fpgaAck \in Nat /\ fpgaAck <= rcv_nxt' /\ xack' <= rcv_nxt'
  BY DEF Typed, Acked
<1>2. CASE acks' = acks /\ fpgaAck' = fpgaAck
  BY <1>1, <1>2 DEF Acked
<1>3. CASE acks' = Append(acks, n) /\ fpgaAck' = n
  BY <1>1, <1>3, BelowAppend DEF Acked
<1> QED
  BY <1>2, <1>3 DEF sendStackEthFrame, NoAck, sess

\* What the steps of a part of the system leave alone.
Held == UNCHANGED <<delivered, lastdata, recvmbox, refused_data, rcv_nxt, flags>>

LEMMA HeldDelivering == Delivering /\ Held => Delivering'
BY DEF Held, Delivering, Mail, Open

\* tcp_process_refused_data(): the stream goes on from the mailbox to what is kept.
LEMMA KeptGoesOn ==
    ASSUME RxInv, Open
    PROVE  /\ Kept.mbox \in MailBox /\ Kept.refused \in Msg
           /\ \E e \in Nat : /\ Chain(MboxContents(Kept.mbox), Len(delivered) + Len(lastdata), e)
                             /\ IsRun(e, Kept.refused)
                             /\ e + Len(Kept.refused) = rcv_nxt - 1
           /\ \A i \in 1..Len(MboxContents(Kept.mbox)) : MboxContents(Kept.mbox)[i] # ErrMsg
           /\ pc = "wait" => MboxEmpty(Kept.mbox) \/ Kept.mbox.not_empty = 1
<1>1. recvmbox \in MailBox /\ refused_data \in Msg
  BY DEF RxInv, Typed
<1>2. PICK b \in Nat : /\ Chain(Mail, Len(delivered) + Len(lastdata), b)
                       /\ IsRun(b, refused_data) /\ b + Len(refused_data) = rcv_nxt - 1
  BY DEF RxInv, Delivering
<1>3. \A i \in 1..Len(Mail) : Mail[i] # ErrMsg
  BY DEF RxInv, Delivering
<1>4. pc = "wait" => MboxEmpty(Kept.mbox) \/ Kept.mbox.not_empty = 1
  BY <1>1, OfferSignals DEF RxInv, NoSleepOnMail, Kept
<1> QED
  BY <1>1, <1>2, <1>3, <1>4, OfferRun DEF Kept, Mail

\* Data lwIP took over reach the reader in order whatever the mailbox takes of them.
LEMMA OfferedDelivering ==
    ASSUME RxInv, Open, flags' = flags, UNCHANGED <<delivered, lastdata>>,
           rcv_nxt' \in Nat, NEW e \in Nat,
           Chain(Mail', Len(delivered) + Len(lastdata), e),
           IsRun(e, refused_data'), e + Len(refused_data') = rcv_nxt' - 1,
           \A i \in 1..Len(Mail') : Mail'[i] # ErrMsg
    PROVE  Delivering'
<1>1. Len(refused_data') \in Nat
  BY RunNoErr
<1>2. IsRun(0, delivered') /\ IsRun(Len(delivered'), lastdata')
  BY DEF RxInv, Delivering
<1>3. Chain(Mail', Len(delivered') + Len(lastdata'), e)
  OBVIOUS
<1>4. e <= rcv_nxt' - 1
  <2>1. \A x, y, z \in Nat : x + y = z - 1 => x <= z - 1
    OBVIOUS
  <2> QED
    BY <1>1, <2>1, Zenon
<1>5. \E b \in Nat : /\ Chain(Mail', Len(delivered') + Len(lastdata'), b)
                     /\ b <= rcv_nxt' - 1
                     /\ IsRun(b, refused_data') /\ b + Len(refused_data') = rcv_nxt' - 1
  BY <1>3, <1>4
<1> QED
  BY <1>2, <1>5 DEF Delivering

LEMMA StepInputRefused ==
    ASSUME RxInv, NEW seg, InputRefused(seg)
    PROVE  RxInv'
<1> USE DEF RxInv
<1>1. Acked' /\ acks' \in Seq(Nat) /\ fpgaAck' \in Nat
  BY AckGoesOut DEF InputRefused, Typed
<1>2. Typed'
  BY <1>1 DEF Typed, InputRefused, app
<1>3. Delivering'
  BY HeldDelivering DEF Held, InputRefused, app
<1>4. Sequenced' /\ Reading' /\ WindowReturned' /\ NoSleepOnMail'
  BY DEF Sequenced, Reading, WindowReturned, NoSleepOnMail, InputRefused, app, Open
<1> QED
  BY <1>1, <1>2, <1>3, <1>4

LEMMA StepInputOther ==
    ASSUME RxInv, NEW seg \in 1..sent, InputOther(seg)
    PROVE  RxInv'
<1> USE DEF RxInv
<1>1. Acked' /\ acks' \in Seq(Nat) /\ fpgaAck' \in Nat
  BY AckGoesOut DEF InputOther, Typed
<1>2. PICK e \in Nat : /\ Chain(MboxContents(Kept.mbox), Len(delivered) + Len(lastdata), e)
                       /\ IsRun(e, Kept.refused)
                       /\ e + Len(Kept.refused) = rcv_nxt - 1
  BY KeptGoesOn DEF InputOther, Arrives
<1>3. /\ Kept.mbox \in MailBox
      /\ \A i \in 1..Len(MboxContents(Kept.mbox)) : MboxContents(Kept.mbox)[i] # ErrMsg
      /\ pc = "wait" => MboxEmpty(Kept.mbox) \/ Kept.mbox.not_empty = 1
  BY KeptGoesOn DEF InputOther, Arrives
<1>4. /\ recvmbox' = Kept.mbox /\ refused_data' = Kept.refused /\ rcv_nxt' = rcv_nxt
      /\ UNCHANGED <<sent, flags, delivered, lastdata, pc>> /\ Open
  BY DEF InputOther, Arrives, app
<1>5. ooseq' \subseteq Nat /\ Sequenced'
  BY DEF InputOther, InWindow, Typed, Sequenced
<1>6. Typed'
  BY <1>1, <1>3, <1>5, KeptGoesOn DEF Typed, InputOther, Arrives, app
<1>7. Delivering'
  <2>1. Mail' = MboxContents(Kept.mbox)
    BY <1>4 DEF Mail
  <2> QED
    BY <1>2, <1>3, <1>4, <2>1, OfferedDelivering DEF Typed
<1>8. NoSleepOnMail'
  BY <1>3, <1>4 DEF NoSleepOnMail
<1>9. Reading' /\ WindowReturned'
  BY DEF Reading, WindowReturned, InputOther, app, Open
<1> QED
  BY <1>1, <1>5, <1>6, <1>7, <1>8, <1>9

LEMMA StepInputNext ==
    ASSUME RxInv, NEW seg \in 1..sent, InputNext(seg)
    PROVE  RxInv'
<1> USE DEF RxInv
<1> DEFINE data == InSequence
           new == Offer(Kept.mbox, data)
<1>1. /\ Open /\ Kept.refused = <<>> /\ seg = rcv_nxt
      /\ rcv_nxt' = rcv_nxt + Len(data) /\ rcv_wnd' = rcv_wnd - Len(data)
      /\ ooseq' = {s \in ooseq : s >= rcv_nxt'}
      /\ recvmbox' = new.mbox /\ refused_data' = new.refused
      /\ UNCHANGED <<sent, xack, flags, waiting, pc, left, lastdata, recvd, delivered>>
      /\ sendStackEthFrame(rcv_nxt') \/ NoAck
  BY DEF InputNext, Arrives, app
<1>2. /\ sent \in Nat /\ rcv_nxt \in Nat /\ rcv_nxt > 0 /\ rcv_wnd \in Int
      /\ ooseq \subseteq 1..sent
  BY DEF Typed, Sequenced
<1>3. PICK n \in Nat \ {0} : /\ data = [i \in 1..n |-> rcv_nxt + i - 1]
                             /\ \A i \in 1..(n - 1) : rcv_nxt + i \in ooseq
                             /\ rcv_nxt + n \notin ooseq
  BY <1>2, FirstGap
<1>4. Len(data) = n /\ data \in Msg /\ IsRun(rcv_nxt - 1, data)
  BY <1>2, <1>3 DEF Msg, IsRun
<1> HIDE DEF data
<1>5. rcv_nxt' = rcv_nxt + n /\ rcv_nxt' \in Nat /\ rcv_nxt <= rcv_nxt' /\ rcv_nxt' > 0
  BY <1>1, <1>2, <1>4
<1>6. rcv_nxt' <= sent' + 1
  <2>1. CASE n = 1
    BY <2>1, <1>1, <1>2, <1>5
  <2>2. CASE n # 1
    <3>1. n - 1 \in 1..(n - 1) /\ n \in Nat
      BY <2>2
    <3>2. rcv_nxt + (n - 1) \in 1..sent
      BY <3>1, <1>2, <1>3
    <3> QED
      BY <3>1, <3>2, <1>1, <1>2, <1>5
  <2> QED
    BY <2>1, <2>2
<1>7. Sequenced' /\ ooseq' \subseteq Nat
  <2>1. \A s \in ooseq' : s \in 1..sent /\ s >= rcv_nxt' /\ s # rcv_nxt'
    BY <1>1, <1>2, <1>3, <1>5
  <2>2. \A s \in ooseq' : rcv_nxt' < s /\ s <= sent'
    BY <2>1, <1>1, <1>2, <1>5
  <2>3. ooseq' \subseteq Nat
    BY <2>1, <1>2
  <2> QED
    BY <2>2, <2>3, <1>6, Zenon DEF Sequenced
<1>8. Acked' /\ acks' \in Seq(Nat) /\ fpgaAck' \in Nat
  BY <1>1, <1>5, AckGoesOut
<1>9. /\ Kept.mbox \in MailBox
      /\ Chain(MboxContents(Kept.mbox), Len(delivered) + Len(lastdata), rcv_nxt - 1)
      /\ \A i \in 1..Len(MboxContents(Kept.mbox)) : MboxContents(Kept.mbox)[i] # ErrMsg
      /\ pc = "wait" => MboxEmpty(Kept.mbox) \/ Kept.mbox.not_empty = 1
  <2>1. PICK e \in Nat : /\ Chain(MboxContents(Kept.mbox), Len(delivered) + Len(lastdata), e)
                         /\ e + Len(Kept.refused) = rcv_nxt - 1
    BY <1>1, KeptGoesOn
  <2>2. Len(Kept.refused) = 0
    BY <1>1
  <2>3. e = rcv_nxt - 1
    BY <2>1, <2>2, <1>2
  <2> QED
    BY <1>1, <2>1, <2>3, KeptGoesOn
<1>10. /\ new.mbox \in MailBox /\ new.refused \in Msg
       /\ \E e \in Nat : /\ Chain(MboxContents(new.mbox), Len(delivered) + Len(lastdata), e)
                         /\ IsRun(e, new.refused)
                         /\ e + Len(new.refused) = rcv_nxt - 1 + Len(data)
       /\ \A i \in 1..Len(MboxContents(new.mbox)) : MboxContents(new.mbox)[i] # ErrMsg
  BY <1>4, <1>9, OfferRun
<1>11. pc = "wait" => MboxEmpty(new.mbox) \/ new.mbox.not_empty = 1
  BY <1>4, <1>9, OfferSignals
<1> HIDE DEF new
<1>12. Typed'
  BY <1>1, <1>2, <1>4, <1>5, <1>7, <1>8, <1>10 DEF Typed
<1>13. Delivering'
  <2>1. Mail' = MboxContents(new.mbox)
    BY <1>1 DEF Mail
  <2>2. PICK e \in Nat : /\ Chain(MboxContents(new.mbox), Len(delivered) + Len(lastdata), e)
                         /\ IsRun(e, new.refused)
                         /\ e + Len(new.refused) = rcv_nxt - 1 + Len(data)
    BY <1>10
  <2>3. e + Len(refused_data') = rcv_nxt' - 1
    BY <2>2, <1>1, <1>2, <1>4
  <2> QED
    BY <1>1, <1>5, <1>10, <2>1, <2>2, <2>3, OfferedDelivering
<1>14. NoSleepOnMail'
  BY <1>1, <1>11 DEF NoSleepOnMail
<1>15. WindowReturned'
  <2>1. Len(delivered) \in Nat /\ recvd \in Nat /\ RcvWnd \in Nat
    BY RxAssumption DEF Typed, Msg
  <2>2. rcv_wnd = RcvWnd - (rcv_nxt - 1 - Len(delivered)) - recvd
    BY <1>1 DEF WindowReturned
  <2>3. rcv_wnd - n = RcvWnd - (rcv_nxt + n - 1 - Len(delivered)) - recvd
    BY <2>1, <2>2, <1>2
  <2> QED
    BY <2>3, <1>1, <1>4, <1>5 DEF WindowReturned
<1>16. Reading'
  BY <1>1 DEF Reading
<1> QED
  BY <1>7, <1>8, <1>12, <1>13, <1>14, <1>15, <1>16

LEMMA StepFasttmr ==
    ASSUME RxInv, tcp_fasttmr
    PROVE  RxInv'
<1> USE DEF RxInv
<1>1. /\ Open /\ recvmbox' = Kept.mbox /\ refused_data' = Kept.refused
      /\ UNCHANGED <<sent, xack, rcv_nxt, rcv_wnd, ooseq, flags>>
      /\ UNCHANGED <<pc, left, lastdata, recvd, delivered>>
      /\ sendStackEthFrame(rcv_nxt) \/ NoAck
  BY DEF tcp_fasttmr, xvars, app
<1>2. Acked' /\ acks' \in Seq(Nat) /\ fpgaAck' \in Nat
  BY <1>1, AckGoesOut DEF Typed
<1>3. PICK e \in Nat : /\ Chain(MboxContents(Kept.mbox), Len(delivered) + Len(lastdata), e)
                       /\ IsRun(e, Kept.refused)
                       /\ e + Len(Kept.refused) = rcv_nxt - 1
  BY <1>1, KeptGoesOn
<1>4. /\ Kept.mbox \in MailBox /\ Kept.refused \in Msg
      /\ \A i \in 1..Len(MboxContents(Kept.mbox)) : MboxContents(Kept.mbox)[i] # ErrMsg
      /\ pc = "wait" => MboxEmpty(Kept.mbox) \/ Kept.mbox.not_empty = 1
  BY <1>1, KeptGoesOn
<1>5. Typed'
  BY <1>1, <1>2, <1>4 DEF Typed
<1>6. Delivering'
  <2>1. Mail' = MboxContents(Kept.mbox)
    BY <1>1 DEF Mail
  <2> QED
    BY <1>1, <1>3, <1>4, <2>1, OfferedDelivering DEF Typed
<1>7. NoSleepOnMail' /\ Sequenced' /\ Reading' /\ WindowReturned'
  BY <1>1, <1>4 DEF NoSleepOnMail, Sequenced, Reading, WindowReturned, Open
<1> QED
  BY <1>2, <1>5, <1>6, <1>7

\* The error message takes its place behind the data and wakes the reader.
LEMMA GoneDelivering ==
    ASSUME RxInv, ~Open', UNCHANGED <<delivered, lastdata, rcv_nxt>>,
           recvmbox' \in {recvmbox, Offer(recvmbox, ErrMsg).mbox}, pc' = pc
    PROVE  recvmbox' \in MailBox /\ Delivering' /\ NoSleepOnMail'
<1> USE DEF RxInv
<1>1. recvmbox \in MailBox /\ ErrMsg \in Msg
  BY DEF Typed, ErrMsg, Msg
<1>2. PICK b \in Nat : Chain(Mail, Len(delivered) + Len(lastdata), b) /\ b <= rcv_nxt - 1
  BY DEF Delivering
<1>3. recvmbox' \in MailBox /\ Chain(Mail', Len(delivered) + Len(lastdata), b)
  BY <1>1, <1>2, OfferErr DEF Mail
<1>4. NoSleepOnMail'
  BY <1>1, OfferSignals DEF NoSleepOnMail
<1>5. IsRun(0, delivered') /\ IsRun(Len(delivered'), lastdata')
  BY DEF Delivering
<1>6. \E x \in Nat : Chain(Mail', Len(delivered') + Len(lastdata'), x) /\ x <= rcv_nxt' - 1
  BY <1>2, <1>3
<1>7. Delivering'
  BY <1>5, <1>6 DEF Delivering
<1> QED
  BY <1>3, <1>4, <1>7

LEMMA StepGone ==
    ASSUME RxInv, err_tcp \/ lwip_close
    PROVE  RxInv'
<1> USE DEF RxInv
<1>1. /\ flags' \subseteq {"MBOXCLOSED", "MBOXINVALID"} /\ ~Open'
      /\ recvmbox' \in {recvmbox, Offer(recvmbox, ErrMsg).mbox}
      /\ rcv_wnd' = 0 /\ ooseq' = {} /\ refused_data' = <<>> /\ acks' = <<>>
      /\ UNCHANGED <<sent, xack, rcv_nxt, fpgaAck, pc, left, lastdata, recvd, delivered>>
  BY DEF err_tcp, lwip_close, PcbGone, app, sess, Typed, Open
<1>2. recvmbox' \in MailBox /\ Delivering' /\ NoSleepOnMail'
  BY <1>1, GoneDelivering
<1>3. Typed'
  BY <1>1, <1>2 DEF Typed, Msg
<1>4. Sequenced' /\ Acked' /\ Reading' /\ WindowReturned'
  BY <1>1 DEF Typed, Sequenced, Acked, Reading, WindowReturned
<1> QED
  BY <1>2, <1>3, <1>4

----------------------------------------------------------------------------
(* The steps of the reader.                                                  *)

\* lwip_recv_tcp() copies from the front of what it holds.
LEMMA CopyRun ==
    ASSUME NEW a \in Msg, NEW d \in Msg, IsRun(0, a), IsRun(Len(a), d), NEW n \in 1..Len(d)
    PROVE  LET u == a \o SubSeq(d, 1, n)
               v == SubSeq(d, n + 1, Len(d))
           IN  /\ u \in Msg /\ v \in Msg /\ Len(u) = Len(a) + n /\ Len(v) = Len(d) - n
               /\ IsRun(0, u) /\ IsRun(Len(u), v)
<1> DEFINE h == SubSeq(d, 1, n)
           u == a \o h
           v == SubSeq(d, n + 1, Len(d))
<1>1. a \in Seq(Nat) /\ d \in Seq(Nat) /\ Len(a) \in Nat /\ Len(d) \in Nat /\ n \in Nat
  BY DEF Msg
<1>2. /\ \A k \in 1..Len(a) : a[k] = 0 + k
      /\ \A k \in 1..Len(d) : d[k] = Len(a) + k
  BY DEF IsRun
<1>3. /\ h \in Seq(Nat) /\ Len(h) = n
      /\ \A k \in 1..n : h[k] = d[k]
  BY <1>1
<1>4. /\ v \in Seq(Nat) /\ Len(v) = Len(d) - n
      /\ \A k \in 1..(Len(d) - n) : v[k] = d[n + k]
  BY <1>1
<1> HIDE DEF h, v
<1>5. /\ u \in Seq(Nat) /\ Len(u) = Len(a) + Len(h)
      /\ \A k \in 1..(Len(a) + Len(h)) :
           u[k] = IF k <= Len(a) THEN a[k] ELSE h[k - Len(a)]
  BY <1>1, <1>3, ConcatProperties
<1> HIDE DEF u
<1>6. Len(u) = Len(a) + n
  BY <1>3, <1>5
<1>7. IsRun(0, u)
  <2>1. \A k \in 1..Len(u) : u[k] = 0 + k
    <3> SUFFICES ASSUME NEW k \in 1..Len(u) PROVE u[k] = 0 + k
      OBVIOUS
    <3>1. k \in Nat /\ k \in 1..(Len(a) + Len(h)) /\ k > 0 /\ k <= Len(a) + n
      BY <1>1, <1>3, <1>5
    <3>2. CASE k <= Len(a)
      <4>1. k \in 1..Len(a)
        BY <3>1, <3>2, <1>1
      <4>2. u[k] = a[k]
        BY <3>1, <3>2, <1>5
      <4> QED
        BY <4>1, <4>2, <1>2
    <3>3. CASE k > Len(a)
      <4>1. k - Len(a) \in 1..n /\ k - Len(a) \in 1..Len(d) /\ ~(k <= Len(a))
        BY <3>1, <3>3, <1>1
      <4>2. u[k] = h[k - Len(a)]
        BY <4>1, <3>1, <1>5
      <4>3. u[k] = Len(a) + (k - Len(a))
        BY <4>1, <4>2, <1>2, <1>3
      <4> QED
        BY <4>3, <3>1, <1>1
    <3> QED
      BY <3>1, <3>2, <3>3, <1>1
  <2> QED
    BY <1>5, <2>1 DEF IsRun, Msg
<1>8. IsRun(Len(u), v)
  <2>1. \A k \in 1..Len(v) : v[k] = Len(u) + k
    BY <1>1, <1>2, <1>4, <1>6
  <2> QED
    BY <1>4, <2>1 DEF IsRun, Msg
<1> QED
  BY <1>4, <1>5, <1>6, <1>7, <1>8 DEF Msg, u, v, h

LEMMA StepCopy ==
    ASSUME RxInv, Copy
    PROVE  RxInv'
<1> USE DEF RxInv
<1>1. PICK n \in 1..Len(lastdata) :
         /\ n = IF left > Len(lastdata) THEN Len(lastdata) ELSE left
         /\ delivered' = delivered \o SubSeq(lastdata, 1, n)
         /\ lastdata' = SubSeq(lastdata, n + 1, Len(lastdata))
         /\ left' = left - n
         /\ recvd' = recvd + n
         /\ pc' = IF left' > 0 THEN "more" ELSE "done"
  BY DEF Copy
<1>2. /\ UNCHANGED <<sent, xack, acks, rcv_nxt, rcv_wnd, ooseq, refused_data, recvmbox>>
      /\ UNCHANGED <<flags, fpgaAck>>
  BY DEF Copy, stack, xvars, sess
<1>3. /\ delivered \in Msg /\ lastdata \in Msg /\ IsRun(0, delivered)
      /\ IsRun(Len(delivered), lastdata)
      /\ Len(delivered) \in Nat /\ Len(lastdata) \in Nat /\ n \in Nat
      /\ left \in Nat /\ recvd \in Nat /\ rcv_nxt \in Nat /\ RcvWnd \in Nat
  BY RxAssumption DEF Typed, Delivering, Msg
<1>4. /\ delivered' \in Msg /\ lastdata' \in Msg
      /\ Len(delivered') = Len(delivered) + n /\ Len(lastdata') = Len(lastdata) - n
      /\ IsRun(0, delivered') /\ IsRun(Len(delivered'), lastdata')
  <2> DEFINE u == delivered \o SubSeq(lastdata, 1, n)
             v == SubSeq(lastdata, n + 1, Len(lastdata))
  <2>1. /\ u \in Msg /\ v \in Msg /\ Len(u) = Len(delivered) + n /\ Len(v) = Len(lastdata) - n
        /\ IsRun(0, u) /\ IsRun(Len(u), v)
    BY <1>3, CopyRun, Zenon
  <2>2. delivered' = u /\ lastdata' = v
    BY <1>1
  <2> HIDE DEF u, v
  <2> QED
    BY <2>1, <2>2
<1> DEFINE dl == Len(delivered)
           ll == Len(lastdata)
<1>a. /\ n = IF left > ll THEN ll ELSE left
      /\ left' = left - n /\ recvd' = recvd + n
      /\ dl \in Nat /\ ll \in Nat /\ n \in Nat
      /\ Len(delivered') = dl + n /\ Len(lastdata') = ll - n
  BY <1>1, <1>3, <1>4
<1> HIDE DEF dl, ll
<1>5. Typed'
  <2>1. left' \in Nat /\ recvd' \in Nat /\ pc' \in Pcs
    BY <1>1, <1>3 DEF Pcs
  <2> QED
    BY <2>1, <1>2, <1>4 DEF Typed
<1>6. Delivering'
  <2>1. Len(delivered') + Len(lastdata') = Len(delivered) + Len(lastdata)
    BY <1>3, <1>4
  <2>2. PICK b \in Nat :
          /\ Chain(Mail, Len(delivered) + Len(lastdata), b)
          /\ b <= rcv_nxt - 1
          /\ Open => IsRun(b, refused_data) /\ b + Len(refused_data) = rcv_nxt - 1
    BY DEF Delivering
  <2>3. Mail' = Mail /\ Open' = Open
    BY <1>2 DEF Mail, Open
  <2>4. Chain(Mail', Len(delivered') + Len(lastdata'), b)
    BY <2>1, <2>2, <2>3
  <2> QED
    BY <2>2, <2>3, <2>4, <1>2, <1>4 DEF Delivering
<1>7. Reading'
  <2>1. left' > 0 => Len(lastdata') = 0
    BY <1>a, <1>3
  <2>2. Len(lastdata') = 0 => lastdata' = <<>>
    BY <1>4 DEF Msg
  <2> QED
    BY <1>1, <2>1, <2>2 DEF Reading
<1>8. WindowReturned'
  <2>1. Open' = Open
    BY <1>2 DEF Open
  <2>2. Open => rcv_wnd = RcvWnd - (rcv_nxt - 1 - dl) - recvd
    BY DEF WindowReturned, dl
  <2>3. Open => rcv_wnd = RcvWnd - (rcv_nxt - 1 - (dl + n)) - (recvd + n)
    BY <2>2, <1>a, <1>3
  <2> QED
    BY <2>1, <2>3, <1>2, <1>a DEF WindowReturned
<1>9. Sequenced' /\ Acked' /\ NoSleepOnMail'
  BY <1>1, <1>2 DEF Sequenced, Acked, NoSleepOnMail
<1> QED
  BY <1>5, <1>6, <1>7, <1>8, <1>9

\* The reader takes the first message: it now holds what follows on what it has read.
LEMMA StepTook ==
    ASSUME RxInv, ~MboxEmpty(recvmbox), Took, lastdata = <<>>,
           UNCHANGED <<left, recvd, delivered>>,
           UNCHANGED <<sent, xack, acks, rcv_nxt, rcv_wnd, ooseq, refused_data, flags, fpgaAck>>
    PROVE  RxInv'
<1> USE DEF RxInv
<1> DEFINE m == MboxHead(recvmbox)
           c == Mail
<1>1. recvmbox \in MailBox /\ c \in Seq(Msg)
  BY SizeOK, ContentsSeq DEF Typed, MailBox, Mail
<1>2. /\ recvmbox' \in MailBox /\ c # <<>> /\ m = Head(c) /\ m \in Msg
      /\ Mail' = Tail(c)
  BY <1>1, SizeOK, FetchTakesHead DEF MailBox, Mail, Took
<1>3. Len(lastdata) = 0 /\ Len(delivered) \in Nat /\ rcv_nxt \in Nat /\ delivered \in Msg
  BY DEF Typed, Msg
<1>4. PICK b \in Nat :
        /\ Chain(c, Len(delivered) + Len(lastdata), b)
        /\ b <= rcv_nxt - 1
        /\ Open => IsRun(b, refused_data) /\ b + Len(refused_data) = rcv_nxt - 1
  BY DEF Delivering
<1>5. Chain(c, Len(delivered), b)
  BY <1>3, <1>4
<1>6. PICK e \in Nat : Link(Len(delivered), m, e) /\ Chain(Tail(c), e, b)
  BY <1>1, <1>2, <1>5, ChainTail
<1>7. /\ lastdata' \in Msg /\ IsRun(Len(delivered), lastdata')
      /\ e = Len(delivered) + Len(lastdata')
      /\ m # ErrMsg => lastdata' # <<>>
  <2>1. CASE m = ErrMsg
    <3>1. lastdata' = <<>>
      BY <2>1 DEF Took
    <3>2. e = Len(delivered)
      <4>1. ~(IsRun(Len(delivered), m))
        BY <2>1, <1>3, RunNoErr
      <4> QED
        BY <4>1, <1>6 DEF Link
    <3> QED
      BY <2>1, <3>1, <3>2, <1>3 DEF IsRun, Msg
  <2>2. CASE m # ErrMsg
    BY <2>2, <1>2, <1>6 DEF Took, Link
  <2> QED
    BY <2>1, <2>2
<1>8. Open' = Open
  BY DEF Open
<1>9. Delivering'
  <2>1. IsRun(0, delivered') /\ IsRun(Len(delivered'), lastdata')
    BY <1>7 DEF Delivering
  <2>2. \E x \in Nat :
          /\ Chain(Mail', Len(delivered') + Len(lastdata'), x)
          /\ x <= rcv_nxt' - 1
          /\ Open' => IsRun(x, refused_data') /\ x + Len(refused_data') = rcv_nxt' - 1
    BY <1>2, <1>4, <1>6, <1>7, <1>8
  <2>3. Open' => \A i \in 1..Len(Mail') : Mail'[i] # ErrMsg
    <3> SUFFICES ASSUME Open PROVE \A i \in 1..Len(Tail(c)) : Tail(c)[i] # ErrMsg
      BY <1>2, <1>8
    <3>1. \A i \in 1..Len(c) : c[i] # ErrMsg
      BY DEF Delivering
    <3>2. /\ Len(c) \in Nat /\ Len(Tail(c)) = Len(c) - 1
          /\ \A i \in 1..Len(Tail(c)) : Tail(c)[i] = c[i + 1]
      BY <1>1, <1>2, HeadTailProperties
    <3> HIDE DEF c
    <3> QED
      BY <3>1, <3>2
  <2> QED
    BY <2>1, <2>2, <2>3 DEF Delivering
<1>10. pc' \in Pcs /\ Typed'
  BY <1>2, <1>7 DEF Typed, Took, Pcs
<1>11. Reading' /\ NoSleepOnMail'
  BY <1>7 DEF Reading, NoSleepOnMail, Took, Typed
<1>12. Sequenced' /\ Acked' /\ WindowReturned'
  BY <1>8 DEF Sequenced, Acked, WindowReturned
<1> QED
  BY <1>9, <1>10, <1>11, <1>12

LEMMA StepFetch ==
    ASSUME RxInv, Fetch \/ Tryfetch
    PROVE  RxInv'
<1> USE DEF RxInv
<1>1. /\ UNCHANGED <<left, recvd, delivered>>
      /\ UNCHANGED <<sent, xack, acks, rcv_nxt, rcv_wnd, ooseq, refused_data, flags, fpgaAck>>
      /\ lastdata = <<>>
  BY DEF Fetch, Tryfetch, stack, xvars, sess, Reading
<1>2. CASE ~MboxEmpty(recvmbox)
  BY <1>1, <1>2, StepTook DEF Fetch, Tryfetch
<1>3. CASE MboxEmpty(recvmbox)
  <2>1. UNCHANGED <<recvmbox, lastdata>>
    BY <1>3 DEF Fetch, Tryfetch
  <2>2. Delivering'
    BY <1>1, <2>1, HeldDelivering DEF Held
  <2>3. /\ pc' \in {"wait", "done", "idle"}
        /\ pc' \in {"wait", "idle"} => recvd = 0
    BY <1>3 DEF Fetch, Tryfetch, Reading, Typed
  <2>4. Typed' /\ Reading'
    BY <1>1, <2>1, <2>3 DEF Typed, Reading, Pcs
  <2>5. NoSleepOnMail'
    BY <1>3, <2>1 DEF NoSleepOnMail
  <2>6. Sequenced' /\ Acked' /\ WindowReturned'
    BY <1>1 DEF Sequenced, Acked, WindowReturned, Open
  <2> QED
    BY <2>2, <2>4, <2>5, <2>6
<1> QED
  BY <1>2, <1>3

\* The signal is taken, the mail stays.
LEMMA StepWake ==
    ASSUME RxInv, Wake
    PROVE  RxInv'
<1> USE DEF RxInv
<1>1. recvmbox' = [recvmbox EXCEPT !.not_empty = 0] /\ recvmbox \in MailBox
  BY DEF Wake, Typed
<1>2. /\ recvmbox' \in MailBox
      /\ recvmbox'.first = recvmbox.first /\ recvmbox'.last = recvmbox.last
      /\ recvmbox'.msgs = recvmbox.msgs
  BY <1>1 DEF MailBox, Mbox
<1>3. Mail' = Mail
  BY <1>2 DEF Mail, MboxContents, Slot
<1>4. /\ UNCHANGED <<left, recvd, delivered, lastdata>> /\ pc = "wait" /\ pc' = "fetch"
      /\ UNCHANGED <<sent, xack, acks, rcv_nxt, rcv_wnd, ooseq, refused_data, flags, fpgaAck>>
  BY DEF Wake, stack, xvars, sess
<1>5. Typed' /\ Reading' /\ NoSleepOnMail'
  BY <1>2, <1>4 DEF Typed, Reading, NoSleepOnMail, Pcs
<1>6. Delivering'
  BY <1>3, <1>4 DEF Delivering, Open
<1>7. Sequenced' /\ Acked' /\ WindowReturned'
  BY <1>4 DEF Sequenced, Acked, WindowReturned, Open
<1> QED
  BY <1>5, <1>6, <1>7

\* The steps of a call of lwip_recv() that take nothing.
LEMMA StepCall ==
    ASSUME RxInv, RecvCall \/ Waitable \/ Counted \/ More \/ Timeout
    PROVE  RxInv'
<1> USE DEF RxInv
<1>1. /\ UNCHANGED <<delivered, lastdata, recvmbox>>
      /\ UNCHANGED <<sent, xack, acks, rcv_nxt, rcv_wnd, ooseq, refused_data, flags, fpgaAck>>
  BY DEF RecvCall, Waitable, Counted, More, Timeout, stack, xvars, sess
<1>2. /\ left' \in Nat /\ recvd' = recvd /\ pc' \in Pcs \ {"wait"} /\ Reading'
  BY RxAssumption DEF RecvCall, Waitable, Counted, More, Timeout, Typed, Pcs, Reading
<1>3. Typed' /\ NoSleepOnMail'
  BY <1>1, <1>2 DEF Typed, NoSleepOnMail
<1>4. Delivering'
  BY <1>1, HeldDelivering DEF Held
<1>5. Sequenced' /\ Acked' /\ WindowReturned'
  BY <1>1, <1>2 DEF Sequenced, Acked, WindowReturned, Open
<1> QED
  BY <1>2, <1>3, <1>4, <1>5

\* netconn_tcp_recvd(): what was read goes back to the window.
LEMMA StepRecvd ==
    ASSUME RxInv, Recvd
    PROVE  RxInv'
<1> USE DEF RxInv
<1>1. /\ UNCHANGED <<delivered, lastdata, recvmbox, left, rcv_nxt, refused_data, flags>>
      /\ UNCHANGED <<sent, xack, ooseq>>
      /\ pc' = "idle" /\ recvd' = 0 /\ rcv_wnd' = (IF Open THEN rcv_wnd + recvd ELSE rcv_wnd)
      /\ sendStackEthFrame(rcv_nxt) \/ NoAck
  BY DEF Recvd, stack, xvars
<1>2. Acked' /\ acks' \in Seq(Nat) /\ fpgaAck' \in Nat
  BY <1>1, AckGoesOut DEF Typed
<1>3. /\ rcv_wnd \in Int /\ recvd \in Nat /\ rcv_nxt \in Nat /\ Len(delivered) \in Nat
      /\ RcvWnd \in Nat
  BY RxAssumption DEF Typed, Msg
<1>4. Typed' /\ Reading' /\ NoSleepOnMail'
  BY <1>1, <1>2, <1>3 DEF Typed, Reading, NoSleepOnMail, Pcs
<1>5. Delivering'
  BY <1>1, HeldDelivering DEF Held
<1>6. Sequenced' /\ WindowReturned'
  BY <1>1, <1>3 DEF Sequenced, WindowReturned, Open
<1> QED
  BY <1>2, <1>4, <1>5, <1>6

----------------------------------------------------------------------------
(* The steps of the session, the exchange and the network.                   *)

\* A sequence of numbers below a bound, without its first.
LEMMA BelowTail ==
    ASSUME NEW q \in Seq(Nat), NEW top \in Nat, q # <<>>, \A i \in 1..Len(q) : q[i] <= top
    PROVE  /\ Head(q) \in Nat /\ Head(q) <= top
           /\ Tail(q) \in Seq(Nat) /\ \A i \in 1..Len(Tail(q)) : Tail(q)[i] <= top
<1>1. /\ Len(q) \in Nat /\ Len(q) > 0 /\ Head(q) = q[1] /\ Head(q) \in Nat
      /\ Tail(q) \in Seq(Nat) /\ Len(Tail(q)) = Len(q) - 1
      /\ \A i \in 1..Len(Tail(q)) : Tail(q)[i] = q[i + 1]
  BY HeadTailProperties
<1> QED
  BY <1>1

\* Steps that move acknowledgements and segments only.
Outside == UNCHANGED <<rcv_nxt, rcv_wnd, ooseq, refused_data, flags, recvmbox, pc, left,
                       lastdata, recvd, delivered>>

LEMMA StepOutside ==
    ASSUME RxInv, Outside, sent' \in Nat, sent <= sent', xack' \in Nat, Acked',
           acks' \in Seq(Nat), fpgaAck' \in Nat
    PROVE  RxInv'
<1> USE DEF RxInv
<1>1. Typed'
  BY DEF Typed, Outside
<1>2. Delivering'
  BY HeldDelivering DEF Held, Outside
<1>3. Sequenced'
  <2>1. \A p, q, x \in Nat : p <= q /\ x <= p + 1 => x <= q + 1
    OBVIOUS
  <2>2. \A p, q, x \in Nat : p <= q /\ x <= p => x <= q
    OBVIOUS
  <2>3. sent \in Nat /\ rcv_nxt' = rcv_nxt /\ ooseq' = ooseq /\ rcv_nxt \in Nat /\ ooseq \subseteq Nat
    BY DEF Outside, Typed
  <2>4. rcv_nxt <= sent + 1 /\ \A s \in ooseq : rcv_nxt < s /\ s <= sent
    BY DEF Sequenced
  <2>5. rcv_nxt' <= sent' + 1 /\ \A s \in ooseq' : rcv_nxt' < s /\ s <= sent'
    BY <2>1, <2>2, <2>3, <2>4, Zenon
  <2> QED
    BY <2>5 DEF Sequenced
<1>4. Reading' /\ WindowReturned' /\ NoSleepOnMail'
  BY DEF Reading, WindowReturned, NoSleepOnMail, Outside, Open
<1> QED
  BY <1>1, <1>2, <1>3, <1>4

LEMMA StepAcks ==
    ASSUME RxInv, AppSend \/ Dummy \/ Retransmit
    PROVE  RxInv'
<1> USE DEF RxInv
<1>1. Outside /\ sent' = sent /\ xack' = xack
  BY DEF AppSend, Dummy, Retransmit, rest, xvars, app, Outside
<1>2. rcv_nxt \in Nat /\ sent \in Nat /\ xack \in Nat /\ acks \in Seq(Nat) /\ fpgaAck \in Nat
  BY DEF Typed
<1>3. Acked' /\ acks' \in Seq(Nat) /\ fpgaAck' \in Nat
  <2>1. CASE AppSend
    <3>1. acks' = <<fpgaAck>> /\ fpgaAck' = fpgaAck
      BY <2>1 DEF AppSend, sess
    <3> QED
      BY <3>1, <1>1, <1>2 DEF Acked, Outside
  <2>2. CASE Dummy
    <3>1. sendStackEthFrame(rcv_nxt) /\ rcv_nxt' = rcv_nxt
      BY <2>2, <1>1 DEF Dummy, Outside
    <3> QED
      BY <3>1, <1>1, <1>2, AckGoesOut
  <2>3. CASE Retransmit
    <3>1. acks' = Append(acks, rcv_nxt) /\ fpgaAck' = fpgaAck /\ rcv_nxt' = rcv_nxt
      BY <2>3, <1>1 DEF Retransmit, sess, Outside
    <3> QED
      BY <3>1, <1>1, <1>2, BelowAppend DEF Acked
  <2> QED
    BY <2>1, <2>2, <2>3
<1> QED
  BY <1>1, <1>2, <1>3, StepOutside

LEMMA StepNet ==
    ASSUME RxInv, XSend \/ XRetransmit \/ XAck \/ Lose
    PROVE  RxInv'
<1> USE DEF RxInv
<1>1. Outside /\ fpgaAck' = fpgaAck
  BY DEF XSend, XRetransmit, XAck, Lose, host, pcb, app, sess, Outside
<1>2. rcv_nxt \in Nat /\ sent \in Nat /\ xack \in Nat /\ acks \in Seq(Nat) /\ fpgaAck \in Nat
  BY DEF Typed
<1>3. sent' \in Nat /\ sent <= sent'
  <2>1. sent' = sent \/ sent' = sent + 1
    BY Zenon DEF XSend, XRetransmit, XAck, Lose
  <2> QED
    BY <2>1, <1>2
<1>4. xack' \in Nat /\ Acked' /\ acks' \in Seq(Nat)
  <2>1. CASE acks' = acks /\ xack' = xack
    BY <2>1, <1>1, <1>2 DEF Acked, Outside
  <2>2. CASE /\ acks # <<>> /\ acks' = Tail(acks)
             /\ xack' \in {xack, Head(acks)}
    BY <2>2, <1>1, <1>2, BelowTail DEF Acked, Outside
  <2> QED
    BY <2>1, <2>2 DEF XSend, XRetransmit, XAck, Lose
<1> QED
  BY <1>1, <1>2, <1>3, <1>4, StepOutside

\* The invariant is inductive.
LEMMA RxStep == RxInv /\ [Next]_vars => RxInv'
<1> SUFFICES ASSUME RxInv, [Next]_vars PROVE RxInv'
  OBVIOUS
<1>1. CASE Input
  BY <1>1, StepInputRefused, StepInputOther, StepInputNext DEF Input
<1>2. CASE tcp_fasttmr
  BY <1>2, StepFasttmr
<1>3. CASE err_tcp \/ lwip_close
  BY <1>3, StepGone
<1>4. CASE RecvCall \/ Timeout
  BY <1>4, StepCall
<1>5. CASE Recv
  BY <1>5, StepCopy, StepCall, StepFetch, StepWake, StepRecvd DEF Recv
<1>6. CASE AppSend \/ Dummy \/ Retransmit
  BY <1>6, StepAcks
<1>7. CASE XSend \/ XRetransmit \/ XAck \/ Lose
  BY <1>7, StepNet
<1>8. CASE UNCHANGED vars
  <2>1. Outside /\ UNCHANGED <<sent, xack, acks, fpgaAck>>
    BY <1>8 DEF vars, xvars, pcb, app, sess, Outside
  <2>2. /\ Acked' /\ sent \in Nat /\ xack \in Nat /\ acks \in Seq(Nat) /\ fpgaAck \in Nat
    BY <2>1 DEF Acked, Outside, RxInv, Typed
  <2> QED
    BY <2>1, <2>2, StepOutside
<1> QED
  BY <1>1, <1>2, <1>3, <1>4, <1>5, <1>6, <1>7, <1>8 DEF Next

----------------------------------------------------------------------------
(* The theorems.                                                             *)

LEMMA RxInvariant == Spec => []RxInv
BY RxInit, RxStep, PTL DEF Spec

\* What is read, held, in the mailbox and refused is all lwIP took over, in order.
LEMMA NothingDroppedNow == RxInv => NothingDropped
<1> SUFFICES ASSUME RxInv, Open
             PROVE  delivered \o lastdata \o Flatten(Mail) \o refused_data
                      = [i \in 1..(rcv_nxt - 1) |-> i]
  BY DEF NothingDropped, Mail
<1> USE DEF RxInv
<1> DEFINE way(b) == [k \in 1..(b - 0) |-> 0 + k]
           dl == Len(delivered)
           ll == Len(lastdata)
<1>0. ASSUME NEW c \in Nat, NEW d \in Msg, IsRun(c, d)
      PROVE  way(c) \o d = way(c + Len(d))
  <2>1. 0 \in Nat /\ 0 <= c
    OBVIOUS
  <2>2. [k \in 1..(c - 0) |-> 0 + k] \o d = [k \in 1..(c + Len(d) - 0) |-> 0 + k]
    BY <1>0, <2>1, RunConcat, Zenon
  <2> QED
    BY <2>2
<1>1. /\ delivered \in Msg /\ lastdata \in Msg /\ refused_data \in Msg
      /\ dl \in Nat /\ ll \in Nat /\ rcv_nxt \in Nat /\ Len(refused_data) \in Nat
      /\ IsRun(0, delivered) /\ IsRun(dl, lastdata)
  BY DEF Typed, Delivering, Msg
<1>2. Mail \in Seq(Msg) /\ \A i \in 1..Len(Mail) : Mail[i] # ErrMsg
  BY SizeOK, ContentsSeq DEF Typed, MailBox, Mail, Delivering
<1>3. PICK b \in Nat : /\ Chain(Mail, dl + ll, b) /\ IsRun(b, refused_data)
                       /\ b + Len(refused_data) = rcv_nxt - 1
  BY DEF Delivering
<1>4. dl + ll \in Nat /\ dl + ll <= b
  BY <1>1, <1>2, <1>3, ChainForward
<1> HIDE DEF dl, ll
<1>5. delivered = way(dl)
  BY <1>1 DEF IsRun, Msg, dl
<1> HIDE DEF way
<1>6. way(dl) \o lastdata = way(dl + ll)
  BY <1>0, <1>1 DEF ll
<1> DEFINE f == [k \in 1..(b - (dl + ll)) |-> (dl + ll) + k]
<1>7. Flatten(Mail) = f
  BY <1>2, <1>3, FlattenChain
<1>8. f \in Msg /\ IsRun(dl + ll, f) /\ Len(f) = b - (dl + ll)
  BY <1>4 DEF IsRun, Msg
<1> HIDE DEF f
<1>9. way(dl + ll) \o f = way(b)
  <2>1. way(dl + ll) \o f = way((dl + ll) + Len(f))
    BY <1>0, <1>4, <1>8
  <2>2. (dl + ll) + Len(f) = b
    BY <1>4, <1>8
  <2> QED
    BY <2>1, <2>2
<1>10. way(b) \o refused_data = way(rcv_nxt - 1)
  <2>1. way(b) \o refused_data = way(b + Len(refused_data))
    BY <1>0, <1>1, <1>3
  <2> QED
    BY <2>1, <1>3
<1>11. way(rcv_nxt - 1) = [i \in 1..(rcv_nxt - 1) |-> i]
  BY <1>1 DEF way
<1> QED
  BY <1>5, <1>6, <1>7, <1>9, <1>10, <1>11

\* Data lwIP has acknowledged are read, held by the socket, in the mailbox or refused,
\* in order and each once, for every size of the mailbox (recv_tcp, tcp_process_refused_data).
THEOREM RxNothingDropped == Spec => []NothingDropped
BY RxInvariant, NothingDroppedNow, PTL

\* The receive window is what was announced less what the application has not returned
\* (tcp_recved, netconn_tcp_recvd).
THEOREM RxWindowReturned == Spec => []WindowReturned
<1>1. RxInv => WindowReturned
  BY DEF RxInv
<1> QED
  BY <1>1, RxInvariant, PTL

\* A reader does not sleep on a mailbox with mail (sys_mbox_trypost, sys_arch_mbox_fetch).
THEOREM RxNoSleepOnMail == Spec => []NoSleepOnMail
<1>1. RxInv => NoSleepOnMail
  BY DEF RxInv
<1> QED
  BY <1>1, RxInvariant, PTL

----------------------------------------------------------------------------
(* The receive path implements the stream.                                   *)

\* The steps that neither send, take over, acknowledge nor deliver.
Stutters == UNCHANGED <<sent, rcv_nxt, xack, delivered>>

\* tcp_receive() takes over the next segments and no more than were sent.
LEMMA TakeStep ==
    ASSUME RxInv, RxInv', NEW seg \in 1..sent, InputNext(seg)
    PROVE  Stream!Take
<1>1. sent \in Nat /\ rcv_nxt \in Nat /\ rcv_nxt > 0 /\ ooseq \subseteq 1..sent
  BY DEF RxInv, Typed, Sequenced
<1>2. PICK n \in Nat \ {0} : InSequence = [i \in 1..n |-> rcv_nxt + i - 1]
  BY <1>1, FirstGap
<1>3. Len(InSequence) = n
  BY <1>2
<1>4. /\ rcv_nxt' = rcv_nxt + Len(InSequence) /\ seg = rcv_nxt
      /\ UNCHANGED <<sent, xack, delivered>>
  BY DEF InputNext, app
<1>5. rcv_nxt' <= sent + 1
  BY <1>4 DEF RxInv, Sequenced
<1>6. rcv_nxt' = rcv_nxt + n
  BY <1>3, <1>4
<1>7. rcv_nxt - 1 < sent /\ rcv_nxt' - 1 \in (rcv_nxt - 1 + 1)..sent
  BY <1>1, <1>4, <1>5, <1>6
<1> QED
  BY <1>4, <1>7 DEF Stream!Take

\* lwip_recv_tcp() hands out the next segments.
LEMMA DeliverStep ==
    ASSUME RxInv, Copy
    PROVE  Stream!Deliver
<1> USE DEF RxInv
<1>1. PICK n \in 1..Len(lastdata) : delivered' = delivered \o SubSeq(lastdata, 1, n)
  BY DEF Copy
<1>2. /\ lastdata \in Msg /\ Len(lastdata) \in Nat /\ Len(delivered) \in Nat /\ n \in Nat
      /\ rcv_nxt \in Nat /\ lastdata \in Seq(Nat)
      /\ \A k \in 1..Len(lastdata) : lastdata[k] = Len(delivered) + k
  BY DEF Typed, Msg, Delivering, IsRun
<1>3. Len(delivered) + Len(lastdata) <= rcv_nxt - 1
  <2>1. Mail \in Seq(Msg)
    BY SizeOK, ContentsSeq DEF Typed, MailBox, Mail
  <2>2. PICK b \in Nat : Chain(Mail, Len(delivered) + Len(lastdata), b) /\ b <= rcv_nxt - 1
    BY DEF Delivering
  <2>3. Len(delivered) + Len(lastdata) <= b
    BY <2>1, <2>2, ChainForward
  <2> QED
    BY <2>2, <2>3, <1>2
<1>4. SubSeq(lastdata, 1, n) = [i \in 1..n |-> Len(delivered) + i]
  <2> DEFINE dl == Len(delivered)
  <2>1. dl \in Nat /\ \A k \in 1..Len(lastdata) : lastdata[k] = dl + k
    BY <1>2
  <2> HIDE DEF dl
  <2> DEFINE h == SubSeq(lastdata, 1, n)
             v == [i \in 1..n |-> dl + i]
  <2>2. h \in Seq(Nat) /\ Len(h) = n /\ \A k \in 1..n : h[k] = lastdata[k]
    BY <1>2
  <2>3. v \in Seq(Nat) /\ Len(v) = n /\ \A k \in 1..n : v[k] = dl + k
    BY <1>2, <2>1
  <2> HIDE DEF h, v
  <2>4. \A k \in 1..n : h[k] = v[k]
    <3>1. \A k \in 1..n : k \in 1..Len(lastdata)
      BY <1>2
    <3> QED
      BY <2>1, <2>2, <2>3, <3>1, Zenon
  <2>5. h = v
    BY <1>2, <2>2, <2>3, <2>4, SeqEqual
  <2> QED
    BY <2>5 DEF h, v, dl
<1>5. n \in 1..(rcv_nxt - 1 - Len(delivered))
  BY <1>2, <1>3
<1>6. UNCHANGED <<sent, rcv_nxt, xack>>
  BY DEF Copy, stack, xvars
<1>7. delivered' = delivered \o [i \in 1..n |-> Len(delivered) + i]
  BY <1>1, <1>4
<1> QED
  BY <1>5, <1>6, <1>7 DEF Stream!Deliver

\* The exchange learns of segments that were taken over.
LEMMA AcknowledgeStep ==
    ASSUME RxInv, XAck
    PROVE  Stream!Acknowledge \/ Stutters
<1>1. /\ rcv_nxt \in Nat /\ xack \in Nat /\ acks \in Seq(Nat) /\ acks # <<>>
      /\ \A i \in 1..Len(acks) : acks[i] <= rcv_nxt
      /\ xack' = (IF Head(acks) > xack THEN Head(acks) ELSE xack)
      /\ UNCHANGED <<sent, rcv_nxt, delivered>>
  BY DEF RxInv, Typed, Acked, XAck, host, pcb, app
<1>2. Head(acks) \in Nat /\ Head(acks) <= rcv_nxt
  BY <1>1, BelowTail
<1>3. CASE Head(acks) > xack
  <2>1. xack - 1 < rcv_nxt - 1 /\ xack' - 1 \in (xack - 1 + 1)..(rcv_nxt - 1)
    BY <1>1, <1>2, <1>3
  <2> QED
    BY <2>1, <1>1 DEF Stream!Acknowledge
<1>4. CASE ~(Head(acks) > xack)
  BY <1>1, <1>4 DEF Stutters
<1> QED
  BY <1>3, <1>4

LEMMA StreamStep == RxInv /\ RxInv' /\ [Next]_vars => [Stream!Next]_(Stream!vars)
<1> SUFFICES ASSUME RxInv, RxInv', [Next]_vars
             PROVE  Stream!Next \/ Stutters
  BY DEF Stutters, Stream!vars
<1>1. CASE \E seg \in 1..sent : InputNext(seg)
  BY <1>1, TakeStep DEF Stream!Next
<1>2. CASE \E seg \in 1..sent : InputRefused(seg) \/ InputOther(seg)
  BY <1>2 DEF InputRefused, InputOther, app, Stutters
<1>3. CASE tcp_fasttmr \/ err_tcp \/ lwip_close
  BY <1>3 DEF tcp_fasttmr, err_tcp, lwip_close, PcbGone, xvars, app, Stutters
<1>4. CASE Copy
  BY <1>4, DeliverStep DEF Stream!Next
<1>5. CASE RecvCall \/ Timeout \/ Waitable \/ Counted \/ Fetch \/ Wake \/ Tryfetch \/ More \/ Recvd
  BY <1>5 DEF RecvCall, Timeout, Waitable, Counted, Fetch, Wake, Tryfetch, More, Recvd, stack,
              xvars, Stutters
<1>6. CASE AppSend \/ Dummy \/ Retransmit
  BY <1>6 DEF AppSend, Dummy, Retransmit, rest, xvars, app, Stutters
<1>7. CASE XSend
  BY <1>7 DEF XSend, host, pcb, app, Stream!Send, Stream!Next
<1>8. CASE XAck
  BY <1>8, AcknowledgeStep DEF Stream!Next
<1>9. CASE XRetransmit \/ Lose
  BY <1>9 DEF XRetransmit, Lose, host, pcb, app, Stutters
<1>10. CASE UNCHANGED vars
  BY <1>10 DEF vars, xvars, pcb, app, Stutters
<1> QED
  BY <1>1, <1>2, <1>3, <1>4, <1>5, <1>6, <1>7, <1>8, <1>9, <1>10 DEF Next, Input, Recv

\* Segments are taken over in order, none is acknowledged before, and every one is
\* delivered once and in order: each step of the receive path, of the driver's ACKs and
\* of the reader is a step of ReliableStream or none.
THEOREM RxImplementsStream == Spec => ImplementsStream
<1>1. Init => Stream!Init
  BY DEF Init, Stream!Init
<1>2. RxInv /\ RxInv' /\ [Next]_vars => [Stream!Next]_(Stream!vars)
  BY StreamStep
<1>3. Spec => Stream!Init /\ [][Stream!Next]_(Stream!vars)
  BY <1>1, <1>2, RxInvariant, PTL DEF Spec
<1> QED
  BY <1>3 DEF ImplementsStream, Stream!Spec

============================================================================
