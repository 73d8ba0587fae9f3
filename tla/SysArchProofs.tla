--------------------------- MODULE SysArchProofs ---------------------------
(* The ring of a mailbox is a queue, for every size and every position of    *)
(* its indexes.                                                              *)
EXTENDS SysArch, ModArith, SequenceTheorems, TLAPS

\* A mailbox of n slots for messages of S: as many messages as the indexes say,
\* one slot stays free.
Mbox(n, S) ==
    {m \in [first : Nat, last : Nat, not_empty : {0, 1}, msgs : [1..n -> S]] :
       m.first <= m.last /\ m.last - m.first < n}

\* Slot() stays inside the ring.
LEMMA SlotInRing ==
    ASSUME NEW n \in Nat \ {0}, NEW S, NEW m \in Mbox(n, S), NEW i \in Nat
    PROVE  Slot(m, i) = (i % n) + 1 /\ Slot(m, i) \in 1..n
<1>1. Len(m.msgs) = n
  BY DEF Mbox
<1>2. i \in Int
  OBVIOUS
<1>3. i % n \in 0..(n - 1)
  BY <1>2, DivMod, Zenon
<1> QED
  BY <1>1, <1>3 DEF Slot

\* What is in a mailbox is a sequence of messages.
LEMMA ContentsSeq ==
    ASSUME NEW n \in Nat \ {0}, NEW S, NEW m \in Mbox(n, S)
    PROVE  /\ MboxContents(m) \in Seq(S)
           /\ Len(MboxContents(m)) = m.last - m.first
           /\ MboxEmpty(m) <=> MboxContents(m) = <<>>
           /\ MboxFull(m) <=> m.last - m.first >= n - 1
<1>1. m.last - m.first \in Nat /\ m.first \in Nat /\ m.last \in Nat
  BY DEF Mbox
<1>2. \A i \in 1..(m.last - m.first) : m.msgs[Slot(m, m.first + i - 1)] \in S
  <2> SUFFICES ASSUME NEW i \in 1..(m.last - m.first)
               PROVE  m.msgs[Slot(m, m.first + i - 1)] \in S
    OBVIOUS
  <2>1. m.first + i - 1 \in Nat
    BY <1>1
  <2>2. Slot(m, m.first + i - 1) \in 1..n
    BY <2>1, SlotInRing
  <2> QED
    BY <2>2 DEF Mbox
<1>3. MboxContents(m) \in Seq(S) /\ Len(MboxContents(m)) = m.last - m.first
  BY <1>1, <1>2 DEF MboxContents
<1>4. Len(m.msgs) = n
  BY DEF Mbox
<1> QED
  BY <1>1, <1>3, <1>4 DEF MboxEmpty, MboxFull

\* A new mailbox is empty.
LEMMA NewMbox ==
    ASSUME NEW n \in Nat \ {0}, NEW S, <<>> \in S
    PROVE  sys_mbox_new(n) \in Mbox(n, S) /\ MboxContents(sys_mbox_new(n)) = <<>>
BY DEF sys_mbox_new, Mbox, MboxContents

\* sys_mbox_trypost() adds its message at the end, overwrites none, and signals when
\* there was none.
LEMMA PostAppends ==
    ASSUME NEW n \in Nat \ {0}, NEW S, NEW m \in Mbox(n, S), NEW msg \in S,
           ~MboxFull(m)
    PROVE  LET p == sys_mbox_trypost(m, msg)
           IN  /\ p \in Mbox(n, S)
               /\ MboxContents(p) = Append(MboxContents(m), msg)
               /\ ~MboxEmpty(p)
               /\ p.not_empty = IF MboxEmpty(m) THEN 1 ELSE m.not_empty
<1> DEFINE p == sys_mbox_trypost(m, msg)
           at == Slot(m, m.last)
<1>1. /\ m.first \in Nat /\ m.last \in Nat /\ m.first <= m.last /\ m.not_empty \in {0, 1}
      /\ m.msgs \in [1..n -> S]
  BY DEF Mbox
<1>2. m.last - m.first < n - 1
  BY <1>1, ContentsSeq
<1>3. at = (m.last % n) + 1 /\ at \in 1..n
  BY <1>1, SlotInRing
<1>4. p = [first |-> m.first, last |-> m.last + 1,
           not_empty |-> IF MboxEmpty(m) THEN sys_sem_signal(m.not_empty) ELSE m.not_empty,
           msgs |-> [m.msgs EXCEPT ![at] = msg]]
  <2>1. m = [first |-> m.first, last |-> m.last, not_empty |-> m.not_empty, msgs |-> m.msgs]
    BY DEF Mbox
  <2>2. p = [m EXCEPT !.msgs = [m.msgs EXCEPT ![at] = msg],
                      !.last = m.last + 1,
                      !.not_empty = IF MboxEmpty(m) THEN sys_sem_signal(m.not_empty)
                                                    ELSE m.not_empty]
    BY <2>1 DEF sys_mbox_trypost
  <2> HIDE DEF p, at
  <2> QED
    BY <2>1, <2>2
<1>5. sys_sem_signal(m.not_empty) = 1
  BY <1>1 DEF sys_sem_signal
<1> DEFINE ne == IF MboxEmpty(m) THEN 1 ELSE m.not_empty
           w  == [m.msgs EXCEPT ![at] = msg]
<1>a. ne \in {0, 1} /\ w \in [1..n -> S] /\ m.last + 1 \in Nat /\ m.first <= m.last + 1
      /\ m.last + 1 - m.first < n /\ m.first # m.last + 1
  BY <1>1, <1>2, <1>3
<1>b. p = [first |-> m.first, last |-> m.last + 1, not_empty |-> ne, msgs |-> w]
  BY <1>4, <1>5
<1> HIDE DEF at, p, ne, w
<1>6. p \in Mbox(n, S)
  BY <1>1, <1>a, <1>b DEF Mbox
<1>7. MboxContents(p) = Append(MboxContents(m), msg)
  <2> DEFINE k == m.last - m.first
  <2>1. k \in Nat /\ p.last - p.first = k + 1 /\ p.first = m.first /\ p.msgs = [m.msgs EXCEPT ![at] = msg]
    BY <1>1, <1>b DEF w
  <2>2. \A i \in 1..k : p.msgs[Slot(p, m.first + i - 1)] = m.msgs[Slot(m, m.first + i - 1)]
    <3> SUFFICES ASSUME NEW i \in 1..k
                 PROVE  p.msgs[Slot(p, m.first + i - 1)] = m.msgs[Slot(m, m.first + i - 1)]
      OBVIOUS
    <3> DEFINE j == m.first + i - 1
    <3>1. j \in Nat /\ j < m.last /\ m.last - j < n
      BY <1>1, <1>2
    <3>2. Slot(p, j) = (j % n) + 1 /\ Slot(m, j) = (j % n) + 1 /\ Slot(m, j) \in 1..n
      BY <3>1, <1>6, SlotInRing
    <3>3. j % n # m.last % n
      BY <3>1, <1>1, ModApart
    <3>4. j % n \in Int /\ m.last % n \in Int
      <4>1. j \in Int /\ m.last \in Int
        BY <3>1, <1>1
      <4>2. j % n \in 0..(n - 1) /\ m.last % n \in 0..(n - 1)
        BY <4>1, DivMod, Zenon
      <4> QED
        BY <4>2
    <3>5. Slot(m, j) # at
      BY <3>2, <3>3, <3>4, <1>3
    <3> QED
      BY <3>2, <3>5, <2>1, <1>1
  <2>3. p.msgs[Slot(p, m.first + (k + 1) - 1)] = msg
    <3>1. m.first + (k + 1) - 1 = m.last
      BY <1>1
    <3>2. Slot(p, m.last) = at
      BY <1>1, <1>3, <1>6, SlotInRing
    <3> QED
      BY <3>1, <3>2, <2>1, <1>1, <1>3
  <2>4. MboxContents(p) = [i \in 1..(k + 1) |-> p.msgs[Slot(p, m.first + i - 1)]]
    BY <2>1 DEF MboxContents
  <2>5. MboxContents(m) = [i \in 1..k |-> m.msgs[Slot(m, m.first + i - 1)]]
    BY DEF MboxContents
  <2> HIDE DEF p, k
  <2>6. \A i \in 1..(k + 1) : p.msgs[Slot(p, m.first + i - 1)]
                                = IF i = k + 1 THEN msg ELSE m.msgs[Slot(m, m.first + i - 1)]
    BY <2>1, <2>2, <2>3
  <2>7. MboxContents(m) \in Seq(S) /\ Len(MboxContents(m)) = k
    BY ContentsSeq DEF k
  <2> QED
    BY <2>1, <2>4, <2>5, <2>6, <2>7
<1>8. ~MboxEmpty(p) /\ p.not_empty = ne
  BY <1>1, <1>a, <1>b DEF MboxEmpty
<1> QED
  BY <1>6, <1>7, <1>8 DEF p, ne

\* sys_arch_mbox_fetch() and tryfetch() take the oldest message.
LEMMA FetchTakesHead ==
    ASSUME NEW n \in Nat \ {0}, NEW S, NEW m \in Mbox(n, S), ~MboxEmpty(m)
    PROVE  /\ MboxFetch(m) \in Mbox(n, S)
           /\ MboxContents(m) # <<>>
           /\ MboxHead(m) = Head(MboxContents(m)) /\ MboxHead(m) \in S
           /\ MboxContents(MboxFetch(m)) = Tail(MboxContents(m))
           /\ MboxFetch(m).not_empty = m.not_empty
<1> DEFINE p == MboxFetch(m)
           k == m.last - m.first
<1>1. /\ m.first \in Nat /\ m.last \in Nat /\ m.first <= m.last /\ m.first # m.last
      /\ m.not_empty \in {0, 1} /\ m.msgs \in [1..n -> S] /\ m.last - m.first < n
  BY DEF Mbox, MboxEmpty
<1>2. p = [first |-> m.first + 1, last |-> m.last, not_empty |-> m.not_empty, msgs |-> m.msgs]
  BY <1>1 DEF MboxFetch, Mbox
<1>3. p \in Mbox(n, S)
  BY <1>1, <1>2 DEF Mbox
<1>4. MboxContents(m) \in Seq(S) /\ Len(MboxContents(m)) = k /\ MboxContents(m) # <<>>
  BY ContentsSeq
<1>5. k \in Nat /\ k > 0
  BY <1>1
<1>6. MboxContents(m) = [i \in 1..k |-> m.msgs[Slot(m, m.first + i - 1)]]
  BY DEF MboxContents
<1>7. MboxHead(m) = Head(MboxContents(m))
  <2>1. m.first + 1 - 1 = m.first /\ 1 \in 1..k
    BY <1>1
  <2> QED
    BY <1>4, <1>5, <1>6, <2>1 DEF MboxHead
<1>8. MboxContents(p) = Tail(MboxContents(m))
  <2>1. p.last - p.first = k - 1 /\ p.first = m.first + 1 /\ p.msgs = m.msgs
    BY <1>1, <1>2
  <2>2. \A i \in 1..(k - 1) : p.msgs[Slot(p, p.first + i - 1)] = m.msgs[Slot(m, m.first + (i + 1) - 1)]
    <3> SUFFICES ASSUME NEW i \in 1..(k - 1)
                 PROVE  p.msgs[Slot(p, p.first + i - 1)] = m.msgs[Slot(m, m.first + (i + 1) - 1)]
      OBVIOUS
    <3>1. p.first + i - 1 = m.first + i /\ m.first + (i + 1) - 1 = m.first + i /\ m.first + i \in Nat
      BY <1>1, <2>1, <1>5
    <3> QED
      BY <3>1, <2>1, <1>3, SlotInRing
  <2>3. MboxContents(p) = [i \in 1..(k - 1) |-> p.msgs[Slot(p, p.first + i - 1)]]
    BY <2>1 DEF MboxContents
  <2> HIDE DEF p, k
  <2>4. \A i \in 1..(k - 1) : MboxContents(m)[i + 1] = m.msgs[Slot(m, m.first + (i + 1) - 1)]
    BY <1>5, <1>6
  <2>5. \A i \in 1..(k - 1) : MboxContents(p)[i] = MboxContents(m)[i + 1]
    BY <2>2, <2>3, <2>4
  <2>6. MboxContents(p) \in Seq(S) /\ Len(MboxContents(p)) = k - 1
    BY <1>3, <2>1, ContentsSeq
  <2> DEFINE c == MboxContents(m)
             d == MboxContents(p)
  <2> HIDE DEF c, d
  <2>7. /\ c \in Seq(S) /\ d \in Seq(S) /\ c # <<>> /\ Len(d) = Len(c) - 1
        /\ \A i \in 1..(Len(c) - 1) : d[i] = c[i + 1]
    BY <1>4, <2>5, <2>6 DEF c, d
  <2>8. /\ Tail(c) \in Seq(S) /\ Len(Tail(c)) = Len(c) - 1
        /\ \A i \in 1..Len(Tail(c)) : Tail(c)[i] = c[i + 1]
    BY <2>7, HeadTailProperties
  <2> QED
    BY <2>7, <2>8, SeqEqual DEF c, d
<1> QED
  BY <1>2, <1>3, <1>4, <1>5, <1>7, <1>8
============================================================================
