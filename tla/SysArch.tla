------------------------------ MODULE SysArch ------------------------------
(* Semaphores and mailboxes of the lwIP port (sys_arch.cpp) as values and    *)
(* operators on them.  Every operation runs under a mutex of its own, so one *)
(* operation is one step of the modules that use it; what a thread does      *)
(* between two operations, such as the wait in sys_arch_mbox_fetch(), is     *)
(* theirs.  sys_mbox_post(), which waits for room, is called once, on the     *)
(* idle mailbox of tcpip_thread when the device closes, and is left out:     *)
(* lwIP posts to the mailboxes of sockets with sys_mbox_trypost().           *)
EXTENDS Integers, Sequences

\* sys_sem_signal(): the count never exceeds one.
sys_sem_signal(c) == IF c + 1 > 1 THEN 1 ELSE c + 1

\* sys_mbox_new(): indexes that only grow, reduced where the ring is accessed.
sys_mbox_new(size) ==
    [first |-> 0, last |-> 0, not_empty |-> 0, msgs |-> [i \in 1..size |-> <<>>]]

MboxEmpty(m) == m.first = m.last
MboxFull(m)  == m.last + 1 >= m.first + Len(m.msgs)
Slot(m, i)   == (i % Len(m.msgs)) + 1

\* What is in the mailbox, oldest first.
MboxContents(m) == [i \in 1..(m.last - m.first) |-> m.msgs[Slot(m, m.first + i - 1)]]

\* Faulty: nobody is woken.
TrypostNoSignal(m, msg) ==
    [m EXCEPT !.msgs[Slot(m, m.last)] = msg, !.last = @ + 1]

\* sys_mbox_trypost() on a mailbox that is not full: not_empty is signalled only when
\* the mailbox was empty.
sys_mbox_trypost(m, msg) ==
    [m EXCEPT !.msgs[Slot(m, m.last)] = msg,
              !.last = @ + 1,
              !.not_empty = IF MboxEmpty(m) THEN sys_sem_signal(@) ELSE @]

\* The message sys_arch_mbox_fetch() and sys_arch_mbox_tryfetch() return, and the
\* mailbox they leave.
MboxHead(m)  == m.msgs[Slot(m, m.first)]
MboxFetch(m) == [m EXCEPT !.first = @ + 1]
============================================================================
