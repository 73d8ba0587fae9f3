# A TLA+ model of the Ekaline BCS library

The library drives an FPGA card that sends orders on TCP sessions faster than
software can. The FPGA puts a packet on the wire on its own, whether the
application or one of the card's trading strategies asked for it, and the
library has to keep an ordinary TCP stack (lwIP, vendored) in the belief that it
sent the packet itself, so that lwIP can retransmit it, and to keep the
application informed of what the card has fired. Four threads, the application's
threads, lwIP and the card work on shared counters without a common lock; that is
what this project models and checks with TLC, and whose safety properties it proves
with TLAPS.

Paths below are relative to the repository root; most of the code is in `src/`.

## 1. Inventory

| component | state | operations | talks to |
|---|---|---|---|
| TCP session (`EkaTcpSess`, `EkaTcp`) | byte counters of what was sent, mirrored, transmitted by lwIP and acknowledged; the exchange's window; handshake state | `connect`, `sendPayload`/`preSendCheck`, `lwipDummyWrite`, `sendStackEthFrame`, `updateRx`, `insertEmptyRemoteAck` | lwIP (socket calls down, `ekaLwipSend` up), FPGA (EPM actions, sequence number tables) |
| ServThread (`EkaServThread`) | position in the `epmFeedback` DMA channel | takes a packet the FPGA has sent, writes it into lwIP, pushes it to the report queue | sessions, `EkaUserReportQ` |
| TcpRxThread (`EkaTcpRxThread`) | position in the `lwipRx` channel | takes a received packet, holds it back while its ACK is early, hands it to lwIP | sessions, lwIP |
| Fire reports (`EkaFireReportThread`, `EkaUserReportQ`) | ring of packets with pointers, counters and a cached length; position in the `epmReport` channel | matches a report with its packet, calls the user back | ServThread through the ring |
| Device (`EkaDev`, `ekaBcs`) | `*Active`/`*Terminated` flags, `epmEnabled`, the objects | `openDev`, lazy start of the threads, `closeDev` | everything |
| Session table (`EkaCore`, `Exc`) | slots of sessions per lane | `excSocket`, `tcpConnect`, `excClose`, `closeSock`, lookups by the threads | sessions |
| EPM (`EkaEpm`, `EkaEpmAction`, `EkaWc`) | regions, heap, one packet buffer per action, the write-combining window | `addAction`, `fastSend`, `send` | FPGA |
| EFC and strategies (`EkaEfc`, `EkaMoexStrategy`) | pair table, armed state, the run loop | `efcInit`, `initMoexStrategy`, `runMoexStrategy`, arm/disarm | FPGA, fire reports |
| IGMP (`EkaIgmp`) | table of multicast groups and its length | `mcJoin`, the periodic join, leave | EPM, strategies |
| lwIP port (`sys_arch`) | semaphores, mailboxes | signal and wait, post and fetch | lwIP, every thread that calls it |
| lwIP's socket API (`LWIP/src/api`) | per connection the call in progress, the mailbox of received data, event counters for poll | connect, write, recv, poll, close; callbacks of the stack | sessions, lwIP's core |

What is hard here:

* *Three-way waiting.* TcpRxThread spins until lwIP has transmitted what an ACK
  covers; lwIP transmits only what ServThread has written and what the windows
  allow; ServThread waits for room in lwIP that only ACKs make.
* *Checks on counters others are changing.* `preSendCheck` reads five counters
  one after the other; other threads pass the same check meanwhile, ServThread
  moves the counters on, and hardware fires are not checked at all. `updateRx`
  tests a counter of lwIP's and reads it again before it uses it.
* *Two numbers for one thing.* 32-bit wire numbers and 64-bit counters, ring
  pointers and counters, the length of the queue and its cached copy.
* *Plain flags as handshake.* Threads announce their start and their end with two
  stores whose order differs from thread to thread.
* *A table without an owner.* Sessions are opened and deleted under a lock, or not,
  depending on the API, while ServThread and the other callers walk the same slots.
* *Sleeping and waking.* Calls into lwIP sleep on semaphores that count to one and
  on mailboxes that signal only their first message; readers, pollers, a close from
  another thread and the stack's callbacks meet there.
* *Acknowledging through the card.* lwIP's own ACKs are thrown away; the card sends
  each number once, and what was acknowledged must not get lost on the way to the
  application.
* *Failure.* A lost packet, a partial or failed `lwip_write`, a reset, a stop of
  the device at any point.

What makes each component correct: the mirror in lwIP equals the wire byte for
byte; lwIP believes no ACK the exchange has not sent and misses none it has;
every byte is acknowledged in the end; the window and the in-flight limit are
exceeded by no more than the margin foresees; each fire is reported once, in
order, with its own packet; nothing is deleted under a running thread; every wait
ends; a thread keeps the session and the slot it was given, and every packet the
card gets is whole; received data reach the application once and in order and
nothing is acknowledged before lwIP has it; a thread that sleeps in lwIP is woken
by its own event, and only by it. The hazards behind these, each at its line, are in `PROJECT.json`.

## 2. Modules

| module | contents |
|---|---|
| `TcpSess` | the transmit and ACK path: application threads, ServThread, TcpRxThread, with lwIP, FPGA, exchange and network as environment |
| `FireReport` | the report queue and its two threads |
| `DevLifecycle` | the threads from `openDev` to `closeDev` |
| `SessTable` | slots, actions and packet buffers of a lane's sessions, the write-combining window, and ServThread's lookup |
| `SysArch` | semaphores and mailboxes of the lwIP port, as operators on values |
| `RxPath` | received data: lwIP's reassembly, the mailbox, `recv`, and the ACK through the FPGA |
| `ReliableStream` | abstract specification of what `RxPath` promises |
| `Netconn` | `connect`, `write`, `close` and `poll` asleep on the semaphore of the port |
| `MC...` | instances for TLC |
| `ModArith` | lemmas on `%` and on least elements for the proofs |
| `SysArchProofs` | lemmas on semaphores and mailboxes |
| `TcpSessProofs`, `FireReportProofs`, `DevLifecycleProofs`, `SessTableProofs`, `RxPathProofs`, `NetconnProofs` | the theorems on the module of that name (section 5) |

Each component module carries, directly above some definitions, a faulty variant
of it (`ThrottledNoMargin` above `Throttled`). They are not part of any
specification; they document which mistake each property excludes.

### TcpSess

Per session the variables have the names of the members of `EkaTcpSess`
(`realFastPathBytes`, `realTxDriverBytes`, ...); `txLwipBp` is the set of sessions
where the flag is set. `app`, `serv` and `rx` hold the position of a thread in its
function and its local variables. `epmFeedback` and `lwipRx` are the DMA channels.
`wire` is the FPGA's sequence number, `peerAck` and `peerEdge` what the exchange
has acknowledged and the right edge of the window it has announced; the `lwip...`
variables are the fields of lwIP's control block that matter. Sequence numbers in
the model are the true 64-bit ones; where the code holds 32 bits the model takes
`% SeqMod` (`tcpRemoteAckNum`, `tcpLocalSeqNum`, the argument of `TCP_SEQ_LT`,
the input of `seq32to64`).

| action | code |
|---|---|
| `SendSyn`, `ConnectReturn` | `connect()` and the SYN branch of `sendStackEthFrame()` |
| `PreSendLoadFastPath`, `PreSendLoadAck`, `PreSendCheck`, `PreSendLimit`, `PreSendCount`, `FastSend` | `preSendCheck()` load by load, `fastSend()` |
| `ServTake`, `ServWrite`, `ServWritten`, `ServWriteError`, `ServExit` | `ekaServThread()` with `lwipDummyWrite()` |
| `LwipOutput`, `LwipRetransmit`, `LwipSendFin` | `ekaLwipSend()` and the branches of `sendStackEthFrame()` |
| `RxStoreWnd`, `RxStoreAck`, `RxForward` | `ekaProcessTcpRx()` with the stores of `updateRx()` |
| `RxTestAhead`, `RxLoadTx`, `RxInsertEmptyAck` | the loop of `updateRx()`: its test, its loads, `insertEmptyRemoteAck()` |
| `Shutdown`, `Stop` | `excShutdown()`; the first stores of `~EkaDev()` |
| `HwFire`, `Peer...`, `Lose`, `StaleAck` | FPGA, exchange, network (external) |

Choices of granularity. The calls of lwIP are one step each because lwIP is built
with its core lock also on the input path (`lwipopts.h`: `LWIP_TCPIP_CORE_LOCKING`
and `..._INPUT`). `PreSendCheck` loads the window, the back-pressure flag and
`globalFastPathBytes` in one step; no two of them are compared with each other, and
what bounds the window does not depend on the limit's term, nor the other way round:
the proofs of `WindowRespected` and `InFlightBounded` take that the other term may
come out either way. `globalDummyBytes`, the other term of the difference, is loaded
in `PreSendLimit`, because ServThread raises both counters for every fire in
between. The two may be loaded in either order; in the other one the difference is
never smaller than what is in flight. In the loop of `updateRx()` the test is one
step, the load behind it another, and the insertion a third, with lwIP free to
transmit between them: it does so without the thread that is in the loop. The
comparison with `lastInsertedEmptyAck` and the store into it load
`realTxDriverBytes` twice in one step: the counter only grows, so a second value
would be one that the comparison could have had as well. The second `fetch_add` of
`preSendCheck` and the send itself are one step. The three counter updates at the
end of `lwipDummyWrite` and `epmFeedback->next()` are one step. The report part of
ServThread is in `FireReport`, the exchange's payload in `RxPath`. ARP, TCP options
and the window scale are left out.

`nonBlocking` is the set of sessions the application has put in `O_NONBLOCK` mode,
any member of `Modes`; the others are blocking, which is the default. In blocking
mode `lwip_write()` sleeps until all is taken and comes back to the loop of
`lwipDummyWrite()`, and to its test of `exc_active`, only then.

Two variables are history: no guard tests them, the properties read them. `slip` is
the number of bytes of fires that ServThread finished between a thread's loads of
the two global counters; it is zero again as soon as the limit is kept. `overtaken`
holds a session from the moment lwIP transmits past the ACK that TcpRxThread holds,
after the test of the loop and before its load, until lwIP is given an ACK of the
exchange that has caught up with what it was told.

### FireReport

`qElem`, `rdPtr`, `wrPtr`, `rdCnt`, `wrCnt`, `qLen` are the members of
`EkaUserReportQ`; `mtx` its mutex. The unlocked `isEmpty()` is three steps (load
both counters, store `qLen`, load `qLen`), `push()` is cut where another thread
can see a difference (`PushLock`, `PushCheck`, `PushCount`, `PushUnlock`), `pop()`
is one step. A packet is its index. `on_error()` ends the process: `err` is then
set and no action is enabled.

### DevLifecycle

`active` and `terminated` hold the flags of the five threads, `th` where each is
(`start`: spawned, `mid`: between its two first stores, `loop`, `exited`), `main`
where the application is; `late` is history and says that `closeDev` met the
FireReport thread in `mid`. One life of a device; every legal order of calls; a
thread may take its first step arbitrarily late. `ServBreak` is the end of
ServThread after a write error. The loops are in the other modules but for the
IGMP thread's: `igmpEntry` and `numIgmpEntries` are the table and its length,
`walk` the thread's index, `member` what the network believes. `initMoexStrategy`
takes any list of groups (too long a list is an `on_error`), `McJoinExisting`,
`McJoinStore` and `McJoinCount` are `mcJoin()` group by group, cut between the
store of the entry and the count because the IGMP thread holds no mutex (a call
stands between the two stores, so neither compiler nor x86 swaps them).
`IgmpJoin`, `IgmpSleep`, `IgmpStop`, `IgmpLeave`, `IgmpExit` are the thread;
`Forget` is the network dropping a membership.

### SessTable

One lane. A session is a number in the order of opening and stands for the
object, its socket and its 4-tuple. `tcpSess` is the table, `a_` says whose EPM
actions occupy a slot's place, `live` which objects exist, `heap` and `ackHeap`
are the buffers of the actions, `busy`, `wcDesc` and `txBuf` belong to `EkaWc`,
`fpgaAck`, `lastBuf` and `torn` to the card. `app` holds where a thread is. Using
a deleted object, and `on_error()`, end the process: `fatal` names the reason.

| action | code |
|---|---|
| `Open`, `InitTcp`, `InitControl`, `SocketLock`, `GetFreeTcpSess`, `AddTcpSess`, `RereadSock` | `excSocket()`, first part of `tcpConnect()`; `initTcp()`, `addTcpSess()` |
| `Load`, `Follow`, `NotFound` | `findTcpSess(sock)`: load the pointer of a slot, follow it |
| `ExcConnect`, `Connect`, `ConnectNoArp`, `SendSyn`, `Connected`, `Refused` | `excConnect()`, second part of `tcpConnect()`, `bind()`, `connect()`, `preloadNwHeaders()` |
| `TcpSend`, `ExcSend`, `SetPktHdr`, `SetPktPayload`, `WcDesc`, `WcPayload` | `tcpSend()`, `excSend()`, `setPktPayloadAndSendWC()`, `EkaWc` |
| `ExcClose`, `CloseSock`, `ExcSocketClose`, `NullSlot`, `LwipClose`, `DeleteTcpSess`, `NullSlotAfter` | the three close calls and the destructor |
| `ServTake`, `ServLoad`, `ServFollow`, `ServWrite` | `sendDummyFastPathPkt()` and `findTcpSess()` by 4-tuple |

Choices. The search for a free slot is one step, the constructor with the store
into the slot and the unlock another; the two actions a session owns come and go
together and share one entry of `a_`. A thread uses only the session it opened.
Of the handshake only the SYN goes through the window, of the close only the FIN;
retransmissions do not occur. TcpRxThread's lookups are not modelled, and
`preSendCheck` is in `TcpSess`. The sections that nothing protects are named by
`InTable` and `InInit`; `raced` records that two threads have been in one at once.
The properties that hold only without such an overlap say so with `~raced`, and
`SequentialIsSafe` says that nothing else trips the assertions. After an overlap
no new call but a close begins (a bound, in the guards).

### SysArch and RxPath

`SysArch` gives each operation of a semaphore or mailbox as an operator; each runs
under a mutex of its own, so it is one step of the module that uses it.

`RxPath` is one established session seen from the exchange. `net` and `acks` are
on the wire; `rcv_nxt`, `rcv_wnd`, `ooseq`, `refused_data`, `ackFlag`
(`TF_ACK_DELAY`) are fields of lwIP's pcb; `recvmbox`, `flags` and `waiting`
(`mbox_threads_waiting`) of the netconn; `pc`, `left`, `lastdata`, `recvd` locals
of `lwip_recv_tcp()`; `tcpRemoteSeqNum` is the session's, `fpgaAck` the number in
the card. Segments have length one.

| action | code |
|---|---|
| `InputRefused`, `InputOther`, `InputNext` | `tcp_input()`, `tcp_process_refused_data()`, `tcp_receive()`, `recv_tcp()` |
| `tcp_fasttmr` | delayed ACK and refused data |
| `RecvCall`, `Copy`, `Waitable`, `Counted`, `Fetch`, `Wake`, `Timeout`, `Tryfetch`, `More`, `Recvd` | `EkaTcpSess::recv()`, `lwip_recv_tcp()`, `netconn_recv_data()`, `sys_arch_mbox_fetch()`, `tcp_recved()` |
| `err_tcp`, `lwip_close` | a reset; a close by another thread (`netconn_mark_mbox_invalid()`) |
| `AppSend`, `Dummy`, `Retransmit` | the packets that carry an ACK number out |
| `XSend`, `XRetransmit`, `XAck`, `Lose` | exchange and network (external) |

Whatever lwIP sends goes through `sendStackEthFrame(ackno)`: an empty ACK if the
number is new, nothing otherwise. The window the card advertises is the one of the
handshake. Where `rcv_ann_wnd` and the update threshold decide whether an ACK is
sent, both outcomes are allowed. A FIN of the exchange is not modelled.

*Refinement.* `Stream` is `ReliableStream` with `taken <- rcv_nxt - 1` and
`acked <- xack - 1`; `sent` and `delivered` are the same. Only `InputNext` takes,
only `XAck` acknowledges, only `Copy` delivers, and all else stutters.

### Netconn

Sockets of both ends of the library: the application connects, polls and closes,
ServThread writes. `conn` holds state, `current_msg` and send buffer of a netconn,
`sock` the event counters, `sem` the semaphores, `scb` and `signalled` the list of
polls. A step is what runs under the core lock or under `SYS_ARCH_PROTECT`; a call
that waits is a step to sleep (`Connect`, `Write`, `Close`), `Wake`, and `Resume`
with the assertion the code makes there. `lwip_poll()` is cut into its scans,
socket by socket (`PollScan`), and `Link`, `PollWake`, `Unlink`, `Drain`. The
callbacks `do_connected`, `err_tcp`, `sent_tcp`, `close_internal`, `recv_tcp` are
the environment's answers. `Connect` runs under `lwipConnectMtx`. A close waits
only when lwIP has no memory for the FIN, which is modelled when no other thread
is in a call.

The constant `Sharing` says how careful the application is. With `{}` one thread
at a time is in a call that may wait; a close may come from another, also under a blocked
write, but not under a connect. With `"connclose"` it may, with
`"sem"` any number of threads wait; that is what the library does whenever the application
connects a second session while ServThread mirrors the first.

The modules share threads and not state: ServThread's write into lwIP
(`TcpSess`) comes after its lookup (`SessTable`) and before its push to the queue
(`FireReport`); a write error appears in `TcpSess`, `FireReport` and
`DevLifecycle`.

## 3. Runs

| run | instance | shows |
|---|---|---|
| `window` | 1 session (blocking), 2 threads, 1 byte packets, margin 1, windows 2 and 3, in-flight limit 0, lwIP buffer 1, one fire | `WindowRespected`: the wire passes the announced window by at most one packet for each further thread, plus what the card fired, less the margin. `InFlightBounded`: the device-wide limit holds up to one packet per thread, one fire, and the fires finished between a thread's two loads. |
| `ack` | 1 session, packets of 1 and 2 bytes, sequence numbers wrap at 8, lwIP buffer 3 and congestion window 2 smaller than what is sent, one fire, one loss | `MirrorExact`, `MirrorBehindWire`, `NoAckLost`, `AckReconstructed`, `Reconciled`; `AckIsTrue` in the sessions that are not `overtaken` |
| `live` | 2 sessions (blocking), a packet of 1 to 3 bytes on each, lwIP buffer = window = 3, congestion window 2, one loss, fair | `EveryByteAcked`, unless a lost packet is `Stranded` |
| `stop` | 1 session, blocking or not, with a stale ACK, shutdown, reset, report_only fire, stop, fair | the mirror holds in all of it; `StopReleasesThreads`, but for a thread `AsleepInWrite` |
| `fin` | an idle session is shut down | violates `RxThreadProgress` |
| `fire_report` | ring of 3 slots filled to 2, 5 fires, an exception report, an application send, write errors, stop, fair | `NoFatal`, `InOrder`, `PointersFollowCounters`, `EveryFireReported`, `StopEnds` |
| `lifecycle` | every order of calls, lists of up to 2 groups, fair | `ThreadsGone`, `StartReturns`, `CloseReturns`; `EntryThere`, `GroupsLeft`, `GroupsAnnounced` of the IGMP table |
| `lifecycle_close` | the same with one group | violates `CloseAlwaysReturns` |
| `sess_table` | 2 threads, 2 slots, both APIs, 3 opens, 1 payload | `SequentialIsSafe`, `OwnSessionStays`, `SlotsAccounted`, `WholePackets`, `BuffersAlternate`, `AckHeadersFresh`, `FeedbackToSender` |
| `recv` | mailbox with 1 usable slot, window 2, 3 segments, one fault, reads of 1 and 3, timeout, reset, close, fair | `NothingDropped`, `WindowReturned`, `NoSleepOnMail`, `EverySegmentServed`, `RecvReturns`, and the refinement `ImplementsStream` |
| `netconn` | 2 threads, 2 sockets, send buffer 2, one message, `Sharing = {}`, fair | no socket is closed under its connect: `NoAbort`, `NoStaleSignal`, `PollNotMissed`, `CallsReturn` |
| `netconn_shared` | the same with `Sharing = {"sem"}` | violates `NoAbort` |

*Bounds.* Every bound is a constant named in the cfg (`MaxBytes`, `MaxFired`,
`MaxFaults`, `MaxPending`, `MaxFires`, `MaxOthers`, `MaxOpens`, `MaxSends`,
`MaxSegs`, `MaxRcv`, `MaxUdpMcGroups`). They let each interesting
case happen: the sequence space wraps within the first bytes (`ISN = SeqMod - 3`),
lwIP's buffer and windows fill, a packet is split, the ring wraps twice and fills;
three opens in two slots use a slot again and exhaust the table, and two threads
are enough for every pair of calls to meet. The mailbox of `recv` fills with one
message, so data are refused, offered again and chained with what came out of
order; its index wraps. Two threads on two sockets are the least at which a signal
can go to the wrong one; writes of 1 and 3 bytes into a buffer of 2 go in at once,
in part, or wait. A table of two groups is filled, found again and walked while it
grows. The code's limits are larger (128 messages, 64 groups); none of the
properties depends on the size.
`MAX_PAYLOAD_SIZE` and the margin are small numbers with the order that the real
ones have; the margin of the code (2048) is larger than one packet (1360) and
smaller than two, so by `WindowRespected` it absorbs one concurrent thread or one
fire of full size, not both. `CHECK_DEADLOCK` is off everywhere because the sends
are bounded or the device stops for good; that nothing gets stuck is what the
liveness properties say. The symmetry of `window` and `sess_table` (interchangeable threads)
is sound: no property names a thread, and none is temporal.

*Fairness.* Weak fairness of each thread of the library: every one spins on a CPU
of its own. Weak fairness of lwIP's output and retransmission (its timers run in
its own thread) and of the acknowledgement by the exchange of all it has received
(TCP requires it of the peer). No fairness for the application starting a send, a
fire, a loss, a shutdown or the stop. `SessTable` has safety properties only.
In `DevLifecycle` every thread and every call that has begun; not the calls
themselves. In `Netconn` the threads, and that the stack ends a connect, a blocked
write and a close, by an answer or by giving up (its retransmission and poll
timers). In `RxPath` TcpRxThread, lwIP's timer and the exchange's retransmission,
and two assumptions on the application: it reads on, and it sends a packet now and
then. The second is needed. The card sends an ACK number once and answers the
exchange's retransmission with nothing new, so after a lost empty ACK only the
next packet of the session carries the number; a session that never sends would
see the exchange retransmit until it gives up.

## 4. Findings

1. `fin`: the FIN branch of `sendStackEthFrame` counts nothing, so the FIN's ACK
   looks early for ever and stops the reception of all sessions.
2. `lifecycle_close`: `closeDev` hangs after `initMoexStrategy` without
   `runMoexStrategy`, and when the IGMP thread starts late.
3. `netconn_shared`: `lwipopts.h` asks for one semaphore per thread,
   `sys_arch_netconn_sem_get()` returns one for all. Thread 1 waits in a write for
   room, thread 2 in a connect; the ACK that makes room signals the semaphore and
   wakes thread 2, whose `LWIP_ASSERT("state!")` fails. With
   `sys_arch_netconn_sem_get(t) == t` the same instance passes.

Outcomes the models contain and the properties therefore exclude by name; no run
is devoted to them. The first five are defects like the findings above. With the
exception taken out of its property, or the constant changed as said, TLC shows each
of them within the bounds of the run that is named:

* *An ACK nobody sent* (`EkaTcpSess.cpp:543-547`). The loop of `updateRx()` finds the
  ACK it holds ahead of what lwIP has transmitted; then lwIP transmits past that
  ACK; then the loop loads the counter again and inserts an empty ACK of all of it.
  lwIP now believes bytes acknowledged that the exchange has not received. When one of
  them was lost lwIP never sends it again, and the exchange waits for it for ever
  (`Stranded`). `AckIsTrue` holds for sessions that are not `overtaken` and
  `EveryByteAcked` for those without a stranded packet; without these words `ack`
  violates the first in 17 states, and both `ack` and `live` reach `Stranded`.
  `NoAckLost` needs no exception. Loading the counter once, and inserting no more
  than `realTcpRemoteAckNum`, would close the gap.
* *Two counters, two loads* (`EkaTcpSess.cpp:802-803`). A fire that ServThread begins
  and ends to mirror between the loads raises the counter that was loaded before it
  and the one that is loaded after it, so the difference lacks the fire's bytes, and
  they are missing once for every fire in between. What passes the limit for this
  reason is `slip`; without it `window` violates `InFlightBounded` in 29 states.
* *A blocking write at the stop* (`EkaTcpSess.cpp:730`). ServThread asleep in
  `lwip_write()` for room does not see `exc_active`. After the stop `ekaLwipSend()`
  returns `ERR_CLSD`, so lwIP transmits nothing, no ACK makes room, and `~EkaDev()`
  waits for `servThreadTerminated` for ever; only a reset or a shutdown of the session
  ends the write. `StopReleasesThreads` excepts `<>[]AsleepInWrite`; without that `stop`
  violates it, and with non-blocking sockets only it holds without
  the exception. In `DevLifecycle` a running thread leaves its loop when its flag is
  cleared: `CloseReturns` is about the handshake of the flags and takes the loops'
  own waits, this one among them, to end.
* *A FireReport thread that starts late* (`EkaFireReportThread.cpp:792-793`). It sets
  `fireReportThreadActive`, for which `runMoexStrategy()` waits, before it clears
  `fireReportThreadTerminated`, which is true from the start. A `closeDev` between the
  two stores finds the thread terminated and deletes the device, `efc` and the
  channels under it. `ThreadsGone` excepts the thread that `closeDev` met there
  (`late`) and no other; without that `lifecycle` violates it in 25 states.
* *A close under a connect* (`LWIP/src/api/api_msg.c:1150`). For full duplex
  `lwip_netconn_do_delconn()` says "blocking write/connect is aborted with ERR_CLSD"
  and wakes the connecting thread, and then fails
  `LWIP_ASSERT("blocking connect in progress")`, which tests the state it loaded
  before. Closing a socket that another thread connects always ends so. With
  `Sharing = {"connclose"}` the instance of `netconn` violates `NoAbort` in two steps.
* With an lwIP buffer (or segment pool) that fills before the exchange's window
  does, two sessions can block each other for good: TcpRxThread holds A's ACK for
  a dummy behind B's in `epmFeedback`, ServThread waits for room in B's buffer,
  B's ACK is behind A's. (`TcpSess_live.cfg` with `SndBuf = 1` and
  `Modes = {{s1, s2}}` violates `EveryByteAcked`.)
* `pushFiredPkt` leaves its wait at the stop of the device and pops an empty
  queue, which ends the process (second disjunct of `NoFatal`).
* A session closed before ServThread has taken the feedback of its last packet
  makes ServThread end the process (`fatal = "notFound"` in `SessTable`).
* A reader between `netconn_recv_data()`'s check of the mailbox and the count of
  waiting threads is not woken by a close (`overtaken` in `RxPath`).
* A socket closed between a poll's two scans keeps its count of waiting polls, and
  the next `alloc_socket()` of that number fails its assertion
  (`Sharing = {"pollclose"}` in `Netconn`).

## 5. Proofs

Every theorem holds for every value of the constants that the module's `ASSUME`
allows (sizes are natural numbers, names of nothing are not names of something) and
for the further hypothesis it states. Each rests on one inductive invariant per
module, which the step lemmas keep action by action.

| theorem | of | hypothesis |
|---|---|---|
| `Typing` | `TypeOK` of `TcpSess` | |
| `AckTruth` | `AckIsTrue`, with `overtaken` | no stale ACK in `Env` |
| `TcpMirrorExact` | `MirrorExact` | |
| `TcpMirrorBehindWire` | `MirrorBehindWire` | `2 * Cwnd <= SeqMod` |
| `TcpReconciled` | `Reconciled` | |
| `TcpInFlightBounded` | `InFlightBounded`, with `slip` | finitely many threads |
| `TcpWindowRespected` | `WindowRespected` | no stale ACK in `Env`; finitely many threads, at least one |
| `TcpAckReconstructed` | `AckReconstructed` | no stale ACK in `Env`; `Spacious` |
| `TcpNoAckLost` | `NoAckLost` (an action property) | the same, and `2 * (Cwnd + 1) <= SeqMod` |
| `Ring`, `FireNoFatal` | `PointersFollowCounters`, `NoFatal` | |
| `FireInOrder` | `InOrder` | `MaxPending < Q_ELEMS` |
| `DevThreadsGone` | `ThreadsGone`, with `late` | |
| `DevEntryThere`, `DevGroupsLeft` | the property of that name | |
| `SessSequentialIsSafe`, `SessOwnSessionStays`, `SessSlotsAccounted`, `SessWholePackets`, `SessBuffersAlternate`, `SessAckHeadersFresh`, `SessFeedbackToSender` | the property of that name | |
| `RxNothingDropped`, `RxWindowReturned`, `RxNoSleepOnMail` | the property of that name | |
| `RxImplementsStream` | the refinement of `ReliableStream` | |
| `NetNoAbort`, `NetNoStaleSignal`, `NetPollNotMissed` | the property of that name | `Sharing = {}` |

The hypotheses. `2 * Cwnd <= SeqMod` (and one byte more where a FIN is counted): lwIP
never has more unacknowledged
than its send buffer (1024 segments) or a scaled window (at most 2^30), and the
sequence space is 2^32. `MaxPending < Q_ELEMS`: with as many unreported fires as
slots `push()` ends the process, which `NoFatal` names. `Sharing = {}`: without it
`NoAbort` is false (finding 3, and the close under a connect). The stale ACK: with it the 64-bit number jumps by
2^32, and a window that belongs to an older ACK number is added to a newer one.
`Spacious`: no window is below the margin (the margin of 2K is what `preSendCheck()`
subtracts from it), and a window, a packet of each thread but one, `MaxFired` and a
FIN are together less than the sequence space plus the margin. A scaled window is at
most 2^30, so this leaves almost 2^32 bytes for the fires. `TcpSess_ack.cfg` satisfies
all of these, so the run checks what the theorems say.

*The arguments.*

`TcpSess`. `TypeOK` alone is not inductive: the threads use the head of a channel
in several steps, so `HeadHeld` adds that a thread at work has an entry there. For
`AckTruth` the invariant follows an ACK: those in `lwipRx` ascend and the exchange
has sent them (`AckChain`), nothing arrives before the handshake (`Handshake`), the
64-bit number is the low half of the packet's at the head, wrapped or not
(`AckTracked`), and neither it nor what lwIP takes passes the exchange. `DelayedAck`
follows the loop of `updateRx()`: behind the test the driver's count, and behind the
load the number of the empty ACK, is not beyond the held one, unless lwIP has
transmitted in between, which makes the session `overtaken`. That ends with a packet
whose ACK is not below what lwIP was told, so the exchange has sent it. For the
mirror, `MirrorInv` says that the packets of a session stand in `epmFeedback` in
the order of their sequence numbers (`Ordered`) and that, while nothing failed,
each begins where the one before it ends, the first where lwIP is to go on and the
last at the end of the wire (`Contiguous`); it needs no sum. `TxInv` keeps what lwIP
has transmitted within a congestion window of what it knows to be acknowledged, so
that `TCP_SEQ_LT` tells a retransmission from new data. `CountInv` says that the
global counters differ by the software bytes in the channel and the fire ServThread
is at, and the counter of a session from its wire by the HW bytes in the channel and
the bytes of the threads between their count and `fastSend()`. `LimitInv` bounds the
threads that have passed the check of the in-flight limit, and those between its
loads that would pass it (`Waiting(m)`), by what is left until `m` bytes have been
counted (`Slack(m)`), for *every* `m` not below the mirrored bytes and the limit. A
thread joins with its first load, at a value that is the counter's; one that counts
moves its packet from the account to the global counter. ServThread raises the
mirrored bytes, which leaves fewer `m` to speak of; for a fire that it ends with a
thread between the loads, `slip` pays. One `m` is not enough, because a thread may
pass at the second load by what was mirrored since its first.

The window needs more, because a thread compares what it loaded some time ago with a
window that may be newer. First the ACK number: `TrackInv` says that from the end of
the handshake on `rx.prev` is the low half of the 64-bit number, hence
`seq32to64()` never goes back (`RealGrows`). `updateRx()` stores the window before the
number, so the two that a check adds are never more than an edge the exchange has
announced (`EdgeInv`). What was put on the wire and is about to be sent is no more
than what was counted and what was fired (`LagInv`). `WindowInv` then gives every thread
at work the number it started from, and states for *every* limit `e` not below the
announced edge less the margin: if the wire, without the fires, is at `a`, then `a`, the
packet of one of the threads that may still send within `e` and a full packet for each
further one of them exceed `e` by at most a full packet for every thread but one
(`Bounded`). A thread joins when it loads, with a count that is no less than `a`; it
leaves when it is throttled or has sent. One limit is not enough: the edge moves while
threads are between load and send, and a thread may count in for the next edge only.

`AckReconstructed` needs the window: an ACK follows the one before it by no more than
what is in flight. `GapInv` says that every packet in `lwipRx` follows the stored number
or an earlier packet of its session by less than the sequence space (`Follow`) and that
the exchange's latest number is stored or on its way (`Latest`). For `NoAckLost`
`SentInv` adds that lwIP knows of no ACK beyond the stored number or beyond what the
driver has counted as transmitted, and that this count never passes lwIP's own; after
the FIN, which the driver does not count, `TxInv` says nothing of it, and a
retransmission may be taken for new data. `InsertedInv` gives the same for the empty
ACKs: their number is one the driver has counted, whether the exchange has sent it or
not, so lwIP takes it; a packet behind it carries an ACK that lwIP takes too, or has
been told of.

`FireReport`. Fires are pushed, popped and delivered in their order (`Channels`),
fire *n* is in slot *n* modulo the ring from its push to its callback (`Slots`), and
the length that passes through the unprotected `qLen` is one that was true at some
time since the last pop (`Lengths`); with fewer pending fires than slots a push
cannot reach a slot that is still to be read.

`DevLifecycle`. Per thread, where it may be and which of its two flags is set, at
each point of the calls (`TxThreads`, `FireThread`, `RunThread`, `IgmpThread`: the
order of the two stores differs, and so does what the caller waits for; for the
FireReport thread `terminated` tells the truth from its second store on, which
`late` says it has not reached at `closeDev`), and
`Entries`: the table is stored up to its count until `igmpLeaveAll()` passes.

`SessTable`. Three parts: what holds always (types, the way of a call, the window
belongs to one thread), what ServThread holds, and what holds as long as no two
threads have met in an unlocked section: the control session is first, the session
being opened is new, a thread finds its own session and action in its slot, one slot
per session and one thread per slot, every taken slot has a thread, the buffer of an
action holds what its thread has put there, the ACK headers are the session's, and
written and queued packets add up to the sent ones.

`RxPath`. The messages in the mailbox lead from what the reader has to what was
refused, each from where the one before ends (`Chain`), and nothing beyond the next
segment is acknowledged on any way to the wire (`Acked`). `SysArchProofs` gives the
lemmas on mailboxes: what `trypost` and `fetch` do to the contents, and that a
mailbox with mail is signalled unless nobody can be asleep on it. The same invariant
gives the refinement, step by step.

`Netconn`. With one waiting call at a time a signal belongs to a call that is
complete or to a poll that was signalled (`Signals`), `select_cb_list` and the
counts of waiting polls are those of the polls in progress (`Listed`, `Counted`), and
an event of a socket that a poll has scanned twice is known to it (`Known`).

*Induction over data* is out of reach of the provers, and none is used. Instead: a
chain of messages is described by the existence of its break points; the first gap
of `tcp_receive()` by the least element of a set (`LeastNat` of `ModArith`); a sum
over a queue or over a set of threads by the existence of partial sums (`Total`,
`SetTotal` of `TcpSessProofs`), with lemmas for one entry more or less.

*Only model-checked.* The liveness properties, which fairness puts out of reach:
`EveryByteAcked` and `StopReleasesThreads` here, and those of the other modules.
Every invariant and every action property that a passing run checks has its theorem.

## 6. Plan

Done: the modules above. Next, in this order:

1. Layout of the EPM heap as operators: regions, base indices and offsets of
   actions that must not overlap nor leave the heap.
2. Moex and EFC: pair table, versioned arm and disarm, product parameters, next to
   the fire reports they cause.
3. In `SessTable`: two threads that send on one session; TcpRxThread's lookups.

New questions extend an existing run where they can; the runs together should
stay short enough to be repeated with every change.

## 7. Not modelled

Of the vendored lwIP the parts the library leans on are modelled (TCP input,
receive window and refused data, the socket calls and their waits); its IP, ARP,
UDP, congestion control, memory pools, applications and the select call are not.
The SmartNIC driver and library (`SmartNIC_SW`), `cereal` with its tests and the
generated headers make up most of the repository's lines; they are third-party
code whose effect on the library is a FIFO per DMA channel, and modelling them
would say nothing of this program. The trading decision is FPGA logic. The order
books of `src/FhBook` are not instantiated by any code of the repository.
`EkaHwCaps` compares version numbers, `eka_utils` prints card state,
`EkaHwHashTableLine` packs identifiers for a lookup the FPGA does.
