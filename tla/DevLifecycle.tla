--------------------------- MODULE DevLifecycle ---------------------------
(* The threads of the device from openDev() to closeDev() (EkaDev.cpp,      *)
(* ekaBcs.cpp, EkaEfc.cpp, EkaIgmp.cpp, and the first and last lines of     *)
(* each thread).                                                            *)
(*                                                                          *)
(* Each thread tells the device through a pair of plain volatile flags that *)
(* it is active and that it has terminated; ~EkaDev() clears the one, polls *)
(* the other, and deletes what the threads use.  What the threads do in     *)
(* their loops is in the modules TcpSess and FireReport, except for the     *)
(* IGMP thread, whose loop is here: it walks the table of multicast groups  *)
(* that initMoexStrategy() fills meanwhile.                                 *)
(*                                                                          *)
(* Faulty variants of some definitions stand directly above them, no part   *)
(* of the specification.                                                    *)
EXTENDS Naturals, Sequences

CONSTANTS
    Group,                  \* multicast groups: lane, address and port
    MaxUdpMcGroups,         \* groups of a strategy
    MAX_ENTRIES_PER_LANE    \* room in igmpEntry (one lane, one region)

\* ServThread, TcpRxThread, FireReport thread, EkaMoexStrategy::runLoop(),
\* EkaIgmp::igmpThreadLoopCb()
Thread == {"serv", "tcpRx", "fire", "run", "igmp"}

VARIABLES
    main,           \* where the application is
    active,         \* servThreadActive, ..., moex_->active_, threadActive_
    terminated,     \* servThreadTerminated, ..., igmpLoopTerminated_
    th,             \* where each thread is
    epmEnabled,     \* initEpmTx() is done
    efc, moex,      \* the objects exist
    cores,
    late,           \* history: see closeDev
    mcGroups,       \* groups the strategy's constructor has yet to join
    igmpEntry,      \* the table: a group, or NoEntry for nullptr
    numIgmpEntries,
    walk,           \* entries the IGMP thread has passed in its round
    member          \* groups the network delivers

igmp == <<mcGroups, igmpEntry, numIgmpEntries, walk, member>>
objects == <<epmEnabled, efc, moex, cores, late>>
vars == <<main, active, terminated, th, objects, igmp>>

NoEntry == "nullptr"

ASSUME DevAssumption ==
    /\ MaxUdpMcGroups \in Nat /\ MAX_ENTRIES_PER_LANE \in Nat
    /\ NoEntry \notin Group

Init ==
    /\ main = "closed"
    /\ active = [t \in Thread |-> FALSE]
    /\ terminated = [t \in Thread |-> t \in {"serv", "tcpRx", "fire"}]
    /\ th = [t \in Thread |-> "none"]
    /\ epmEnabled = FALSE /\ efc = FALSE /\ moex = FALSE /\ cores = FALSE
    /\ late = FALSE
    /\ mcGroups = <<>>
    /\ igmpEntry = [k \in 1..MAX_ENTRIES_PER_LANE |-> NoEntry]
    /\ numIgmpEntries = 0
    /\ walk = 0
    /\ member = {}

Spawn(t) == th' = [th EXCEPT ![t] = "start"]
Set(f, t, b) == [f EXCEPT ![t] = b]

----------------------------------------------------------------------------
(* The application's calls.                                                 *)

\* EkaDev(): the IGMP thread starts here, the others later.
openDev ==
    /\ main = "closed"
    /\ main' = "open"
    /\ Spawn("igmp")
    /\ cores' = TRUE
    /\ UNCHANGED <<active, terminated, epmEnabled, efc, moex, late, igmp>>

\* checkAndSetEpmTx(), from tcpConnect(), excSocket(), excInit(), efcInit().
initEpmTx ==
    /\ main = "open" /\ ~epmEnabled
    /\ main' = "spawnTcpRx"
    /\ active' = Set(active, "serv", FALSE)
    /\ Spawn("serv")
    /\ UNCHANGED <<terminated, objects, igmp>>

SpawnTcpRxLateReset ==
    /\ main = "spawnTcpRx"
    /\ main' = "waitTx"
    /\ active' = [active EXCEPT !["serv"] = FALSE, !["tcpRx"] = FALSE]
    /\ Spawn("tcpRx")
    /\ UNCHANGED <<terminated, objects, igmp>>

SpawnTcpRx ==
    /\ main = "spawnTcpRx"
    /\ main' = "waitTx"
    /\ active' = Set(active, "tcpRx", FALSE)
    /\ Spawn("tcpRx")
    /\ UNCHANGED <<terminated, objects, igmp>>

\* while (!servThreadActive || !tcpRxThreadActive)
WaitTx ==
    /\ main = "waitTx"
    /\ active["serv"] /\ active["tcpRx"]
    /\ main' = "open"
    /\ epmEnabled' = TRUE
    /\ UNCHANGED <<active, terminated, th, efc, moex, cores, late, igmp>>

efcInit ==
    /\ main = "open" /\ epmEnabled /\ ~efc
    /\ efc' = TRUE
    /\ UNCHANGED <<main, active, terminated, th, epmEnabled, moex, cores, late, igmp>>

\* EkaStrategy(): active_ is true, terminated_ false, the groups are joined one
\* by one.
initMoexStrategy ==
    /\ main = "open" /\ efc /\ ~moex
    /\ \E gs \in UNION {[1..n -> Group] : n \in 0..MaxUdpMcGroups + 1} :
         /\ main' = IF Len(gs) > MaxUdpMcGroups THEN "on_error" ELSE "join"
         /\ mcGroups' = gs
    /\ active' = Set(active, "run", TRUE)
    /\ UNCHANGED <<terminated, th, objects, igmpEntry, numIgmpEntries, walk, member>>

Joined == {igmpEntry[k] : k \in 1..numIgmpEntries}

\* mcJoin() of a group that is in the table.
McJoinExisting ==
    /\ main = "join" /\ mcGroups # <<>>
    /\ Head(mcGroups) \in Joined
    /\ mcGroups' = Tail(mcGroups)
    /\ UNCHANGED <<main, active, terminated, th, objects, igmpEntry,
                   numIgmpEntries, walk, member>>

StoreCountFirst ==
    /\ numIgmpEntries' = numIgmpEntries + 1
    /\ UNCHANGED igmpEntry

\* igmpEntry[numIgmpEntries] = new EkaIgmpEntry(): the count comes later.
Store ==
    /\ igmpEntry' = [igmpEntry EXCEPT ![numIgmpEntries + 1] = Head(mcGroups)]
    /\ UNCHANGED numIgmpEntries

\* mcJoin() of a new group; the IGMP thread takes no mutex.
McJoinStore ==
    /\ main = "join" /\ mcGroups # <<>>
    /\ Head(mcGroups) \notin Joined
    /\ IF numIgmpEntries = MAX_ENTRIES_PER_LANE
       THEN main' = "on_error" /\ UNCHANGED <<igmpEntry, numIgmpEntries>>
       ELSE main' = "count" /\ Store
    /\ UNCHANGED <<active, terminated, th, objects, mcGroups, walk, member>>

\* numIgmpEntries++, after the log line.
McJoinCount ==
    /\ main = "count"
    /\ main' = "join"
    /\ numIgmpEntries' = numIgmpEntries + 1
    /\ mcGroups' = Tail(mcGroups)
    /\ UNCHANGED <<active, terminated, th, objects, igmpEntry, walk, member>>

\* The constructor returns.
InitMoexDone ==
    /\ main = "join" /\ mcGroups = <<>>
    /\ main' = "open"
    /\ moex' = TRUE
    /\ UNCHANGED <<active, terminated, th, epmEnabled, efc, cores, late, igmp>>

\* runMoexStrategy() and EkaEfc::run(): a second call is an on_error().
StartFire(next) ==
    /\ main = "open" /\ efc
    /\ IF active["fire"]
       THEN main' = "on_error" /\ UNCHANGED th
       ELSE main' = next /\ Spawn("fire")
    /\ UNCHANGED <<active, terminated, objects, igmp>>

EfcRun == StartFire("waitFire")
runMoexStrategy == moex /\ StartFire("waitFireMoex")

\* while (!fireReportThreadActive); runMoexStrategy() then starts runLoop().
WaitFire ==
    /\ main \in {"waitFire", "waitFireMoex"}
    /\ active["fire"]
    /\ main' = "open"
    /\ IF main = "waitFireMoex" THEN Spawn("run") ELSE UNCHANGED th
    /\ UNCHANGED <<active, terminated, objects, igmp>>

----------------------------------------------------------------------------
(* closeDev(): ~EkaDev().                                                   *)

\* late: the FireReport thread has announced itself (runMoexStrategy() waits for no
\* more) and has yet to take back fireReportThreadTerminated, which is true from the
\* start, so that ~EkaDev() may find it true and go on without the thread.
closeDev ==
    /\ main = "open"
    /\ main' = "waitServ"
    /\ active' = [active EXCEPT !["serv"] = FALSE, !["fire"] = FALSE]
    /\ late' = (th["fire"] = "mid")
    /\ UNCHANGED <<terminated, th, epmEnabled, efc, moex, cores, igmp>>

WaitServTerminatedKeepsRx ==
    /\ main = "waitServ" /\ terminated["serv"]
    /\ main' = IF efc /\ moex THEN "waitRun" ELSE "waitTcpRx"
    /\ active' = [active EXCEPT !["fire"] = FALSE, !["run"] = @ /\ ~(efc /\ moex)]
    /\ UNCHANGED <<terminated, th, objects, igmp>>

WaitServTerminatedBlindly ==
    /\ main = "waitServ"
    /\ main' = IF efc /\ moex THEN "waitRun" ELSE "waitTcpRx"
    /\ active' = [active EXCEPT !["tcpRx"] = FALSE, !["fire"] = FALSE,
                                !["run"] = @ /\ ~(efc /\ moex)]
    /\ UNCHANGED <<terminated, th, objects, igmp>>

\* while (!servThreadTerminated); then the next flags.
WaitServTerminated ==
    /\ main = "waitServ" /\ terminated["serv"]
    /\ main' = IF efc /\ moex THEN "waitRun" ELSE "waitTcpRx"
    /\ active' = [active EXCEPT !["tcpRx"] = FALSE, !["fire"] = FALSE,
                                !["run"] = @ /\ ~(efc /\ moex)]
    /\ UNCHANGED <<terminated, th, objects, igmp>>

\* Polls of terminated_, tcpRxThreadTerminated, fireReportThreadTerminated.
WaitTerminated(t, here, next) ==
    /\ main = here /\ terminated[t]
    /\ main' = next
    /\ UNCHANGED <<active, terminated, th, objects, igmp>>

WaitRunTerminated   == WaitTerminated("run", "waitRun", "waitTcpRx")
WaitTcpRxTerminated == WaitTerminated("tcpRx", "waitTcpRx", "waitFireEnd")
WaitFireTerminated  == WaitTerminated("fire", "waitFireEnd", "deleteIgmp")

\* ~EkaIgmp()
DeleteIgmp ==
    /\ main = "deleteIgmp"
    /\ main' = "joinIgmp"
    /\ active' = Set(active, "igmp", FALSE)
    /\ UNCHANGED <<terminated, th, objects, igmp>>

\* join(), then delete efc.
JoinIgmp ==
    /\ main = "joinIgmp" /\ th["igmp"] = "exited"
    /\ main' = "deleteCores"
    /\ efc' = FALSE
    /\ UNCHANGED <<active, terminated, th, epmEnabled, moex, cores, late, igmp>>

\* The cores with their sessions, lwIP, epm, the device.
DeleteCores ==
    /\ main = "deleteCores"
    /\ main' = "gone"
    /\ cores' = FALSE
    /\ UNCHANGED <<active, terminated, th, epmEnabled, efc, moex, late, igmp>>

----------------------------------------------------------------------------
(* The threads.  Two stores announce a thread, one its end.                 *)

\* on_error() ends the process.
Running == main # "on_error"

\* ServThread, TcpRxThread and Igmp clear "terminated" first.
TermFirst == {"serv", "tcpRx", "igmp"}

Begin(t) ==
    /\ Running
    /\ th[t] = "start" /\ t # "run"
    /\ th' = Set(th, t, "mid")
    /\ IF t \in TermFirst
       THEN terminated' = Set(terminated, t, FALSE) /\ UNCHANGED active
       ELSE active' = Set(active, t, TRUE) /\ UNCHANGED terminated
    /\ UNCHANGED <<main, objects, igmp>>

BeginNext(t) ==
    /\ Running
    /\ th[t] = "mid"
    /\ th' = Set(th, t, "loop")
    /\ IF t \in TermFirst
       THEN active' = Set(active, t, TRUE) /\ UNCHANGED terminated
       ELSE terminated' = Set(terminated, t, FALSE) /\ UNCHANGED active
    /\ UNCHANGED <<main, objects, igmp>>

BeginRun ==
    /\ Running
    /\ th["run"] = "start"
    /\ th' = Set(th, "run", "loop")
    /\ UNCHANGED <<main, active, terminated, objects, igmp>>

Exit(t) ==
    /\ Running
    /\ th[t] = "loop" /\ ~active[t] /\ t # "igmp"
    /\ th' = Set(th, t, "exited")
    /\ terminated' = Set(terminated, t, TRUE)
    /\ UNCHANGED <<main, active, objects, igmp>>

\* ServThread leaves its loop on a write error, servThreadActive stays.
ServBreak ==
    /\ Running
    /\ th["serv"] = "loop"
    /\ th' = Set(th, "serv", "exited")
    /\ terminated' = Set(terminated, "serv", TRUE)
    /\ UNCHANGED <<main, active, objects, igmp>>

----------------------------------------------------------------------------
(* The IGMP thread: igmpThreadLoopCb() and igmpLeaveAll().                  *)

InLoop == Running /\ th["igmp"] = "loop"

\* Entry walk: sendIgmpJoin() and saveMcState().
IgmpJoin ==
    /\ InLoop /\ active["igmp"] /\ walk < numIgmpEntries
    /\ member' = member \cup {igmpEntry[walk + 1]}
    /\ walk' = walk + 1
    /\ UNCHANGED <<main, active, terminated, th, objects, mcGroups, igmpEntry,
                   numIgmpEntries>>

IgmpSleepKeepsIndex ==
    /\ InLoop /\ active["igmp"] /\ walk >= numIgmpEntries
    /\ UNCHANGED vars

\* sleep(1), then from the first entry again.
IgmpSleep ==
    /\ InLoop /\ active["igmp"] /\ walk >= numIgmpEntries
    /\ walk' = 0
    /\ UNCHANGED <<main, active, terminated, th, objects, mcGroups, igmpEntry,
                   numIgmpEntries, member>>

IgmpStop ==
    /\ InLoop /\ ~active["igmp"]
    /\ th' = Set(th, "igmp", "leave")
    /\ walk' = 0
    /\ UNCHANGED <<main, active, terminated, objects, mcGroups, igmpEntry,
                   numIgmpEntries, member>>

IgmpLeave ==
    /\ Running /\ th["igmp"] = "leave" /\ walk < numIgmpEntries
    /\ member' = member \ {igmpEntry[walk + 1]}
    /\ igmpEntry' = [igmpEntry EXCEPT ![walk + 1] = NoEntry]
    /\ walk' = walk + 1
    /\ UNCHANGED <<main, active, terminated, th, objects, mcGroups,
                   numIgmpEntries>>

IgmpExitBeforeLast ==
    /\ Running /\ th["igmp"] = "leave" /\ walk + 1 >= numIgmpEntries
    /\ th' = Set(th, "igmp", "exited")
    /\ terminated' = Set(terminated, "igmp", TRUE)
    /\ UNCHANGED <<main, active, objects, igmp>>

IgmpExit ==
    /\ Running /\ th["igmp"] = "leave" /\ walk >= numIgmpEntries
    /\ th' = Set(th, "igmp", "exited")
    /\ terminated' = Set(terminated, "igmp", TRUE)
    /\ UNCHANGED <<main, active, objects, igmp>>

IgmpStep == IgmpJoin \/ IgmpSleep \/ IgmpStop \/ IgmpLeave \/ IgmpExit

\* The network forgets a member it has not heard of, or the report was lost.
Forget ==
    \E g \in member :
      /\ member' = member \ {g}
      /\ UNCHANGED <<main, active, terminated, th, objects, mcGroups, igmpEntry,
                     numIgmpEntries, walk>>

----------------------------------------------------------------------------
ThreadStep(t) == Begin(t) \/ BeginNext(t) \/ Exit(t)

ApiCall ==
    \/ openDev \/ initEpmTx \/ efcInit \/ initMoexStrategy
    \/ EfcRun \/ runMoexStrategy \/ closeDev

MainStep ==
    \/ SpawnTcpRx \/ WaitTx \/ WaitFire
    \/ McJoinExisting \/ McJoinStore \/ McJoinCount \/ InitMoexDone
    \/ WaitServTerminated \/ WaitRunTerminated \/ WaitTcpRxTerminated
    \/ WaitFireTerminated \/ DeleteIgmp \/ JoinIgmp \/ DeleteCores

Next ==
    \/ ApiCall \/ MainStep \/ ServBreak \/ BeginRun \/ IgmpStep \/ Forget
    \/ \E t \in Thread : ThreadStep(t)

Spec == Init /\ [][Next]_vars

\* Every thread gets the CPU, and a call that was made goes on.
FairSpec ==
    /\ Spec
    /\ WF_vars(MainStep)
    /\ WF_vars(BeginRun)
    /\ WF_vars(IgmpStep)
    /\ \A t \in Thread : WF_vars(ThreadStep(t))

----------------------------------------------------------------------------
Closing == {"waitServ", "waitRun", "waitTcpRx", "waitFireEnd", "deleteIgmp",
            "joinIgmp", "deleteCores"}

Gone(t) == th[t] \in {"none", "exited"}

\* ~EkaDev(): when the sessions and the strategies are deleted, every thread that uses
\* them has left its loop, whatever calls came before and however late the threads
\* started.  One case is not safe: a FireReport thread that closeDev() met between its
\* two stores goes on with what is deleted.
ThreadsGone ==
    main \in {"deleteCores", "gone"} =>
      \A t \in Thread : Gone(t) \/ (t = "fire" /\ late)

\* igmpThreadLoopCb(): the thread reads the count and the entry without
\* createEntryMtx_, and never an entry that is not there, while mcJoin() adds one
\* and while igmpLeaveAll() takes them away.
EntryThere ==
    th["igmp"] \in {"loop", "leave"} /\ walk < numIgmpEntries =>
      igmpEntry[walk + 1] # NoEntry

\* igmpLeaveAll(): a device that is closed is a member of no group, whether its
\* joins were sent once, often or not at all.
GroupsLeft == main = "gone" => member = {}

\* igmpThreadLoopCb(): each group of a strategy is announced, and announced again
\* when the network has forgotten it, until the device is closed.
GroupsAnnounced ==
    \A g \in Group :
      g \in Joined /\ main \notin Closing ~> g \in member \/ main \in Closing
         \/ main = "on_error"

\* initEpmTx(), runMoexStrategy(): the wait for a new thread ends.
StartReturns ==
    main \in {"waitTx", "waitFire", "waitFireMoex"} ~> main = "open"

\* Two ways closeDev() may never come back: a strategy that was initialised and
\* never run has no thread to set terminated_; and an IGMP thread that starts late
\* sets threadActive_ after ~EkaIgmp() has cleared it.
MoexNeverRan == moex /\ th["run"] = "none"
IgmpRevived  == main = "joinIgmp" /\ active["igmp"]

\* closeDev() returns in every other case.
CloseReturns ==
    main \in Closing ~> main = "gone" \/ MoexNeverRan \/ IgmpRevived

\* closeDev(), EkaBcs.h: "Closes Ekaline Device and destroys all data structs".
CloseAlwaysReturns == main \in Closing ~> main = "gone"
============================================================================
