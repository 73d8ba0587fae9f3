------------------------ MODULE DevLifecycleProofs ------------------------
(* The threads are gone when the device is deleted, the IGMP thread reads no *)
(* entry that is not there, and every group is left; for every number of     *)
(* groups and every size of the table.                                       *)
EXTENDS DevLifecycle, TLAPS

Mains ==
    {"closed", "open", "spawnTcpRx", "waitTx", "join", "count", "on_error", "waitFire",
     "waitFireMoex", "waitServ", "waitRun", "waitTcpRx", "waitFireEnd", "deleteIgmp",
     "joinIgmp", "deleteCores", "gone"}

Places == {"none", "start", "mid", "loop", "leave", "exited"}

FlagsTyped ==
    /\ main \in Mains
    /\ active \in [Thread -> BOOLEAN] /\ terminated \in [Thread -> BOOLEAN]
    /\ th \in [Thread -> Places]

TableTyped ==
    /\ mcGroups \in Seq(Group)
    /\ igmpEntry \in [1..MAX_ENTRIES_PER_LANE -> Group \cup {NoEntry}]
    /\ numIgmpEntries \in 0..MAX_ENTRIES_PER_LANE
    /\ walk \in Nat

\* How far ~EkaDev() has come.
PastTcpRx == {"waitFireEnd", "deleteIgmp", "joinIgmp", "deleteCores", "gone"}
PastRun   == PastTcpRx \cup {"waitTcpRx"}
PastServ  == PastRun \cup {"waitRun"}
PastIgmp  == {"joinIgmp", "deleteCores", "gone"}
PastFire  == PastIgmp \cup {"deleteIgmp"}

\* ServThread and TcpRxThread clear "terminated" before they set "active", and
\* initEpmTx() waits for both: a thread that closeDev() can meet is in its loop or out
\* of it, and only out of it "terminated".
TxThreads ==
    /\ \A t \in {"serv", "tcpRx"} :
         /\ th[t] # "leave"
         /\ th[t] \in {"mid", "loop"} => ~terminated[t]
         /\ active[t] => th[t] \in {"loop", "exited"}
         /\ th[t] \in {"start", "mid"} => main \in {"spawnTcpRx", "waitTx"}
    /\ main \in PastServ => Gone("serv")
    /\ main \in PastTcpRx => Gone("tcpRx")

\* The FireReport thread sets "active" first, and EkaEfc::run() waits for it: when
\* closeDev() clears the flag the thread does not set it again.  One that it meets in
\* its loop has taken "terminated" back, and gives it again only when it leaves.
FireThread ==
    /\ th["fire"] # "leave"
    /\ th["fire"] = "start" => ~active["fire"] /\ main \in {"waitFire", "waitFireMoex"}
    /\ th["fire"] \in {"mid", "loop"} => active["fire"] \/ main \in Closing \cup {"gone"}
    /\ th["fire"] = "loop" => ~terminated["fire"]
    /\ main \in Closing \cup {"gone"} =>
         ~active["fire"] /\ (th["fire"] = "mid" => late)
    /\ main \in PastFire => Gone("fire") \/ late

\* runLoop() ends only when ~EkaDev() has cleared active_, and only then terminated_.
RunThread ==
    /\ th["run"] \in {"none", "start", "loop", "exited"}
    /\ terminated["run"] => th["run"] = "exited"
    /\ th["run"] = "exited" => main \in PastServ
    /\ moex \/ main \in {"join", "count"} => active["run"] \/ main \in PastServ
    /\ th["run"] # "none" \/ main = "waitFireMoex" => moex
    /\ moex \/ main \in {"join", "count"} => efc \/ main \in {"deleteCores", "gone"}
    /\ main \in PastRun => Gone("run")

\* The IGMP thread leaves its loop only for ~EkaIgmp().
IgmpThread ==
    /\ th["igmp"] \in {"leave", "exited"} => main \in PastIgmp
    /\ th["igmp"] = "loop" => active["igmp"] \/ main \in PastIgmp
    /\ main \in {"deleteCores", "gone"} => th["igmp"] = "exited"

\* The entries up to the count are there until igmpLeaveAll() passes them, and the
\* network knows of no group beyond them.
Entries ==
    /\ th["igmp"] \notin {"leave", "exited"} =>
         /\ \A k \in 1..numIgmpEntries : igmpEntry[k] # NoEntry
         /\ member \subseteq Joined
    /\ th["igmp"] = "leave" =>
         /\ \A k \in (walk + 1)..numIgmpEntries : igmpEntry[k] # NoEntry
         /\ member \subseteq {igmpEntry[k] : k \in (walk + 1)..numIgmpEntries}
    /\ th["igmp"] = "exited" => member = {}
    /\ main = "count" =>
         /\ mcGroups # <<>> /\ numIgmpEntries < MAX_ENTRIES_PER_LANE
         /\ igmpEntry[numIgmpEntries + 1] # NoEntry

DevInv ==
    /\ FlagsTyped /\ TableTyped
    /\ TxThreads /\ FireThread /\ RunThread /\ IgmpThread /\ Entries

\* A thread that moves and announces it.
LEMMA MovedTyped ==
    ASSUME FlagsTyped, NEW t \in Thread, NEW q \in Places, NEW b \in BOOLEAN, NEW c \in BOOLEAN,
           main' = main, th' = Set(th, t, q), active' \in {active, Set(active, t, b)},
           terminated' \in {terminated, Set(terminated, t, c)}
    PROVE  FlagsTyped'
<1>1. /\ Set(active, t, b) \in [Thread -> BOOLEAN]
      /\ Set(terminated, t, c) \in [Thread -> BOOLEAN]
      /\ Set(th, t, q) \in [Thread -> Places]
  BY Zenon DEF FlagsTyped, Set
<1> QED
  BY <1>1, Zenon DEF FlagsTyped

LEMMA FlagsTypedStep == DevInv /\ [Next]_vars => FlagsTyped'
<1> SUFFICES ASSUME DevInv, [Next]_vars PROVE FlagsTyped'
  OBVIOUS
<1> USE DEF DevInv, FlagsTyped, Mains, Places, Thread, objects, igmp, Spawn
<1>1. CASE openDev \/ initEpmTx \/ SpawnTcpRx \/ WaitTx
  <2>1. CASE openDev \/ WaitTx
    BY <2>1 DEF openDev, WaitTx
  <2>2. CASE initEpmTx
    BY <2>2 DEF initEpmTx, Set
  <2>3. CASE SpawnTcpRx
    BY <2>3 DEF SpawnTcpRx, Set
  <2> QED
    BY <1>1, <2>1, <2>2, <2>3
<1>2. CASE efcInit \/ initMoexStrategy \/ InitMoexDone
  BY <1>2 DEF efcInit, initMoexStrategy, InitMoexDone, Set
<1>3. CASE McJoinExisting \/ McJoinStore \/ McJoinCount
  BY <1>3 DEF McJoinExisting, McJoinStore, McJoinCount
<1>4. CASE EfcRun \/ runMoexStrategy \/ WaitFire
  BY <1>4 DEF EfcRun, runMoexStrategy, StartFire, WaitFire
<1>5. CASE closeDev
  BY <1>5 DEF closeDev
<1>6. CASE WaitServTerminated
  BY <1>6 DEF WaitServTerminated
<1>7. CASE WaitRunTerminated \/ WaitTcpRxTerminated \/ WaitFireTerminated
  BY <1>7 DEF WaitRunTerminated, WaitTcpRxTerminated, WaitFireTerminated,
              WaitTerminated
<1>8. CASE DeleteIgmp \/ JoinIgmp \/ DeleteCores
  BY <1>8 DEF DeleteIgmp, JoinIgmp, DeleteCores, Set
<1>9. CASE \E t \in Thread : Begin(t)
  <2>1. PICK t \in Thread : /\ th' = Set(th, t, "mid") /\ main' = main
                            /\ active' \in {active, Set(active, t, TRUE)}
                            /\ terminated' \in {terminated, Set(terminated, t, FALSE)}
    BY <1>9 DEF Begin
  <2> QED
    BY <2>1, MovedTyped
<1>10. CASE \E t \in Thread : BeginNext(t)
  <2>1. PICK t \in Thread : /\ th' = Set(th, t, "loop") /\ main' = main
                            /\ active' \in {active, Set(active, t, TRUE)}
                            /\ terminated' \in {terminated, Set(terminated, t, FALSE)}
    BY <1>10 DEF BeginNext
  <2> QED
    BY <2>1, MovedTyped
<1>11. CASE \E t \in Thread : Exit(t)
  BY <1>11 DEF Exit, Set
<1>12. CASE ServBreak \/ BeginRun
  <2>1. PICK t \in Thread, q \in Places :
          /\ th' = Set(th, t, q) /\ main' = main /\ active' = active
          /\ terminated' \in {terminated, Set(terminated, t, TRUE)}
    BY <1>12 DEF ServBreak, BeginRun
  <2> QED
    BY <2>1, MovedTyped
<1>13. CASE IgmpJoin \/ IgmpSleep \/ IgmpStop \/ Forget
  BY <1>13 DEF IgmpJoin, IgmpSleep, IgmpStop, Forget, InLoop, Set
<1>14. CASE IgmpLeave \/ IgmpExit
  BY <1>14 DEF IgmpLeave, IgmpExit, Set
<1>15. CASE UNCHANGED vars
  BY <1>15 DEF vars
<1> QED
  BY <1>1, <1>2, <1>3, <1>4, <1>5, <1>6, <1>7, <1>8, <1>9, <1>10, <1>11, <1>12, <1>13, <1>14, <1>15
     DEF Next, ApiCall, MainStep, IgmpStep, ThreadStep

LEMMA TxThreadsStep == DevInv /\ [Next]_vars => TxThreads'
<1> SUFFICES ASSUME DevInv, [Next]_vars PROVE TxThreads'
  OBVIOUS
<1> USE DEF DevInv, TxThreads, FlagsTyped, Thread, PastServ, PastRun, PastTcpRx, Gone, Places, objects, igmp, Spawn, Set
<1>1. CASE openDev \/ initEpmTx \/ SpawnTcpRx \/ WaitTx
  BY <1>1 DEF openDev, initEpmTx, SpawnTcpRx, WaitTx
<1>2. CASE efcInit \/ initMoexStrategy \/ InitMoexDone
  BY <1>2 DEF efcInit, initMoexStrategy, InitMoexDone
<1>3. CASE McJoinExisting \/ McJoinStore \/ McJoinCount
  BY <1>3 DEF McJoinExisting, McJoinStore, McJoinCount
<1>4. CASE EfcRun \/ runMoexStrategy \/ WaitFire
  BY <1>4 DEF EfcRun, runMoexStrategy, StartFire, WaitFire
<1>5. CASE closeDev
  BY <1>5 DEF closeDev
<1>6. CASE WaitServTerminated
  BY <1>6 DEF WaitServTerminated
<1>7. CASE WaitRunTerminated \/ WaitTcpRxTerminated \/ WaitFireTerminated
  BY <1>7 DEF WaitRunTerminated, WaitTcpRxTerminated, WaitFireTerminated,
              WaitTerminated
<1>8. CASE DeleteIgmp \/ JoinIgmp \/ DeleteCores
  BY <1>8 DEF DeleteIgmp, JoinIgmp, DeleteCores
<1>9. CASE \E t \in Thread : Begin(t)
  BY <1>9 DEF Begin, TermFirst
<1>10. CASE \E t \in Thread : BeginNext(t)
  BY <1>10 DEF BeginNext, TermFirst
<1>11. CASE \E t \in Thread : Exit(t)
  BY <1>11 DEF Exit
<1>12. CASE ServBreak \/ BeginRun
  BY <1>12 DEF ServBreak, BeginRun
<1>13. CASE IgmpJoin \/ IgmpSleep \/ IgmpStop \/ Forget
  BY <1>13 DEF IgmpJoin, IgmpSleep, IgmpStop, Forget, InLoop
<1>14. CASE IgmpLeave \/ IgmpExit
  BY <1>14 DEF IgmpLeave, IgmpExit
<1>15. CASE UNCHANGED vars
  BY <1>15 DEF vars
<1> QED
  BY <1>1, <1>2, <1>3, <1>4, <1>5, <1>6, <1>7, <1>8, <1>9, <1>10, <1>11, <1>12, <1>13, <1>14, <1>15
     DEF Next, ApiCall, MainStep, IgmpStep, ThreadStep

LEMMA FireThreadStep == DevInv /\ [Next]_vars => FireThread'
<1> SUFFICES ASSUME DevInv, [Next]_vars PROVE FireThread'
  OBVIOUS
<1> USE DEF DevInv, FireThread, FlagsTyped, Thread, Closing, PastFire, PastIgmp, Gone, objects,
            igmp, Spawn, Set
<1>1. CASE openDev \/ initEpmTx \/ SpawnTcpRx \/ WaitTx
  BY <1>1 DEF openDev, initEpmTx, SpawnTcpRx, WaitTx
<1>2. CASE efcInit \/ initMoexStrategy \/ InitMoexDone
  BY <1>2 DEF efcInit, initMoexStrategy, InitMoexDone
<1>3. CASE McJoinExisting \/ McJoinStore \/ McJoinCount
  BY <1>3 DEF McJoinExisting, McJoinStore, McJoinCount
<1>4. CASE EfcRun \/ runMoexStrategy \/ WaitFire
  BY <1>4 DEF EfcRun, runMoexStrategy, StartFire, WaitFire
<1>5. CASE closeDev
  BY <1>5 DEF closeDev
<1>6. CASE WaitServTerminated
  BY <1>6 DEF WaitServTerminated
<1>7. CASE WaitRunTerminated \/ WaitTcpRxTerminated \/ WaitFireTerminated
  <2>1. UNCHANGED <<active, terminated, th, late>>
    BY <1>7 DEF WaitRunTerminated, WaitTcpRxTerminated, WaitFireTerminated, WaitTerminated
  <2>2. \/ main \in Closing /\ main' \in Closing \ PastFire
        \/ main = "waitFireEnd" /\ main' = "deleteIgmp" /\ terminated["fire"]
    BY <1>7 DEF WaitRunTerminated, WaitTcpRxTerminated, WaitFireTerminated, WaitTerminated
  <2>3. main = "waitFireEnd" /\ terminated["fire"] => Gone("fire") \/ late
    BY DEF Places
  <2>4. main \in Closing /\ main' \in Closing
    BY <2>2
  <2>5. main' \notin {"waitFire", "waitFireMoex"}
    BY <2>4
  <2> QED
    BY <2>1, <2>2, <2>3, <2>4, <2>5
<1>8. CASE DeleteIgmp \/ JoinIgmp \/ DeleteCores
  BY <1>8 DEF DeleteIgmp, JoinIgmp, DeleteCores
<1>9. CASE \E t \in Thread : Begin(t)
  BY <1>9 DEF Begin, TermFirst
<1>10. CASE \E t \in Thread : BeginNext(t)
  BY <1>10 DEF BeginNext, TermFirst
<1>11. CASE \E t \in Thread : Exit(t)
  BY <1>11 DEF Exit
<1>12. CASE ServBreak \/ BeginRun
  BY <1>12 DEF ServBreak, BeginRun
<1>13. CASE IgmpJoin \/ IgmpSleep \/ IgmpStop \/ Forget
  BY <1>13 DEF IgmpJoin, IgmpSleep, IgmpStop, Forget, InLoop
<1>14. CASE IgmpLeave \/ IgmpExit
  BY <1>14 DEF IgmpLeave, IgmpExit
<1>15. CASE UNCHANGED vars
  BY <1>15 DEF vars
<1> QED
  BY <1>1, <1>2, <1>3, <1>4, <1>5, <1>6, <1>7, <1>8, <1>9, <1>10, <1>11, <1>12, <1>13, <1>14, <1>15
     DEF Next, ApiCall, MainStep, IgmpStep, ThreadStep

LEMMA RunThreadStep == DevInv /\ [Next]_vars => RunThread'
<1> SUFFICES ASSUME DevInv, [Next]_vars PROVE RunThread'
  OBVIOUS
<1> USE DEF DevInv, RunThread, FlagsTyped, Thread, PastServ, PastRun, PastTcpRx, Gone, objects, igmp, Spawn, Set
<1>1. CASE openDev \/ initEpmTx \/ SpawnTcpRx \/ WaitTx
  BY <1>1 DEF openDev, initEpmTx, SpawnTcpRx, WaitTx
<1>2. CASE efcInit \/ initMoexStrategy \/ InitMoexDone
  BY <1>2 DEF efcInit, initMoexStrategy, InitMoexDone
<1>3. CASE McJoinExisting \/ McJoinStore \/ McJoinCount
  BY <1>3 DEF McJoinExisting, McJoinStore, McJoinCount
<1>4. CASE EfcRun \/ runMoexStrategy \/ WaitFire
  BY <1>4 DEF EfcRun, runMoexStrategy, StartFire, WaitFire
<1>5. CASE closeDev
  BY <1>5 DEF closeDev
<1>6. CASE WaitServTerminated
  BY <1>6 DEF WaitServTerminated
<1>7. CASE WaitRunTerminated \/ WaitTcpRxTerminated \/ WaitFireTerminated
  BY <1>7 DEF WaitRunTerminated, WaitTcpRxTerminated, WaitFireTerminated,
              WaitTerminated
<1>8. CASE DeleteIgmp \/ JoinIgmp \/ DeleteCores
  BY <1>8 DEF DeleteIgmp, JoinIgmp, DeleteCores
<1>9. CASE \E t \in Thread : Begin(t)
  BY <1>9 DEF Begin, TermFirst
<1>10. CASE \E t \in Thread : BeginNext(t)
  BY <1>10 DEF BeginNext, TermFirst
<1>11. CASE \E t \in Thread : Exit(t)
  BY <1>11 DEF Exit
<1>12. CASE ServBreak \/ BeginRun
  BY <1>12 DEF ServBreak, BeginRun
<1>13. CASE IgmpJoin \/ IgmpSleep \/ IgmpStop \/ Forget
  BY <1>13 DEF IgmpJoin, IgmpSleep, IgmpStop, Forget, InLoop
<1>14. CASE IgmpLeave \/ IgmpExit
  BY <1>14 DEF IgmpLeave, IgmpExit
<1>15. CASE UNCHANGED vars
  BY <1>15 DEF vars
<1> QED
  BY <1>1, <1>2, <1>3, <1>4, <1>5, <1>6, <1>7, <1>8, <1>9, <1>10, <1>11, <1>12, <1>13, <1>14, <1>15
     DEF Next, ApiCall, MainStep, IgmpStep, ThreadStep

LEMMA IgmpThreadStep == DevInv /\ [Next]_vars => IgmpThread'
<1> SUFFICES ASSUME DevInv, [Next]_vars PROVE IgmpThread'
  OBVIOUS
<1> USE DEF DevInv, IgmpThread, FlagsTyped, Thread, PastIgmp, objects, igmp, Spawn, Set
<1>1. CASE openDev \/ initEpmTx \/ SpawnTcpRx \/ WaitTx
  BY <1>1 DEF openDev, initEpmTx, SpawnTcpRx, WaitTx
<1>2. CASE efcInit \/ initMoexStrategy \/ InitMoexDone
  BY <1>2 DEF efcInit, initMoexStrategy, InitMoexDone
<1>3. CASE McJoinExisting \/ McJoinStore \/ McJoinCount
  BY <1>3 DEF McJoinExisting, McJoinStore, McJoinCount
<1>4. CASE EfcRun \/ runMoexStrategy \/ WaitFire
  BY <1>4 DEF EfcRun, runMoexStrategy, StartFire, WaitFire
<1>5. CASE closeDev
  BY <1>5 DEF closeDev
<1>6. CASE WaitServTerminated
  BY <1>6 DEF WaitServTerminated
<1>7. CASE WaitRunTerminated \/ WaitTcpRxTerminated \/ WaitFireTerminated
  BY <1>7 DEF WaitRunTerminated, WaitTcpRxTerminated, WaitFireTerminated,
              WaitTerminated
<1>8. CASE DeleteIgmp \/ JoinIgmp \/ DeleteCores
  BY <1>8 DEF DeleteIgmp, JoinIgmp, DeleteCores
<1>9. CASE \E t \in Thread : Begin(t)
  BY <1>9 DEF Begin, TermFirst
<1>10. CASE \E t \in Thread : BeginNext(t)
  BY <1>10 DEF BeginNext, TermFirst
<1>11. CASE \E t \in Thread : Exit(t)
  BY <1>11 DEF Exit
<1>12. CASE ServBreak \/ BeginRun
  BY <1>12 DEF ServBreak, BeginRun
<1>13. CASE IgmpJoin \/ IgmpSleep \/ IgmpStop \/ Forget
  BY <1>13 DEF IgmpJoin, IgmpSleep, IgmpStop, Forget, InLoop
<1>14. CASE IgmpLeave \/ IgmpExit
  BY <1>14 DEF IgmpLeave, IgmpExit
<1>15. CASE UNCHANGED vars
  BY <1>15 DEF vars
<1> QED
  BY <1>1, <1>2, <1>3, <1>4, <1>5, <1>6, <1>7, <1>8, <1>9, <1>10, <1>11, <1>12, <1>13, <1>14, <1>15
     DEF Next, ApiCall, MainStep, IgmpStep, ThreadStep

\* Steps that leave the table of groups alone, and in which the IGMP thread neither
\* enters nor ends igmpLeaveAll().
TableStays ==
    /\ UNCHANGED igmp
    /\ \/ th'["igmp"] = th["igmp"]
       \/ {th["igmp"], th'["igmp"]} \cap {"leave", "exited"} = {}
    /\ main' # "count" \/ main = "count"

LEMMA Tables ==
    ASSUME DevInv, [Next]_vars
    PROVE  \/ TableStays
           \/ initMoexStrategy \/ McJoinExisting \/ McJoinStore \/ McJoinCount
           \/ IgmpStep \/ Forget
<1> USE DEF DevInv, FlagsTyped, Thread, Spawn, Set, TableStays
<1>1. CASE openDev
  BY <1>1 DEF openDev, IgmpThread, PastIgmp
<1>2. CASE initEpmTx \/ SpawnTcpRx \/ WaitTx \/ efcInit \/ InitMoexDone
  BY <1>2 DEF initEpmTx, SpawnTcpRx, WaitTx, efcInit, InitMoexDone
<1>3. CASE EfcRun \/ runMoexStrategy \/ WaitFire
  BY <1>3 DEF EfcRun, runMoexStrategy, StartFire, WaitFire
<1>4. CASE closeDev \/ WaitServTerminated \/ WaitRunTerminated \/ WaitTcpRxTerminated
             \/ WaitFireTerminated \/ DeleteIgmp \/ JoinIgmp \/ DeleteCores
  BY <1>4 DEF closeDev, WaitServTerminated, WaitRunTerminated, WaitTcpRxTerminated,
              WaitFireTerminated, WaitTerminated, DeleteIgmp, JoinIgmp, DeleteCores
<1>5. CASE \E t \in Thread : ThreadStep(t)
  BY <1>5 DEF ThreadStep, Begin, BeginNext, Exit
<1>6. CASE ServBreak \/ BeginRun \/ UNCHANGED vars
  BY <1>6 DEF ServBreak, BeginRun, vars
<1> QED
  BY <1>1, <1>2, <1>3, <1>4, <1>5, <1>6 DEF Next, ApiCall, MainStep

\* A group that is taken off the list.
LEMMA TailTyped ==
    ASSUME TableTyped, mcGroups # <<>>
    PROVE  Head(mcGroups) \in Group /\ Tail(mcGroups) \in Seq(Group)
BY DEF TableTyped

LEMMA TableTypedStep == DevInv /\ [Next]_vars => TableTyped'
<1> SUFFICES ASSUME DevInv, [Next]_vars PROVE TableTyped'
  OBVIOUS
<1> USE DEF DevInv
<1>1. CASE TableStays
  BY <1>1 DEF TableStays, TableTyped, igmp
<1>2. CASE initMoexStrategy
  <2>1. /\ mcGroups' \in UNION {[1..n -> Group] : n \in 0..MaxUdpMcGroups + 1}
        /\ UNCHANGED <<igmpEntry, numIgmpEntries, walk>>
    BY <1>2 DEF initMoexStrategy
  <2>2. mcGroups' \in Seq(Group)
    <3>1. PICK n \in 0..MaxUdpMcGroups + 1 : mcGroups' \in [1..n -> Group]
      BY <2>1
    <3>2. n \in Nat
      BY DevAssumption
    <3> QED
      BY <3>1, <3>2
  <2> QED
    BY <2>1, <2>2 DEF TableTyped
<1>3. CASE McJoinExisting
  BY <1>3, TailTyped DEF McJoinExisting, TableTyped
<1>4. CASE McJoinStore
  <2>1. Head(mcGroups) \in Group /\ UNCHANGED <<mcGroups, numIgmpEntries, walk>>
    BY <1>4, TailTyped DEF McJoinStore, Store
  <2>2. igmpEntry' \in {igmpEntry, [igmpEntry EXCEPT ![numIgmpEntries + 1] = Head(mcGroups)]}
    BY <1>4 DEF McJoinStore, Store
  <2> QED
    BY <2>1, <2>2 DEF TableTyped
<1>5. CASE McJoinCount
  <2>1. /\ Tail(mcGroups) \in Seq(Group) /\ numIgmpEntries < MAX_ENTRIES_PER_LANE
        /\ mcGroups' = Tail(mcGroups) /\ numIgmpEntries' = numIgmpEntries + 1
        /\ UNCHANGED <<igmpEntry, walk>>
    BY <1>5, TailTyped DEF McJoinCount, Entries
  <2>2. numIgmpEntries' \in 0..MAX_ENTRIES_PER_LANE
    BY <2>1, DevAssumption DEF TableTyped
  <2> QED
    BY <2>1, <2>2, Zenon DEF TableTyped
<1>6. CASE IgmpJoin \/ IgmpSleep \/ IgmpStop \/ Forget
  BY <1>6 DEF IgmpJoin, IgmpSleep, IgmpStop, Forget, TableTyped
<1>7. CASE IgmpLeave
  <2>1. /\ igmpEntry' = [igmpEntry EXCEPT ![walk + 1] = NoEntry] /\ walk' = walk + 1
        /\ UNCHANGED <<mcGroups, numIgmpEntries>>
    BY <1>7 DEF IgmpLeave
  <2>2. walk' \in Nat
    BY <2>1 DEF TableTyped
  <2>3. igmpEntry' \in [1..MAX_ENTRIES_PER_LANE -> Group \cup {NoEntry}]
    BY <2>1 DEF TableTyped
  <2> QED
    BY <2>1, <2>2, <2>3 DEF TableTyped
<1>8. CASE IgmpExit
  BY <1>8 DEF IgmpExit, TableTyped, igmp
<1> QED
  BY <1>1, <1>2, <1>3, <1>4, <1>5, <1>6, <1>7, <1>8, Tables DEF IgmpStep

LEMMA EntriesStep == DevInv /\ [Next]_vars => Entries'
<1> SUFFICES ASSUME DevInv, [Next]_vars PROVE Entries'
  OBVIOUS
<1> USE DEF DevInv
<1>a. /\ numIgmpEntries \in Nat /\ numIgmpEntries <= MAX_ENTRIES_PER_LANE /\ walk \in Nat
      /\ MAX_ENTRIES_PER_LANE \in Nat
      /\ igmpEntry \in [1..MAX_ENTRIES_PER_LANE -> Group \cup {NoEntry}]
  BY DevAssumption DEF TableTyped
<1>1. CASE TableStays
  BY <1>1 DEF TableStays, Entries, Joined, igmp
<1>b. CASE initMoexStrategy \/ McJoinExisting \/ McJoinStore \/ McJoinCount
  <2>1. /\ th["igmp"] \notin {"leave", "exited"} /\ th' = th /\ member' = member
        /\ \A k \in 1..numIgmpEntries : igmpEntry[k] # NoEntry
        /\ member \subseteq Joined
    BY <1>b DEF initMoexStrategy, McJoinExisting, McJoinStore, McJoinCount, IgmpThread, PastIgmp,
                Entries
  <2>2. CASE initMoexStrategy \/ McJoinExisting
    BY <2>1, <2>2 DEF initMoexStrategy, McJoinExisting, Entries, Joined
  <2>3. CASE McJoinStore
    <3>1. numIgmpEntries' = numIgmpEntries /\ Head(mcGroups) \in Group /\ mcGroups # <<>>
          /\ mcGroups' = mcGroups
      BY <2>3, TailTyped DEF McJoinStore, Store
    <3>2. CASE numIgmpEntries = MAX_ENTRIES_PER_LANE
      <4>1. main' = "on_error" /\ igmpEntry' = igmpEntry
        BY <2>3, <3>2 DEF McJoinStore
      <4> QED
        BY <4>1, <3>1, <2>1 DEF Entries, Joined
    <3>3. CASE numIgmpEntries # MAX_ENTRIES_PER_LANE
      <4>1. igmpEntry' = [igmpEntry EXCEPT ![numIgmpEntries + 1] = Head(mcGroups)]
        BY <2>3, <3>3 DEF McJoinStore, Store
      <4>2. /\ numIgmpEntries < MAX_ENTRIES_PER_LANE
            /\ igmpEntry'[numIgmpEntries + 1] # NoEntry
            /\ \A k \in 1..numIgmpEntries : igmpEntry'[k] = igmpEntry[k]
        BY <4>1, <3>1, <3>3, <1>a, DevAssumption
      <4>3. Joined' = Joined
        BY <4>2, <3>1 DEF Joined
      <4> QED
        BY <4>2, <4>3, <3>1, <2>1 DEF Entries
    <3> QED
      BY <3>2, <3>3
  <2>4. CASE McJoinCount
    <3>1. /\ main = "count" /\ main' = "join" /\ igmpEntry' = igmpEntry
          /\ numIgmpEntries' = numIgmpEntries + 1
      BY <2>4 DEF McJoinCount
    <3>2. igmpEntry[numIgmpEntries + 1] # NoEntry
      BY <3>1 DEF Entries
    <3>3. \A k \in 1..numIgmpEntries' : igmpEntry'[k] # NoEntry
      BY <3>1, <3>2, <2>1, <1>a
    <3>4. Joined \subseteq Joined'
      BY <3>1, <1>a DEF Joined
    <3> QED
      BY <3>1, <3>3, <3>4, <2>1 DEF Entries
  <2> QED
    BY <1>b, <2>2, <2>3, <2>4
<1>2. CASE IgmpJoin
  <2>1. /\ th["igmp"] = "loop" /\ th' = th /\ main' = main
        /\ walk < numIgmpEntries /\ member' = member \cup {igmpEntry[walk + 1]}
        /\ UNCHANGED <<igmpEntry, numIgmpEntries, mcGroups>>
    BY <1>2 DEF IgmpJoin, InLoop
  <2>2. igmpEntry[walk + 1] \in Joined
    BY <2>1, <1>a DEF Joined
  <2> QED
    BY <2>1, <2>2 DEF Entries, Joined
<1>3. CASE IgmpSleep
  <2>1. /\ th["igmp"] = "loop" /\ th' = th /\ main' = main
        /\ UNCHANGED <<igmpEntry, numIgmpEntries, mcGroups, member>>
    BY <1>3 DEF IgmpSleep, InLoop
  <2> QED
    BY <2>1 DEF Entries, Joined
<1>4. CASE IgmpStop
  <2>1. /\ th["igmp"] = "loop" /\ th'["igmp"] = "leave" /\ main' = main /\ walk' = 0
        /\ UNCHANGED <<igmpEntry, numIgmpEntries, mcGroups, member>>
    BY <1>4 DEF IgmpStop, InLoop, Set, FlagsTyped, Thread
  <2> QED
    BY <2>1 DEF Entries, Joined
<1>5. CASE IgmpLeave
  <2>1. /\ th["igmp"] = "leave" /\ th' = th /\ main' = main
        /\ walk < numIgmpEntries /\ walk' = walk + 1
        /\ member' = member \ {igmpEntry[walk + 1]}
        /\ igmpEntry' = [igmpEntry EXCEPT ![walk + 1] = NoEntry]
        /\ UNCHANGED <<numIgmpEntries, mcGroups>>
    BY <1>5 DEF IgmpLeave
  <2>2. \A k \in (walk' + 1)..numIgmpEntries : igmpEntry'[k] = igmpEntry[k] /\ k \in (walk + 1)..numIgmpEntries
    BY <2>1, <1>a
  <2>3. \A k \in (walk' + 1)..numIgmpEntries : igmpEntry'[k] # NoEntry
    BY <2>1, <2>2 DEF Entries
  <2>4. member' \subseteq {igmpEntry'[k] : k \in (walk' + 1)..numIgmpEntries}
    <3> SUFFICES ASSUME NEW g \in member'
                 PROVE  \E k \in (walk' + 1)..numIgmpEntries : g = igmpEntry'[k]
      OBVIOUS
    <3>1. g # igmpEntry[walk + 1] /\ \E k \in (walk + 1)..numIgmpEntries : g = igmpEntry[k]
      BY <2>1 DEF Entries
    <3>2. PICK k \in (walk + 1)..numIgmpEntries : g = igmpEntry[k]
      BY <3>1
    <3>3. k \in (walk' + 1)..numIgmpEntries
      BY <3>1, <3>2, <2>1, <1>a
    <3> QED
      BY <3>2, <3>3, <2>2
  <2>5. main # "count"
    BY <2>1 DEF IgmpThread, PastIgmp
  <2> QED
    BY <2>1, <2>3, <2>4, <2>5 DEF Entries
<1>6. CASE IgmpExit
  <2>1. /\ th["igmp"] = "leave" /\ th'["igmp"] = "exited" /\ main' = main /\ walk >= numIgmpEntries
        /\ UNCHANGED <<igmpEntry, numIgmpEntries, mcGroups, member>>
    BY <1>6 DEF IgmpExit, Set, FlagsTyped, Thread, igmp
  <2>2. (walk + 1)..numIgmpEntries = {}
    BY <2>1, <1>a
  <2>3. member = {}
    BY <2>1, <2>2 DEF Entries
  <2> QED
    BY <2>1, <2>3 DEF Entries
<1>7. CASE Forget
  <2>1. /\ member' \subseteq member
        /\ UNCHANGED <<main, th, igmpEntry, numIgmpEntries, mcGroups, walk>>
    BY <1>7 DEF Forget
  <2> QED
    BY <2>1 DEF Entries, Joined
<1> QED
  BY <1>1, <1>b, <1>2, <1>3, <1>4, <1>5, <1>6, <1>7, Tables DEF IgmpStep

LEMMA DevInit == Init => DevInv
<1> SUFFICES ASSUME Init PROVE DevInv
  OBVIOUS
<1>1. FlagsTyped /\ TableTyped
  BY DevAssumption DEF Init, FlagsTyped, TableTyped, Mains, Places, Thread
<1>2. TxThreads /\ FireThread /\ RunThread /\ IgmpThread
  BY DEF Init, TxThreads, FireThread, RunThread, IgmpThread, Thread, PastServ, PastRun, PastTcpRx,
         PastIgmp, PastFire, Closing, Gone
<1>3. Entries
  BY DEF Init, Entries, Joined, Thread
<1> QED
  BY <1>1, <1>2, <1>3 DEF DevInv

LEMMA DevInvariant == Spec => []DevInv
<1>1. DevInv /\ [Next]_vars => DevInv'
  BY FlagsTypedStep, TableTypedStep, TxThreadsStep, FireThreadStep, RunThreadStep, IgmpThreadStep,
     EntriesStep DEF DevInv
<1> QED
  BY <1>1, DevInit, PTL DEF Spec

----------------------------------------------------------------------------
(* The theorems.                                                             *)

\* ~EkaDev() deletes the sessions and the strategies after the threads have left their
\* loops, for every order of calls and however late a thread starts; all but a
\* FireReport thread that closeDev() met between the stores of its two flags.
THEOREM DevThreadsGone == Spec => []ThreadsGone
<1>1. DevInv => ThreadsGone
  BY DEF DevInv, ThreadsGone, TxThreads, FireThread, RunThread, IgmpThread, PastServ, PastRun,
         PastTcpRx, PastIgmp, PastFire, Thread, Gone
<1> QED
  BY <1>1, DevInvariant, PTL

\* igmpThreadLoopCb() reads no entry that is not there, for every size of the table.
THEOREM DevEntryThere == Spec => []EntryThere
<1>1. DevInv => EntryThere
  <2> SUFFICES ASSUME DevInv, th["igmp"] \in {"loop", "leave"}, walk < numIgmpEntries
               PROVE  igmpEntry[walk + 1] # NoEntry
    BY DEF EntryThere
  <2>1. walk + 1 \in 1..numIgmpEntries /\ walk + 1 \in (walk + 1)..numIgmpEntries
    BY DevAssumption DEF DevInv, TableTyped
  <2> QED
    BY <2>1 DEF DevInv, Entries
<1> QED
  BY <1>1, DevInvariant, PTL

\* A device that is closed is a member of no group (igmpLeaveAll).
THEOREM DevGroupsLeft == Spec => []GroupsLeft
<1>1. DevInv => GroupsLeft
  BY DEF DevInv, GroupsLeft, IgmpThread, Entries
<1> QED
  BY <1>1, DevInvariant, PTL

============================================================================
