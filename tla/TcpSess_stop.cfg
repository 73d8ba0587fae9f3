\* One session and everything the environment may do: a stale ACK, a shutdown, a
\* reset, a loss, and the stop of the device at any point; a HW fire in report_only mode.
\* The sends end after MaxBytes, so the system may stop.
CONSTANTS
    Sess = {s1}
    Thread = {t1}
    MAX_PAYLOAD_SIZE = 1
    WndMargin = 0
    FpgaInFlightLimit = 0
    SeqMod = 8
    ISN = 5
    SndBuf = 1
    Cwnd = 1
    PeerWnds = {2}
    Modes = {{}, {s1}}
    ReportOnly = TRUE
    MaxBytes = 2
    MaxFired = 1
    MaxFaults = 1
    Env = {"staleAck", "shutdown", "reset", "stop"}
SPECIFICATION FairSpec
INVARIANT MirrorBehindWire
PROPERTY StopReleasesThreads
CHECK_DEADLOCK FALSE
