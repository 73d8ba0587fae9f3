\* The application shuts an idle session down, and the exchange acknowledges its FIN.
\* Nothing is sent, so the system may stop.
CONSTANTS
    Sess = {s1}
    Thread = {t1}
    MAX_PAYLOAD_SIZE = 1
    WndMargin = 0
    FpgaInFlightLimit = 2
    SeqMod = 8
    ISN = 5
    SndBuf = 2
    Cwnd = 2
    PeerWnds = {3}
    Modes = {{s1}}
    ReportOnly = FALSE
    MaxBytes = 0
    MaxFired = 0
    MaxFaults = 0
    Env = {"shutdown"}
SPECIFICATION FairSpec
PROPERTY RxThreadProgress
CHECK_DEADLOCK FALSE
