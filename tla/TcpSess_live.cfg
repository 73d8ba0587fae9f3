\* Two sessions share ServThread and TcpRxThread.  Each sends one packet, which lwIP
\* transmits in parts because its congestion window is smaller; lwIP's buffer holds all
\* that the exchange's window lets the application send.  One packet may be lost.
\* The sends end after MaxBytes, so the system may stop.
CONSTANTS
    Sess = {s1, s2}
    Thread = {t1}
    MAX_PAYLOAD_SIZE = 3
    WndMargin = 0
    FpgaInFlightLimit = 2
    SeqMod = 8
    ISN = 5
    SndBuf = 3
    Cwnd = 2
    PeerWnds = {3}
    Modes = {{}}
    ReportOnly = FALSE
    MaxBytes = 1
    MaxFired = 0
    MaxFaults = 1
    Env = {}
SPECIFICATION FairSpec
PROPERTY EveryByteAcked
CHECK_DEADLOCK FALSE
