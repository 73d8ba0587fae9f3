\* One session whose sequence numbers start at SeqMod - 3 and wrap, with packets of
\* one or two bytes, a HW fire, a lost packet, and a lwIP window and buffer smaller
\* than what is sent.
\* The sends end after MaxBytes, so the system may stop.
CONSTANTS
    Sess = {s1}
    Thread = {t1}
    MAX_PAYLOAD_SIZE = 2
    WndMargin = 0
    FpgaInFlightLimit = 2
    SeqMod = 8
    ISN = 5
    SndBuf = 3
    Cwnd = 2
    PeerWnds = {4}
    Modes = {{s1}}
    ReportOnly = FALSE
    MaxBytes = 4
    MaxFired = 2
    MaxFaults = 1
    Env = {}
SPECIFICATION Spec
INVARIANT TypeOK
INVARIANT AckIsTrue
INVARIANT AckReconstructed
INVARIANT MirrorExact
INVARIANT MirrorBehindWire
INVARIANT Reconciled
PROPERTY NoAckLost
CHECK_DEADLOCK FALSE
