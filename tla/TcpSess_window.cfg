\* Two application threads pass the checks of preSendCheck() at the same time on one
\* session while the HW fires and the exchange changes its window.  The threads are
\* interchangeable.
\* The sends end after MaxBytes, so the system may stop.
CONSTANTS
    Sess = {s1}
    Thread = {t1, t2}
    MAX_PAYLOAD_SIZE = 1
    WndMargin = 1
    FpgaInFlightLimit = 0
    SeqMod = 16
    ISN = 13
    SndBuf = 1
    Cwnd = 1
    PeerWnds = {2, 3}
    Modes = {{}}
    ReportOnly = FALSE
    MaxBytes = 3
    MaxFired = 1
    MaxFaults = 0
    Env = {}
SPECIFICATION Spec
SYMMETRY Symmetry
INVARIANT WindowRespected
INVARIANT InFlightBounded
CHECK_DEADLOCK FALSE
