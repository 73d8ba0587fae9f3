\* A ring of three slots that wraps twice, filled to its capacity of two; an
\* application send and an exception report among the fires; write errors and
\* the stop at any point.  The threads end when the device stops, so the
\* system may stop.
CONSTANTS
    Q_ELEMS = 3
    MaxPending = 2
    MaxFires = 5
    MaxOthers = 1
    Env = {"writeError", "stop"}
SPECIFICATION FairSpec
INVARIANT NoFatal
INVARIANT InOrder
INVARIANT PointersFollowCounters
PROPERTY EveryFireReported
PROPERTY StopEnds
CHECK_DEADLOCK FALSE
