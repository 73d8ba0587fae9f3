\* Two threads open, use and close sessions in two slots with either API; a slot is
\* used again; a payload is longer than a frame of lwIP; a connect may fail at two
\* points.  Opens and sends are bounded, so the system may stop.
CONSTANTS
    Thread = {t1, t2}
    MAX_SESS_PER_CORE = 2
    Apis = {"exc", "bcs"}
    Lens = {2}
    MaxOpens = 3
    MaxSends = 1
SPECIFICATION Spec
SYMMETRY Symmetry
INVARIANT SequentialIsSafe
INVARIANT OwnSessionStays
INVARIANT SlotsAccounted
INVARIANT WholePackets
INVARIANT BuffersAlternate
INVARIANT AckHeadersFresh
INVARIANT FeedbackToSender
CHECK_DEADLOCK FALSE
