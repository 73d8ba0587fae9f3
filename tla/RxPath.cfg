\* A session whose mailbox holds one message and whose window two segments; one
\* packet may be lost, and the session reset or closed.
SPECIFICATION Spec
CONSTANTS
    SYS_MBOX_SIZE = 2
    RcvWnd = 2
    RecvLens <- MCRecvLens
    MaxSegs = 3
    MaxFaults = 1
    Env <- MCEnv
INVARIANT NothingDropped
INVARIANT WindowReturned
INVARIANT NoSleepOnMail
PROPERTY ImplementsStream
PROPERTY EverySegmentServed
PROPERTY RecvReturns
\* A closed session stops.
CHECK_DEADLOCK FALSE
