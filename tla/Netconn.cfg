\* Two threads and two sockets; one thread at a time is in a call that waits.
SPECIFICATION Spec
CONSTANTS
    Threads = {t1, t2}
    Conns = {c1, c2}
    TCP_SND_BUF = 2
    TCP_SNDLOWAT = 1
    WriteLens <- MCWriteLens
    MaxRcv = 1
    Sharing <- MCAlone
INVARIANT NoAbort
INVARIANT NoStaleSignal
INVARIANT PollNotMissed
PROPERTY CallsReturn
\* A poll without timeout may wait for good.
CHECK_DEADLOCK FALSE
