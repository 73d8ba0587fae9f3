\* Two threads that wait at the same time.
SPECIFICATION Spec
CONSTANTS
    Threads = {t1, t2}
    Conns = {c1, c2}
    TCP_SND_BUF = 2
    TCP_SNDLOWAT = 1
    WriteLens <- MCWriteLens
    MaxRcv = 1
    Sharing <- MCShared
INVARIANT NoAbort
