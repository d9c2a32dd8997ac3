\* Release build, a reader and a sender share a socket.
CONSTANTS
    f1 = f1
    f2 = f2
    r1 = r1
    r2 = r2
    w1 = w1
    None = None
    Fds = {f1}
    Readers = {r1}
    Writers = {w1}
    FdOf <- MCFdOf
    SockBuf = 1
    MaxEvents = 1
    Threads = 2
    NDEBUG = TRUE
    ReuseStale = FALSE
SPECIFICATION FairSpec
INVARIANTS
    Safety
PROPERTIES
    ReadableReaderResumes
    StopReturns
CHECK_DEADLOCK FALSE
