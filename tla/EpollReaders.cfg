\* Debug build, a reader on each of two sockets.
CONSTANTS
    f1 = f1
    f2 = f2
    r1 = r1
    r2 = r2
    w1 = w1
    None = None
    Fds = {f1, f2}
    Readers = {r1, r2}
    Writers = {}
    FdOf <- MCFdOf
    SockBuf = 1
    MaxEvents = 2
    Threads = 2
    NDEBUG = FALSE
    ReuseStale = TRUE
SPECIFICATION Spec
INVARIANTS
    NoLostWakeup
    WaitersSafe
    NoNullDeref
    NoLockCycle
    AbortsOnlyAfterClose
CHECK_DEADLOCK FALSE
