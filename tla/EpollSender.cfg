\* A sender alone on its socket blocks.
CONSTANTS
    f1 = f1
    f2 = f2
    r1 = r1
    r2 = r2
    w1 = w1
    None = None
    Fds = {f1}
    Readers = {}
    Writers = {w1}
    FdOf <- MCFdOf
    SockBuf = 1
    MaxEvents = 1
    Threads = 1
    NDEBUG = FALSE
    ReuseStale = FALSE
SPECIFICATION FairSpec
PROPERTIES
    WritableSenderResumes
CHECK_DEADLOCK FALSE
