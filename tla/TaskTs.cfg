\* Coroutines TS: a chain of five tasks on four threads.
CONSTANTS
    t1 = t1
    t2 = t2
    t3 = t3
    t4 = t4
    None = None
    N = 4
    Threads = {t1, t2, t3, t4}
    StdCoroutines = FALSE
SPECIFICATION FairSpec
INVARIANTS
    FramesSafe
PROPERTIES
    ImplementsCalls
    CallerContinues
