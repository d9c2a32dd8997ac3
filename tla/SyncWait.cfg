\* One thread in wait(), two detached coroutines on a pool of two threads
\* or on the executor of wait().
CONSTANTS
    w1 = w1
    w2 = w2
    d1 = d1
    d2 = d2
    p1 = p1
    p2 = p2
    Pool = Pool
    Nobody = Nobody
    Waiters = {w1}
    Detached = {d1, d2}
    PoolThreads = {p1, p2}
    Invokes = 1
    DetachTo = {"pool", "parent"}
    Throwing = {w1, d1, d2}
SPECIFICATION FairSpec
INVARIANTS
    AwaiterSafe
    ExecutorOutlivesUsers
PROPERTIES
    WaitReturns
    DetachedFinishes
CHECK_DEADLOCK FALSE
