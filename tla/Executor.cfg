\* Two pool threads, one thread calling run(), three items.
CONSTANTS
    i1 = i1
    i2 = i2
    i3 = i3
    p1 = p1
    p2 = p2
    r1 = r1
    NoItem = NoItem
    Items = {i1, i2, i3}
    Pool = {p1, p2}
    Runners = {r1}
    Batch = 1
SPECIFICATION FairSpec
INVARIANTS
    PoolSafe
PROPERTIES
    ImplementsQueue
    PostedRuns
    StopReturns
CHECK_DEADLOCK FALSE
