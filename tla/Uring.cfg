\* Three coroutines and stop() share rings of one entry: the submission ring
\* fills, _pending is used and completions overflow.
CONSTANTS
    c1 = c1
    c2 = c2
    c3 = c3
    Nop = Nop
    Coros = {c1, c2, c3}
    SqSize = 1
    CqSize = 1
    CanFail = {}
SPECIFICATION FairSpec
INVARIANTS
    RequestSafe
    MutexOutlivesHolder
PROPERTIES
    RequestAnswered
    StopReturns
CHECK_DEADLOCK FALSE
