\* Two coroutines; the reactor is started up to three times.
CONSTANTS
    c1 = c1
    c2 = c2
    c3 = c3
    Nobody = Nobody
    Coros = {c1, c2}
    Starts = 3
SPECIFICATION FairSpec
INVARIANTS
    OverlappedIsLive
    AnswerSafe
PROPERTIES
    OperationAnswered
    StopReturns
CHECK_DEADLOCK FALSE
