\* Five keys, of which one is a prefix of two others.
CONSTANT Keys <- TextKeys
SPECIFICATION Spec
INVARIANTS
    FindsContents
    WellFormed
    IterationIsSorted
    LongestPrefix
    CrashesOnlyWithNewRoot
CHECK_DEADLOCK FALSE
