\* Extents of two elements, lists of at most two ranges.
CONSTANTS
    XSize = 2
    MaxRanges = 2
    Total = 9
SPECIFICATION Spec
INVARIANTS
    ElementsInOrder
    ExtentsSound
    StallsOnlyBehindGap
CHECK_DEADLOCK FALSE
