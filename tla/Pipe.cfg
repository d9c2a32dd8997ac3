\* A buffer of four elements that goes round twice and more.
CONSTANTS
    Junk = Junk
    Size = 4
    Total = 14
SPECIFICATION FairSpec
INVARIANTS
    StreamIntact
PROPERTIES
    ImplementsStream
    AllDelivered
CHECK_DEADLOCK FALSE
