SPECIFICATION FairSpec
CONSTANTS
    N = 2
    MaxConns = 3
    MaxSends <- Sends
    MaxFaults = 1
INVARIANTS
    PointersAreValid
    MessagesAreKept
PROPERTIES
    ReleasedIsDeleted
    QueuedIsSent
CHECK_DEADLOCK FALSE
