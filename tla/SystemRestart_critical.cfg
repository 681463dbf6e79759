SPECIFICATION FairSpec
CONSTANTS
    NumModules = 2
    NumThreads = 2
    Owner <- MCOwner
    Housekeepers = {1}
    Readers = {1}
    Reasons = {1, 2}
    MaxRequests = 0
    MaxTraps = 0
    MaxLate = 0
    MaxLosses = 1
PROPERTIES
    CriticalDeathRestarts
